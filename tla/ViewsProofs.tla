----------------------------- MODULE ViewsProofs -----------------------------
(***************************************************************************)
(* What the pages show, whatever the clients, objects, pods, clusters and  *)
(* bounds: for each part of MCServices that a reader looks at (a table,    *)
(* the logs, the metrics, the fleet, a search, the verdict on a pod, the   *)
(* overview), its inductive invariant holds at first and after every step. *)
(* ServicesProofs puts them beside the other services.                     *)
(***************************************************************************)
EXTENDS MCServices, SequenceTheorems, TLAPS
LOCAL INSTANCE SequencesExt
LOCAL INSTANCE FiniteSetsExt

FS == INSTANCE FiniteSetTheorems
WF == INSTANCE WellFoundedInduction

-----------------------------------------------------------------------------
(* Finite sets and sequences. *)

\* What a function makes of a finite set is finite.
LEMMA FiniteImage ==
  ASSUME NEW S, FS!IsFiniteSet(S), NEW f, DOMAIN f = S, f \in [S -> {f[x] : x \in S}]
  PROVE  FS!IsFiniteSet({f[x] : x \in S})
<1>1. f \in FS!Surjection(S, {f[x] : x \in S})
    BY DEF FS!Surjection
<1> QED BY <1>1, FS!FS_Surjection

\* The places up to one of them.
LEMMA UpTo ==
  ASSUME NEW n \in Nat, NEW k \in 1..n
  PROVE  1..k \in SUBSET (1..n) /\ 1..k # {} /\ k \in Nat \ {0}
<1>1. k \in Nat /\ 1 <= k /\ k <= n
    OBVIOUS
<1>2. k \in 1..k /\ \A i \in 1..k : i \in 1..n
    BY <1>1
<1> QED BY <1>1, <1>2

\* The empty list has no place.
LEMMA NoneOfNone == \A i \in DOMAIN <<>> : FALSE
OBVIOUS

\* A sequence with one more at its end, or one less at its head.
LEMMA OneMore ==
  ASSUME NEW S, NEW s \in Seq(S), NEW e \in S
  PROVE  /\ Append(s, e) \in Seq(S) /\ Len(Append(s, e)) = Len(s) + 1
         /\ DOMAIN Append(s, e) = 1..(Len(s) + 1) /\ DOMAIN s = 1..Len(s) /\ Len(s) \in Nat
         /\ Append(s, e)[Len(s) + 1] = e
         /\ \A i \in 1..Len(s) : Append(s, e)[i] = s[i]
         /\ s \o <<e>> = Append(s, e)
OBVIOUS

\* A sequence without its first item.
LEMMA OneLess ==
  ASSUME NEW S, NEW s \in Seq(S), s # << >>
  PROVE  /\ Tail(s) \in Seq(S) /\ Len(Tail(s)) = Len(s) - 1 /\ Len(s) \in Nat /\ Len(s) >= 1
         /\ DOMAIN Tail(s) = 1..(Len(s) - 1) /\ DOMAIN s = 1..Len(s)
         /\ Head(s) = s[1] /\ Head(s) \in S
         /\ \A i \in 1..(Len(s) - 1) : Tail(s)[i] = s[i + 1]
OBVIOUS

-----------------------------------------------------------------------------
(* A table and its stream (cluster/watch.go, httpapi/stream_handlers.go). *)

Patches == Stream!Changes \ {Stream!Reset}

\* The bounds of a table are numbers.
LEMMA StreamBounds ==
  /\ FS!IsFiniteSet(Spaces) /\ Picks \subseteq SUBSET Spaces
  /\ TableBuffer \in Nat /\ TableChanges \in Nat \ {0} /\ TableFaults \in Nat
BY MCStream DEF Stream!StreamAssumption, Stream!IsFiniteSet, FS!IsFiniteSet

\* What a watch reports is a change, and no reset.
LEMMA Reported ==
  ASSUME NEW type \in {"added", "modified", "deleted"}, NEW n \in Spaces,
         NEW v \in 0 .. TableChanges
  PROVE  /\ Stream!Change(type, n, v) \in Patches
         /\ Stream!Change(type, n, v).ns = n /\ Stream!Change(type, n, v).version = v
<1> DEFINE c == Stream!Change(type, n, v)
<1>1. c.type = type /\ c.ns = n /\ c.version = v
    BY DEF Stream!Change
<1>2. c \in [type : {"added", "modified", "deleted"}, ns : Spaces, version : 0 .. TableChanges]
    BY DEF Stream!Change
<1>3. Stream!Reset.type = "reset"
    BY DEF Stream!Reset
<1>4. c # Stream!Reset
    BY <1>1, <1>3
<1> QED BY <1>1, <1>2, <1>4 DEF Patches, Stream!Changes

\* A change names a namespace and a version of its object.
LEMMA Patch ==
  ASSUME NEW c \in Patches
  PROVE  c.ns \in Spaces /\ c.version \in 0 .. TableChanges
<1>1. c \in [type : {"added", "modified", "deleted"}, ns : Spaces, version : 0 .. TableChanges]
    BY DEF Patches, Stream!Changes
<1> QED BY <1>1

\* A watch that starts reports the objects of its scope, as they are.
LEMMA Replayed ==
  ASSUME Stream!TypeOK, Stream!WatchStarts
  PROVE  /\ s8' \in Seq(Patches)
         /\ \A i \in DOMAIN s8' : s8'[i].ns \in Stream!Scope /\ s8'[i].version = s2[s8'[i].ns]
<1> DEFINE there == {m \in Stream!Scope : s2[m] # 0}
           report == [n \in there |-> Stream!Change("added", n, s2[n])]
           everything == {report[n] : n \in there}
<1>1. s1 \in SUBSET Spaces /\ s2 \in [Spaces -> 0 .. TableChanges]
    BY StreamBounds DEF Stream!TypeOK, Stream!Versions
<1>2. there \in SUBSET Spaces
    BY <1>1 DEF Stream!Scope
<1>3. FS!IsFiniteSet(there)
  <2> HIDE DEF there
  <2> QED BY <1>2, StreamBounds, FS!FS_Subset
<1>4. DOMAIN report = there /\ report \in [there -> everything]
    OBVIOUS
<1>5. FS!IsFiniteSet(everything)
  <2> HIDE DEF there, report
  <2> QED BY <1>3, <1>4, FiniteImage
<1>6. Stream!Cardinality(everything) \in Nat
  <2> HIDE DEF everything
  <2>1. FS!Cardinality(everything) \in Nat
      BY <1>5, FS!FS_CardinalityType
  <2> QED BY <2>1 DEF FS!Cardinality, Stream!Cardinality
<1>7. everything = {Stream!Change("added", n, s2[n]) : n \in there}
    OBVIOUS
<1>8. s8' \in Stream!Bijection(1..Stream!Cardinality(everything), everything)
    BY <1>7 DEF Stream!WatchStarts
<1>9. s8' \in [1..Stream!Cardinality(everything) -> everything]
  <2> HIDE DEF everything
  <2> QED BY <1>8 DEF Stream!Bijection, Stream!Injection
<1>10. s8' \in Seq(everything)
  <2> HIDE DEF everything
  <2> QED BY <1>6, <1>9, SeqDef
<1>11. ASSUME NEW c \in everything
       PROVE  c \in Patches /\ c.ns \in Stream!Scope /\ c.version = s2[c.ns]
  <2>1. PICK n \in there : c = Stream!Change("added", n, s2[n])
      BY <1>7
  <2>2. n \in Spaces /\ n \in Stream!Scope /\ s2[n] \in 0 .. TableChanges
      BY <1>1, <1>2
  <2> QED BY <2>1, <2>2, Reported
<1> HIDE DEF everything
<1>12. s8' \in Seq(Patches)
    BY <1>10, <1>11, SeqMonotonic
<1>13. \A i \in DOMAIN s8' : s8'[i] \in everything
    BY <1>10
<1> QED BY <1>11, <1>12, <1>13

\* The invariant of a table holds at first.
LEMMA StreamInit == Stream!Init => Stream!IInv
<1> SUFFICES ASSUME Stream!Init PROVE Stream!IInv
    OBVIOUS
<1>1. 0 \in 0 .. TableChanges /\ 1 \in 0 .. TableChanges /\ 1 \in 1 .. TableChanges
      /\ 0 \in 0 .. TableFaults /\ 0 <= TableBuffer
    BY StreamBounds
<1>2. Stream!None \in Stream!Versions
    BY <1>1 DEF Stream!None, Stream!Versions
<1>3. s2 \in Stream!Versions
    BY <1>1 DEF Stream!Init, Stream!Versions
<1>4. /\ s1 \in Picks /\ s3 = 1 /\ s4 \in BOOLEAN /\ s5 = FALSE /\ s6 = Stream!None
      /\ s7 = "off" /\ s8 = <<>> /\ s9 = <<>> /\ s10 = "sent" /\ s11 = Stream!None
      /\ s12 = Stream!None /\ s13 = FALSE /\ s14 = 0
    BY DEF Stream!Init
<1>5. s8 \in Seq(Patches) /\ s9 \in Seq(Stream!Changes) /\ Len(s9) = 0
    BY <1>4
<1>6. \A i \in DOMAIN <<>> : FALSE
    BY NoneOfNone
<1>7. Stream!TypeOK
    BY <1>1, <1>2, <1>3, <1>4, <1>5 DEF Stream!TypeOK, Patches
<1> QED BY <1>4, <1>6, <1>7 DEF Stream!IInv, Stream!InScope

\* A namespace to which a change of the scope may be applied is one that the
\* reader sees.
LEMMA AppliedIsShown ==
  ASSUME s1 \in SUBSET Spaces, NEW c, c.ns \in Spaces, c.ns \in Stream!Scope, Stream!Matches(c)
  PROVE  c.ns \in Stream!Shown
<1>1. FS!IsFiniteSet(s1)
    BY StreamBounds, FS!FS_Subset
<1>2. FS!Cardinality(s1) \in Nat /\ (FS!Cardinality(s1) = 0 <=> s1 = {})
    BY <1>1, FS!FS_CardinalityType, FS!FS_EmptySet
<1>3. FS!Cardinality(s1) = Stream!Cardinality(s1)
    BY DEF FS!Cardinality, Stream!Cardinality
<1>4. CASE c.ns \in s1
    BY <1>4 DEF Stream!Shown
<1>5. CASE c.ns \notin s1
  <2>1. Stream!Cardinality(s1) <= 1
      BY <1>5 DEF Stream!Matches
  <2>2. Stream!Cardinality(s1) # 1
      BY <1>5 DEF Stream!Scope
  <2>3. s1 = {}
      BY <1>2, <1>3, <2>1, <2>2
  <2> QED BY <2>3 DEF Stream!Shown
<1> QED BY <1>4, <1>5

\* Every step of a table keeps the invariant, and none but a change of the
\* cluster makes a settled table wrong.
LEMMA StreamStep ==
  Stream!IInv /\ [Stream!Next]_(Stream!vars) => Stream!IInv' /\ Stream!StaysSettled
<1> SUFFICES ASSUME Stream!IInv, [Stream!Next]_(Stream!vars)
             PROVE  Stream!IInv' /\ Stream!StaysSettled
    OBVIOUS
<1> DEFINE V == Stream!Versions
           Cluster == /\ s1 \in Picks /\ s2 \in V /\ s3 \in 1 .. TableChanges /\ s4 \in BOOLEAN
                      /\ s14 \in 0 .. TableFaults
           Held == s5 \in BOOLEAN /\ s6 \in V
           Asked == s10 \in {"idle", "sent", "answered"} /\ s11 \in V
           Rows == s12 \in V /\ s13 \in BOOLEAN
           Steps == {"off", "starting", "open", "interrupted", "lost", "sleeping"}
           Flow == /\ s7 \in Steps
                   /\ s8 \in Seq(Patches) /\ \A i \in DOMAIN s8 : s8[i].ns \in Stream!Scope
                   /\ s9 \in Seq(Stream!Changes) /\ Len(s9) <= TableBuffer
                   /\ \A i \in DOMAIN s9 : s9[i] # Stream!Reset => s9[i].ns \in Stream!Scope
           Told == /\ \A i \in DOMAIN s8 : s8[i].version = s2[s8[i].ns]
                   /\ \A i \in DOMAIN s9 : s9[i] # Stream!Reset => s9[i].version = s2[s9[i].ns]
           Shows == s13 /\ s12 = Stream!Wanted
           Answers == s10 = "answered" => s11 = Stream!Wanted
           Caches == s4 /\ s5 => s6 = s2
<1>0. TableBuffer \in Nat /\ TableChanges \in Nat \ {0} /\ TableFaults \in Nat
    BY StreamBounds
<1>1. Cluster /\ Held /\ Asked /\ Rows /\ Flow
    BY DEF Stream!IInv, Stream!TypeOK, Stream!InScope, Patches
<1>2. Cluster' /\ Held' /\ Asked' /\ Rows' /\ Flow' => Stream!IInv'
    BY DEF Stream!IInv, Stream!TypeOK, Stream!InScope, Patches, Stream!Scope,
        Stream!Versions
<1>3. Stream!Settled => Told /\ Shows /\ Answers /\ Caches
    BY DEF Stream!Settled, Stream!Current
<1>4. Told' /\ Shows' /\ Answers' /\ Caches' => Stream!Settled'
    BY DEF Stream!Settled, Stream!Current
<1>5. ASSUME s1' = s1 PROVE Stream!Scope' = Stream!Scope /\ Stream!Shown' = Stream!Shown
    BY <1>5 DEF Stream!Scope, Stream!Shown
<1>6. ASSUME s1' = s1, s2' = s2 PROVE Stream!Wanted' = Stream!Wanted
    BY <1>5, <1>6 DEF Stream!Wanted
<1>v. ASSUME NEW from \in V PROVE Stream!Finish(from) \in V
    BY <1>0 DEF Stream!Finish, Stream!Versions
<1>n. Stream!None \in V
    BY <1>0 DEF Stream!None, Stream!Versions
<1>f. ASSUME Stream!Fault PROVE s14' \in 0 .. TableFaults
    BY <1>f, <1>0, <1>1 DEF Stream!Fault
<1>7. ASSUME NEW n \in Spaces, Stream!Write(n) \/ Stream!Delete(n)
      PROVE  Stream!IInv' /\ Stream!StaysSettled
  <2>1. PICK v \in 0 .. TableChanges, type \in {"added", "modified", "deleted"} : Stream!Alter(n, v, type)
    <3>1. CASE Stream!Write(n)
      <4>1. Stream!Alter(n, s3 + 1, IF s2[n] = 0 THEN "added" ELSE "modified")
          BY <3>1 DEF Stream!Write
      <4>2. s3 + 1 \in 0 .. TableChanges
          BY <1>0, <1>1, <4>1 DEF Stream!Alter
      <4> QED BY <4>1, <4>2
    <3>2. CASE Stream!Delete(n)
      <4>1. Stream!Alter(n, 0, "deleted") /\ 0 \in 0 .. TableChanges
          BY <3>2, <1>0 DEF Stream!Delete
      <4> QED BY <4>1
    <3> QED BY <1>7, <3>1, <3>2
  <2>2. /\ s3 < TableChanges /\ s3' = s3 + 1
        /\ s2' = [s2 EXCEPT ![n] = v]
        /\ s8' = IF s7 = "open" /\ n \in Stream!Scope THEN Append(s8, Stream!Change(type, n, s2'[n])) ELSE s8
        /\ s1' = s1 /\ s4' = s4 /\ s5' = s5 /\ s6' = s6 /\ s7' = s7 /\ s9' = s9
        /\ s10' = s10 /\ s11' = s11 /\ s12' = s12 /\ s13' = s13 /\ s14' = s14
      BY <2>1 DEF Stream!Alter, Stream!Report, Stream!informers, Stream!request,
          Stream!table
  <2>3. s2' \in V /\ s2'[n] = v
      BY <1>1, <2>2 DEF Stream!Versions
  <2>4. Cluster'
      BY <1>0, <1>1, <2>2, <2>3
  <2>5. s8' \in Seq(Patches) /\ \A i \in DOMAIN s8' : s8'[i].ns \in Stream!Scope
    <3>1. CASE s7 = "open" /\ n \in Stream!Scope
      <4> DEFINE c == Stream!Change(type, n, v)
      <4>1. c \in Patches /\ c.ns = n
          BY Reported
      <4>2. s8' = Append(s8, c)
          BY <2>2, <2>3, <3>1
      <4> HIDE DEF c
      <4> QED BY <1>1, <3>1, <4>1, <4>2, OneMore
    <3>2. CASE ~(s7 = "open" /\ n \in Stream!Scope)
        BY <1>1, <2>2, <3>2
    <3> QED BY <3>1, <3>2
  <2>6. Flow'
      BY <1>1, <1>5, <2>2, <2>5
  <2>7. s2' # s2 \/ v = s2[n]
      BY <2>3
  <2>8. Stream!StaysSettled
    <3> SUFFICES ASSUME Stream!Settled, s2' = s2 PROVE Stream!Settled'
        BY DEF Stream!StaysSettled
    <3>1. Told' /\ Shows' /\ Answers' /\ Caches'
      <4>1. \A i \in DOMAIN s8' : s8'[i].version = s2[s8'[i].ns]
        <5>1. CASE s7 = "open" /\ n \in Stream!Scope
          <6> DEFINE c == Stream!Change(type, n, v)
          <6>1. c \in Patches /\ c.ns = n /\ c.version = s2[n]
              BY Reported, <2>3
          <6>2. s8' = Append(s8, c)
              BY <2>2, <2>3, <5>1
          <6> HIDE DEF c
          <6>3. \A i \in DOMAIN s8 : s8[i].version = s2[s8[i].ns]
              BY <1>3
          <6> QED BY <1>1, <6>1, <6>2, <6>3, OneMore
        <5>2. CASE ~(s7 = "open" /\ n \in Stream!Scope)
            BY <1>3, <2>2, <5>2
        <5> QED BY <5>1, <5>2
      <4> QED BY <1>3, <1>6, <2>2, <4>1
    <3> QED BY <1>4, <3>1
  <2> QED BY <1>1, <1>2, <2>2, <2>4, <2>6, <2>8
<1>8. CASE Stream!CacheFollows
  <2>1. /\ s5' = TRUE /\ s6' = s2 /\ s1' = s1 /\ s2' = s2 /\ s3' = s3 /\ s4' = s4 /\ s7' = s7 /\ s8' = s8 /\ s9' = s9
        /\ s10' = s10 /\ s11' = s11 /\ s12' = s12 /\ s13' = s13 /\ s14' = s14
      BY <1>8 DEF Stream!CacheFollows, Stream!cluster, Stream!stream, Stream!request,
          Stream!table
  <2>2. Cluster' /\ Held' /\ Asked' /\ Rows' /\ Flow'
      BY <1>1, <1>5, <2>1
  <2>3. Told /\ Shows /\ Answers => Told' /\ Shows' /\ Answers' /\ Caches'
      BY <1>6, <2>1
  <2> QED BY <1>2, <1>3, <1>4, <2>2, <2>3 DEF Stream!StaysSettled
<1>9. CASE Stream!ListRead
  <2>1. /\ s10' = "answered" /\ s11' = Stream!Finish(IF s4 /\ s5 THEN s6 ELSE s2)
        /\ s1' = s1 /\ s2' = s2 /\ s3' = s3 /\ s4' = s4 /\ s5' = s5 /\ s6' = s6 /\ s7' = s7 /\ s8' = s8 /\ s9' = s9
        /\ s12' = s12 /\ s13' = s13 /\ s14' = s14
      BY <1>9 DEF Stream!ListRead, Stream!cluster, Stream!informers, Stream!stream,
          Stream!table
  <2>2. s11' \in V
      BY <1>1, <1>v, <2>1
  <2>3. Cluster' /\ Held' /\ Asked' /\ Rows' /\ Flow'
      BY <1>1, <1>5, <2>1, <2>2
  <2>4. ASSUME Told, Shows, Answers, Caches PROVE Told' /\ Shows' /\ Answers' /\ Caches'
    <3>1. s11' = Stream!Finish(s2)
        BY <2>1, <2>4
    <3>2. s11' = Stream!Wanted
        BY <3>1 DEF Stream!Finish, Stream!Wanted
    <3> QED BY <1>6, <2>1, <2>4, <3>2
  <2> QED BY <1>2, <1>3, <1>4, <2>3, <2>4 DEF Stream!StaysSettled
<1>10. CASE Stream!ListFails \/ Stream!Poll \/ Stream!ListArrives
  <2>1. /\ s10' \in {"idle", "sent"} /\ (s11' = s11 \/ s11' = Stream!None)
        /\ s1' = s1 /\ s2' = s2 /\ s3' = s3 /\ s4' = s4 /\ s5' = s5 /\ s6' = s6 /\ s7' = s7 /\ s8' = s8 /\ s9' = s9
      BY <1>10 DEF Stream!ListFails, Stream!Poll, Stream!ListArrives, Stream!cluster,
          Stream!informers,
                  Stream!stream, Stream!table
  <2>2. s14' \in 0 .. TableFaults
      BY <1>10, <1>1, <1>f DEF Stream!ListFails, Stream!Poll, Stream!ListArrives
  <2>3. \/ s12' = s12 /\ s13' = s13
        \/ s10 = "answered" /\ s12' = s11 /\ s13' = TRUE
      BY <1>10 DEF Stream!ListFails, Stream!Poll, Stream!ListArrives, Stream!table
  <2>4. Cluster' /\ Held' /\ Asked' /\ Rows' /\ Flow'
      BY <1>1, <1>5, <1>n, <2>1, <2>2, <2>3
  <2>5. Told /\ Shows /\ Answers /\ Caches => Told' /\ Shows' /\ Answers' /\ Caches'
      BY <1>6, <2>1, <2>3
  <2> QED BY <1>2, <1>3, <1>4, <2>4, <2>5 DEF Stream!StaysSettled
<1>11. CASE Stream!Connect \/ Stream!Retry \/ Stream!WatchRefused \/ Stream!WatchEnds \/ Stream!Drop
  <2>1. /\ s7' \in Steps
        /\ s8' = s8 \/ s8' = <<>>
        /\ s9' = s9 \/ s9' = <<>>
        /\ s10' = s10 \/ s10' = "sent"
        /\ s11' \in {s11, Stream!None}
        /\ s10' = s10 => s11' = s11 \/ s10 = "sent"
      BY <1>11 DEF Stream!Connect, Stream!Retry, Stream!WatchRefused, Stream!WatchEnds,
          Stream!Drop, Stream!Relist,
                  Stream!request
  <2>2. /\ s1' = s1 /\ s2' = s2 /\ s3' = s3 /\ s4' = s4 /\ s5' = s5 /\ s6' = s6 /\ s12' = s12 /\ s13' = s13
      BY <1>11 DEF Stream!Connect, Stream!Retry, Stream!WatchRefused, Stream!WatchEnds,
          Stream!Drop,
                  Stream!cluster, Stream!informers, Stream!table
  <2>3. s14' \in 0 .. TableFaults
      BY <1>11, <1>1, <1>f DEF Stream!Connect, Stream!Retry, Stream!WatchRefused,
          Stream!WatchEnds, Stream!Drop
  <2>e. /\ s8' \in Seq(Patches)
        /\ \A i \in DOMAIN s8' : s8'[i].ns \in Stream!Scope
    <3>1. CASE s8' = s8
        BY <1>1, <3>1
    <3>2. CASE s8' = <<>>
      <4>1. s8' \in Seq(Patches)
          BY <3>2
      <4> QED BY <3>2, <4>1, NoneOfNone
    <3> QED BY <2>1, <3>1, <3>2
  <2>o. /\ s9' \in Seq(Stream!Changes) /\ Len(s9') <= TableBuffer
        /\ \A i \in DOMAIN s9' : s9'[i] # Stream!Reset => s9'[i].ns \in Stream!Scope
    <3>1. CASE s9' = s9
        BY <1>1, <3>1
    <3>2. CASE s9' = <<>>
      <4>1. s9' \in Seq(Stream!Changes) /\ Len(s9') = 0
          BY <3>2
      <4> QED BY <1>0, <3>2, <4>1, NoneOfNone
    <3> QED BY <2>1, <3>1, <3>2
  <2>4. Flow'
      BY <1>5, <2>1, <2>2, <2>e, <2>o
  <2>5. Cluster' /\ Held' /\ Asked' /\ Rows'
      BY <1>1, <1>n, <2>1, <2>2, <2>3
  <2>6. Told /\ Shows /\ Answers /\ Caches => Told' /\ Shows' /\ Answers' /\ Caches'
      BY <1>6, <2>1, <2>2, NoneOfNone
  <2> QED BY <1>2, <1>3, <1>4, <2>4, <2>5, <2>6 DEF Stream!StaysSettled
<1>12. CASE Stream!WatchStarts
  <2>1. /\ s7' = "open" /\ s1' = s1 /\ s2' = s2 /\ s3' = s3 /\ s4' = s4 /\ s5' = s5 /\ s6' = s6 /\ s9' = s9
        /\ s10' = s10 /\ s11' = s11 /\ s12' = s12 /\ s13' = s13 /\ s14' = s14
      BY <1>12 DEF Stream!WatchStarts, Stream!cluster, Stream!informers,
          Stream!request, Stream!table
  <2>2. /\ s8' \in Seq(Patches)
        /\ \A i \in DOMAIN s8' : s8'[i].ns \in Stream!Scope /\ s8'[i].version = s2[s8'[i].ns]
      BY <1>12, Replayed DEF Stream!IInv
  <2>3. Cluster' /\ Held' /\ Asked' /\ Rows' /\ Flow'
      BY <1>1, <1>5, <2>1, <2>2
  <2>4. Told /\ Shows /\ Answers /\ Caches => Told' /\ Shows' /\ Answers' /\ Caches'
      BY <1>6, <2>1, <2>2
  <2> QED BY <1>2, <1>3, <1>4, <2>3, <2>4 DEF Stream!StaysSettled
<1>13. CASE Stream!Forward
  <2>1. /\ s8 # <<>> /\ Len(s9) < TableBuffer /\ s9' = Append(s9, Head(s8)) /\ s8' = Tail(s8)
        /\ s1' = s1 /\ s2' = s2 /\ s3' = s3 /\ s4' = s4 /\ s5' = s5 /\ s6' = s6 /\ s7' = s7
        /\ s10' = s10 /\ s11' = s11 /\ s12' = s12 /\ s13' = s13 /\ s14' = s14
      BY <1>13 DEF Stream!Forward, Stream!Send, Stream!cluster, Stream!informers,
          Stream!request, Stream!table
  <2>2. /\ s8' \in Seq(Patches) /\ Len(s8) \in Nat /\ DOMAIN s8' = 1..(Len(s8) - 1) /\ DOMAIN s8 = 1..Len(s8)
        /\ Head(s8) = s8[1] /\ 1 \in DOMAIN s8 /\ Head(s8) \in Patches
        /\ \A i \in 1..(Len(s8) - 1) : s8'[i] = s8[i + 1]
      BY <1>1, <2>1, OneLess
  <2>3. Head(s8) \in Stream!Changes
      BY <2>2 DEF Patches
  <2>4. /\ s9' \in Seq(Stream!Changes) /\ Len(s9') = Len(s9) + 1 /\ DOMAIN s9' = 1..(Len(s9) + 1)
        /\ DOMAIN s9 = 1..Len(s9) /\ Len(s9) \in Nat /\ s9'[Len(s9) + 1] = Head(s8)
        /\ \A i \in 1..Len(s9) : s9'[i] = s9[i]
      BY <1>1, <2>1, <2>3, OneMore
  <2>5. \A i \in DOMAIN s8' : \E j \in DOMAIN s8 : s8'[i] = s8[j]
    <3> SUFFICES ASSUME NEW i \in DOMAIN s8' PROVE \E j \in DOMAIN s8 : s8'[i] = s8[j]
        OBVIOUS
    <3>1. i + 1 \in DOMAIN s8 /\ s8'[i] = s8[i + 1]
        BY <2>2
    <3> QED BY <3>1
  <2>6. \A i \in DOMAIN s9' : s9'[i] = Head(s8) \/ \E j \in DOMAIN s9 : s9'[i] = s9[j]
    <3> SUFFICES ASSUME NEW i \in DOMAIN s9', i # Len(s9) + 1 PROVE \E j \in DOMAIN s9 : s9'[i] = s9[j]
        BY <2>4
    <3>1. i \in DOMAIN s9 /\ s9'[i] = s9[i]
        BY <2>4
    <3> QED BY <3>1
  <2>7. Len(s9') <= TableBuffer
      BY <1>0, <2>1, <2>4
  <2>8. Flow'
      BY <1>1, <1>5, <2>1, <2>2, <2>4, <2>5, <2>6, <2>7
  <2>9. Cluster' /\ Held' /\ Asked' /\ Rows'
      BY <1>1, <2>1
  <2>10. Told => Told'
      BY <2>1, <2>2, <2>5, <2>6
  <2>11. Told /\ Shows /\ Answers /\ Caches => Told' /\ Shows' /\ Answers' /\ Caches'
      BY <1>6, <2>1, <2>10
  <2> QED BY <1>2, <1>3, <1>4, <2>8, <2>9, <2>11 DEF Stream!StaysSettled
<1>14. CASE Stream!TellReset
  <2>1. /\ Len(s9) < TableBuffer /\ s9' = Append(s9, Stream!Reset) /\ s7' \in Steps
        /\ s1' = s1 /\ s2' = s2 /\ s3' = s3 /\ s4' = s4 /\ s5' = s5 /\ s6' = s6 /\ s8' = s8
        /\ s10' = s10 /\ s11' = s11 /\ s12' = s12 /\ s13' = s13 /\ s14' = s14
      BY <1>14 DEF Stream!TellReset, Stream!Send, Stream!cluster, Stream!informers,
          Stream!request, Stream!table
  <2>2. Stream!Reset \in Stream!Changes
      BY DEF Stream!Changes
  <2>3. /\ s9' \in Seq(Stream!Changes) /\ Len(s9') = Len(s9) + 1 /\ DOMAIN s9' = 1..(Len(s9) + 1)
        /\ DOMAIN s9 = 1..Len(s9) /\ Len(s9) \in Nat /\ s9'[Len(s9) + 1] = Stream!Reset
        /\ \A i \in 1..Len(s9) : s9'[i] = s9[i]
      BY <1>1, <2>1, <2>2, OneMore
  <2>4. \A i \in DOMAIN s9' : s9'[i] = Stream!Reset \/ \E j \in DOMAIN s9 : s9'[i] = s9[j]
    <3> SUFFICES ASSUME NEW i \in DOMAIN s9', i # Len(s9) + 1 PROVE \E j \in DOMAIN s9 : s9'[i] = s9[j]
        BY <2>3
    <3>1. i \in DOMAIN s9 /\ s9'[i] = s9[i]
        BY <2>3
    <3> QED BY <3>1
  <2>5. Len(s9') <= TableBuffer
      BY <1>0, <2>1, <2>3
  <2>6. Flow'
      BY <1>1, <1>5, <2>1, <2>3, <2>4, <2>5
  <2>7. Cluster' /\ Held' /\ Asked' /\ Rows'
      BY <1>1, <2>1
  <2>8. Told => Told'
      BY <2>1, <2>4
  <2>9. Told /\ Shows /\ Answers /\ Caches => Told' /\ Shows' /\ Answers' /\ Caches'
      BY <1>6, <2>1, <2>8
  <2> QED BY <1>2, <1>3, <1>4, <2>6, <2>7, <2>9 DEF Stream!StaysSettled
<1>15. CASE Stream!Deliver
  <2> DEFINE c == Head(s9)
  <2>1. /\ s9 # <<>> /\ s9' = Tail(s9)
        /\ s1' = s1 /\ s2' = s2 /\ s3' = s3 /\ s4' = s4 /\ s5' = s5 /\ s6' = s6 /\ s7' = s7 /\ s8' = s8
        /\ s13' = s13 /\ s14' = s14
      BY <1>15 DEF Stream!Deliver, Stream!cluster, Stream!informers
  <2>2. /\ s9' \in Seq(Stream!Changes) /\ Len(s9) \in Nat /\ DOMAIN s9' = 1..(Len(s9) - 1) /\ DOMAIN s9 = 1..Len(s9)
        /\ c = s9[1] /\ 1 \in DOMAIN s9 /\ c \in Stream!Changes /\ Len(s9') = Len(s9) - 1
        /\ \A i \in 1..(Len(s9) - 1) : s9'[i] = s9[i + 1]
      BY <1>1, <2>1, OneLess
  <2>3. \A i \in DOMAIN s9' : \E j \in DOMAIN s9 : s9'[i] = s9[j]
    <3> SUFFICES ASSUME NEW i \in DOMAIN s9' PROVE \E j \in DOMAIN s9 : s9'[i] = s9[j]
        OBVIOUS
    <3>1. i + 1 \in DOMAIN s9 /\ s9'[i] = s9[i + 1]
        BY <2>2
    <3> QED BY <3>1
  <2>4. Len(s9') <= TableBuffer
      BY <1>0, <1>1, <2>2
  <2>5. \/ s10' = "sent" /\ s11' = Stream!None /\ s12' = s12
        \/ s10' = s10 /\ s11' = s11 /\ s12' = s12
        \/ /\ s10' = s10 /\ s11' = s11 /\ c # Stream!Reset /\ Stream!Matches(c)
           /\ s12' = IF s13 THEN [s12 EXCEPT ![c.ns] = c.version] ELSE s12
      BY <1>15 DEF Stream!Deliver, Stream!Relist, Stream!Apply, Stream!request
  <2>6. c # Stream!Reset => c.ns \in Spaces /\ c.version \in 0 .. TableChanges /\ c.ns \in Stream!Scope
    <3>1. c # Stream!Reset => c \in Patches
        BY <2>2 DEF Patches
    <3>2. c # Stream!Reset => c.ns \in Stream!Scope
        BY <1>1, <2>2
    <3> HIDE DEF c
    <3> QED BY <3>1, <3>2, Patch
  <2> HIDE DEF c
  <2>7. s12' \in V
      BY <1>1, <2>5, <2>6 DEF Stream!Versions
  <2>8. Cluster' /\ Held' /\ Asked' /\ Rows' /\ Flow'
      BY <1>1, <1>5, <1>n, <2>1, <2>2, <2>3, <2>4, <2>5, <2>7
  <2>9. ASSUME Told, Shows, Answers, Caches PROVE Told' /\ Shows' /\ Answers' /\ Caches'
    <3>1. Told'
        BY <2>1, <2>3, <2>9
    <3>2. s12' = s12
      <4>1. CASE c # Stream!Reset /\ Stream!Matches(c) /\ s12' = [s12 EXCEPT ![c.ns] = c.version]
        <5>1. c.version = s2[c.ns]
            BY <2>2, <2>9, <4>1
        <5>2. s1 \in SUBSET Spaces
            BY <1>1, StreamBounds
        <5>3. c.ns \in Stream!Shown
            BY <2>6, <4>1, <5>2, AppliedIsShown
        <5>4. s12[c.ns] = c.version
            BY <2>6, <2>9, <4>1, <5>1, <5>3 DEF Stream!Wanted
        <5> QED BY <1>1, <2>6, <4>1, <5>4 DEF Stream!Versions
      <4> QED BY <2>5, <2>9, <4>1
    <3> QED BY <1>6, <2>1, <2>5, <2>9, <3>1, <3>2
  <2> QED BY <1>2, <1>3, <1>4, <2>8, <2>9 DEF Stream!StaysSettled
<1>16. CASE UNCHANGED Stream!vars
  <2>1. /\ s1' = s1 /\ s2' = s2 /\ s3' = s3 /\ s4' = s4 /\ s5' = s5 /\ s6' = s6 /\ s7' = s7 /\ s8' = s8 /\ s9' = s9
        /\ s10' = s10 /\ s11' = s11 /\ s12' = s12 /\ s13' = s13 /\ s14' = s14
      BY <1>16 DEF Stream!vars, Stream!cluster, Stream!informers, Stream!stream,
          Stream!request, Stream!table
  <2>2. Cluster' /\ Held' /\ Asked' /\ Rows' /\ Flow'
      BY <1>1, <1>5, <2>1
  <2>3. Told /\ Shows /\ Answers /\ Caches => Told' /\ Shows' /\ Answers' /\ Caches'
      BY <1>6, <2>1
  <2> QED BY <1>2, <1>3, <1>4, <2>2, <2>3 DEF Stream!StaysSettled
<1> QED BY <1>7, <1>8, <1>9, <1>10, <1>11, <1>12, <1>13, <1>14, <1>15, <1>16
        DEF Stream!Next

-----------------------------------------------------------------------------
(* The logs of the clusters (cluster/logs_sweeper.go). *)

\* The shape of the state holds at first.
LEMMA LogSweepInit == LogSweep!Init => LogSweep!TypeOK
<1> SUFFICES ASSUME LogSweep!Init PROVE LogSweep!TypeOK
    OBVIOUS
<1>1. LogChanges \in Nat /\ LogFaults \in Nat
    BY MCSweep DEF LogSweep!SweepAssumption
<1> QED BY <1>1 DEF LogSweep!Init, LogSweep!TypeOK, LogSweep!Secrets, LogSweep!Answers,
                    LogSweep!MaybeSource

\* Every step of the sweeps keeps it; and a sweep that runs while nothing
\* changes or fails tells what it should.
LEMMA LogSweepStep ==
  LogSweep!TypeOK /\ [LogSweep!Next]_(LogSweep!vars) => LogSweep!TypeOK' /\ LogSweep!TellsOn
<1> SUFFICES ASSUME LogSweep!TypeOK, [LogSweep!Next]_(LogSweep!vars)
             PROVE  LogSweep!TypeOK' /\ LogSweep!TellsOn
    OBVIOUS
<1> DEFINE M == LogSweep!MaybeSource
           Idle == LogSweep!Idle
           Walk == [step : {"walk"}, left : SUBSET Logged, rows : [Logged -> M], rules : {0, 1}]
           Ask == [step : {"ask"}, left : SUBSET Logged, rows : [Logged -> M], rules : {0, 1},
                   at : Logged, secret : M]
           Moved == [step : {"forget"}, at : Logged, secret : M \cup {"keep"}]
           Typed == [step : {"secret"}, at : Logged, secret : M]
           Rows == s1 \in [Logged -> M] /\ s2 \in [Logged -> M]
           World == s3 \in SUBSET LogStores /\ s4 \in {0, 1}
           Swept == s5 = Idle \/ s5 \in Walk \/ s5 \in Ask
           Told == s6 \in [Logged -> LogSweep!Answers]
           Edited == s7 = Idle \/ s7 \in Moved \/ s7 \in Typed
           Count == s8 \in 0..LogChanges /\ s9 \in 0..LogFaults
           Begins == LogSweep!Tick /\ s7 = Idle
           Due(c) == LogSweep!Due(c)
           Good(c) == (s5 # Idle /\ c \in s5.left) \/ s6[c] = Due(c)
           Same == s5 # Idle => s5.rows = s1 /\ s5.rules = s4
           Opened == s5.step = "ask" => s1[s5.at] # Nothing /\ s5.secret = s2[s5.at]
<1>0. LogChanges \in Nat /\ LogFaults \in Nat /\ Nothing \notin LogStores
    BY MCSweep DEF LogSweep!SweepAssumption
<1>1. Rows /\ World /\ Swept /\ Told /\ Edited /\ Count
    BY DEF LogSweep!TypeOK, LogSweep!Secrets
<1>2. Rows' /\ World' /\ Swept' /\ Told' /\ Edited' /\ Count' => LogSweep!TypeOK'
    BY DEF LogSweep!TypeOK, LogSweep!Secrets
<1>3. LogSweep!ToldSoFar => s7 = Idle /\ Same /\ Opened /\ \A c \in Logged : Good(c)
    BY DEF LogSweep!ToldSoFar
<1>4. s7' = Idle /\ Same' /\ Opened' /\ (\A c \in Logged : Good(c))' => LogSweep!ToldSoFar'
    BY DEF LogSweep!ToldSoFar
<1>i. Idle.step = "idle" /\ (\A w \in Walk : w.step = "walk" /\ w # Idle) /\ (\A a \in Ask : a.step = "ask" /\ a # Idle)
      /\ (\A e \in Moved : e.step = "forget") /\ (\A e \in Typed : e.step = "secret")
    BY DEF LogSweep!Idle
<1>c. ASSUME LogSweep!Changes PROVE s8' \in 0..LogChanges /\ s8' # s8
    BY <1>c, <1>0, <1>1 DEF LogSweep!Changes
<1>f. ASSUME LogSweep!Faults PROVE s9' \in 0..LogFaults /\ s9' # s9
    BY <1>f, <1>0, <1>1 DEF LogSweep!Faults
<1>d. ASSUME UNCHANGED <<s1, s2, s3, s4>> PROVE \A c : Due(c)' = Due(c)
    BY <1>d DEF LogSweep!Due
<1>w. ASSUME NEW left \in SUBSET Logged, s5 \in Walk \/ s5 \in Ask
      PROVE  /\ LogSweep!Rest(left) = Idle \/ LogSweep!Rest(left) \in Walk
             /\ LogSweep!Rest(left) = Idle => left = {}
             /\ LogSweep!Rest(left) # Idle =>
                  /\ LogSweep!Rest(left).left = left /\ LogSweep!Rest(left).rows = s5.rows
                  /\ LogSweep!Rest(left).rules = s5.rules /\ LogSweep!Rest(left).step = "walk"
  <2>1. s5.rows \in [Logged -> M] /\ s5.rules \in {0, 1}
      BY <1>w
  <2> DEFINE w == [step |-> "walk", left |-> left, rows |-> s5.rows, rules |-> s5.rules]
  <2>2. w \in Walk /\ w.left = left /\ w.rows = s5.rows /\ w.rules = s5.rules /\ w.step = "walk"
      BY <2>1
  <2>3. LogSweep!Rest(left) = IF left = {} THEN Idle ELSE w
      BY DEF LogSweep!Rest
  <2> HIDE DEF w, Walk, Idle
  <2> QED BY <1>i, <2>2, <2>3
\* What is stored of one cluster, and what that does to what was told so far.
<1>s. ASSUME NEW c \in Logged, NEW answer \in LogSweep!Answers, LogSweep!Store(c, answer),
             s5 \in Walk \/ s5 \in Ask, UNCHANGED <<s1, s2, s3, s4, s7>>
      PROVE  /\ Swept' /\ Told'
             /\ LogSweep!ToldSoFar /\ answer = Due(c) => LogSweep!ToldSoFar'
  <2>1. s5.left \in SUBSET Logged /\ s5 # Idle
      BY <1>i, <1>s
  <2>2. s5' = LogSweep!Rest(s5.left \ {c}) /\ s6' = [s6 EXCEPT ![c] = answer]
      BY <1>s DEF LogSweep!Store
  <2>3. s5.left \ {c} \in SUBSET Logged
      BY <2>1
  <2> HIDE DEF Walk, Ask, Idle, M
  <2>4. /\ s5' = Idle \/ s5' \in Walk
        /\ s5' = Idle => s5.left \ {c} = {}
        /\ s5' # Idle => /\ s5'.left = s5.left \ {c} /\ s5'.rows = s5.rows
                         /\ s5'.rules = s5.rules /\ s5'.step = "walk"
      BY <1>s, <1>w, <2>2, <2>3
  <2>5. Told'
      BY <1>1, <2>2
  <2>6. Swept'
      BY <2>4
  <2>7. ASSUME LogSweep!ToldSoFar, answer = Due(c) PROVE LogSweep!ToldSoFar'
    <3>1. s7' = Idle
        BY <1>3, <1>s, <2>7
    <3>2. Same'
        BY <1>3, <1>s, <2>1, <2>4, <2>7
    <3>3. Opened'
        BY <1>i, <2>4
    <3>4. ASSUME NEW d \in Logged PROVE Good(d)'
      <4>1. Due(d)' = Due(d)
          BY <1>d, <1>s
      <4>2. Good(d)
          BY <1>3, <2>7
      <4>3. CASE d = c
          BY <1>1, <2>2, <2>7, <4>1, <4>3
      <4>4. CASE d # c
        <5>1. s6'[d] = s6[d]
            BY <1>1, <2>2, <4>4
        <5> QED BY <2>1, <2>4, <4>1, <4>2, <4>4, <5>1
      <4> QED BY <4>3, <4>4
    <3> HIDE DEF Good, Same, Opened
    <3> QED BY <1>4, <3>1, <3>2, <3>3, <3>4
  <2> QED BY <2>5, <2>6, <2>7
<1>5. CASE LogSweep!Tick
  <2>1. /\ s5 = Idle /\ s1' = s1 /\ s2' = s2 /\ s3' = s3 /\ s4' = s4 /\ s6' = s6 /\ s7' = s7 /\ s8' = s8
        /\ s5'.left = Logged /\ s5'.rows = s1
        /\ s5' \in [step : {"walk"}, left : {Logged}, rows : {s1}, rules : {0, s4}]
        /\ s9' = s9 => s5'.rules = s4
      BY <1>5, <1>f DEF LogSweep!Tick
  <2>2. s5' \in Walk
      BY <1>1, <2>1
  <2>3. s9' \in 0..LogFaults
      BY <1>1, <1>5, <1>f DEF LogSweep!Tick
  <2>4. LogSweep!TypeOK'
      BY <1>1, <1>2, <2>1, <2>2, <2>3
  <2>5. ASSUME s7 = Idle, s9' = s9 PROVE LogSweep!ToldSoFar'
    <3>1. Same' /\ Opened' /\ s7' = Idle
        BY <1>i, <2>1, <2>2, <2>5
    <3>2. \A c \in Logged : Good(c)'
        BY <1>i, <2>1, <2>2
    <3> QED BY <1>4, <3>1, <3>2
  <2> QED BY <1>3, <2>4, <2>5 DEF LogSweep!TellsOn
<1>6. ASSUME NEW c \in Logged, LogSweep!SkipOff(c) \/ LogSweep!OpenFails(c)
      PROVE  LogSweep!TypeOK' /\ LogSweep!TellsOn
  <2> DEFINE answer == IF LogSweep!SkipOff(c) THEN LogSweep!Off ELSE LogSweep!Unknown
  <2>1. /\ s5.step = "walk" /\ s1' = s1 /\ s2' = s2 /\ s3' = s3 /\ s4' = s4 /\ s7' = s7 /\ s8' = s8
        /\ LogSweep!Store(c, answer)
        /\ IF LogSweep!SkipOff(c) THEN s5.rows[c] = Nothing /\ s9' = s9 ELSE LogSweep!Faults
      BY <1>6 DEF LogSweep!SkipOff, LogSweep!OpenFails
  <2>2. s5 \in Walk
      BY <1>1, <1>i, <2>1
  <2>3. answer \in LogSweep!Answers
      BY DEF LogSweep!Answers
  <2>4. Swept' /\ Told' /\ (LogSweep!ToldSoFar /\ answer = Due(c) => LogSweep!ToldSoFar')
      BY <1>s, <2>1, <2>2, <2>3
  <2>5. s9' \in 0..LogFaults
      BY <1>1, <1>f, <2>1
  <2>6. LogSweep!TypeOK'
      BY <1>1, <1>2, <2>1, <2>4, <2>5
  <2>7. LogSweep!ToldSoFar /\ s9' = s9 => answer = Due(c)
      BY <1>3, <1>f, <1>i, <2>1, <2>2 DEF LogSweep!Due
  <2>8. s5 # Idle
      BY <1>i, <2>2
  <2> QED BY <2>4, <2>6, <2>7, <2>8 DEF LogSweep!TellsOn, LogSweep!Tick
<1>7. ASSUME NEW c \in Logged, LogSweep!Open(c) PROVE LogSweep!TypeOK' /\ LogSweep!TellsOn
  <2> DEFINE a == [step |-> "ask", left |-> s5.left, rows |-> s5.rows, rules |-> s5.rules,
                   at |-> c, secret |-> s2[c]]
  <2>1. /\ s5.step = "walk" /\ c \in s5.left /\ s5.rows[c] # Nothing /\ s5' = a
        /\ s1' = s1 /\ s2' = s2 /\ s3' = s3 /\ s4' = s4 /\ s6' = s6 /\ s7' = s7 /\ s8' = s8 /\ s9' = s9
      BY <1>7 DEF LogSweep!Open
  <2>2. s5 \in Walk
      BY <1>1, <1>i, <2>1
  <2>3. a \in Ask
      BY <1>1, <2>2
  <2>4. LogSweep!TypeOK'
      BY <1>1, <1>2, <2>1, <2>3
  <2>5. ASSUME LogSweep!ToldSoFar PROVE LogSweep!ToldSoFar'
    <3>1. Same' /\ Opened' /\ s7' = Idle
        BY <1>3, <1>i, <2>1, <2>2, <2>5
    <3>2. \A d \in Logged : Good(d)'
      <4> SUFFICES ASSUME NEW d \in Logged PROVE Good(d)'
          OBVIOUS
      <4>1. Due(d)' = Due(d) /\ Good(d)
          BY <1>3, <1>d, <2>1, <2>5
      <4>2. s5'.left = s5.left /\ s5' # Idle
          BY <1>i, <2>1, <2>3
      <4> QED BY <2>1, <4>1, <4>2
    <3> QED BY <1>4, <3>1, <3>2
  <2>8. s5 # Idle
      BY <1>i, <2>2
  <2> QED BY <2>4, <2>5, <2>8 DEF LogSweep!TellsOn, LogSweep!Tick
<1>8. CASE LogSweep!Asked
  <2> DEFINE c == s5.at
             asked == s5.rows[c]
             answer == IF asked \in s3 /\ s5.secret = asked
                       THEN LogSweep!Answer(asked, s5.secret, s5.rules) ELSE LogSweep!Unknown
  <2>1. /\ s5.step = "ask" /\ LogSweep!Store(c, answer)
        /\ s1' = s1 /\ s2' = s2 /\ s3' = s3 /\ s4' = s4 /\ s7' = s7 /\ s8' = s8 /\ s9' = s9
      BY <1>8 DEF LogSweep!Asked
  <2>2. s5 \in Ask
      BY <1>1, <1>i, <2>1
  <2>3. c \in Logged /\ s5.secret \in M /\ s5.rules \in {0, 1} /\ asked \in M
      BY <2>2
  <2>4. answer \in LogSweep!Answers
    <3>1. CASE asked \in s3 /\ s5.secret = asked
      <4>1. LogSweep!Answer(asked, s5.secret, s5.rules) \in
              [state : {"ok"}, source : LogStores, secret : M, rules : {0, 1}]
          BY <1>1, <2>3, <3>1 DEF LogSweep!Answer
      <4> QED BY <3>1, <4>1 DEF LogSweep!Answers
    <3>2. CASE ~(asked \in s3 /\ s5.secret = asked)
        BY <3>2 DEF LogSweep!Answers
    <3> QED BY <3>1, <3>2
  <2>5. LogSweep!ToldSoFar => answer = Due(c)
      BY <1>3, <1>i, <2>1, <2>2 DEF LogSweep!Due
  <2> HIDE DEF answer, c
  <2>6. Swept' /\ Told' /\ (LogSweep!ToldSoFar /\ answer = Due(c) => LogSweep!ToldSoFar')
      BY <1>s, <2>1, <2>2, <2>3, <2>4
  <2>7. LogSweep!TypeOK'
      BY <1>1, <1>2, <2>1, <2>6
  <2>8. s5 # Idle
      BY <1>i, <2>2
  <2> QED BY <2>5, <2>6, <2>7, <2>8 DEF LogSweep!TellsOn, LogSweep!Tick
<1>9. CASE LogSweep!TickFails
  <2>1. UNCHANGED <<s1, s2, s3, s4, s5, s6, s7, s8>> /\ s9' \in 0..LogFaults /\ s9' # s9
      BY <1>9, <1>f DEF LogSweep!TickFails
  <2> QED BY <1>1, <1>2, <2>1 DEF LogSweep!TellsOn
<1>10. CASE LogSweep!Forget
  <2>1. /\ s7.step = "forget" /\ UNCHANGED <<s1, s2, s3, s4, s5, s8, s9>>
        /\ s6' = [s6 EXCEPT ![s7.at] = LogSweep!Absent]
        /\ s7' = IF s7.secret = "keep" THEN Idle ELSE [s7 EXCEPT !.step = "secret"]
      BY <1>10 DEF LogSweep!Forget
  <2>2. s7 \in Moved
      BY <1>1, <1>i, <2>1
  <2>3. Told'
      BY <1>1, <2>1, <2>2 DEF LogSweep!Answers
  <2>4. Edited'
    <3>1. CASE s7.secret = "keep"
        BY <2>1, <3>1
    <3>2. CASE s7.secret # "keep"
      <4>1. s7.secret \in M
          BY <2>2, <3>2
      <4>2. s7' \in Typed
          BY <2>1, <2>2, <3>2, <4>1
      <4> QED BY <4>2
    <3> QED BY <3>1, <3>2
  <2> QED BY <1>1, <1>2, <1>i, <2>1, <2>2, <2>3, <2>4
          DEF LogSweep!TellsOn, LogSweep!ToldSoFar
<1>15. CASE LogSweep!SaveSecret \/ LogSweep!SaveSecretFails
  <2>1. /\ s7.step = "secret" /\ s7' = Idle /\ UNCHANGED <<s1, s3, s4, s5, s6, s8>>
        /\ s2' \in {s2, [s2 EXCEPT ![s7.at] = s7.secret]}
      BY <1>15 DEF LogSweep!SaveSecret, LogSweep!SaveSecretFails
  <2>2. s7 \in Typed
      BY <1>1, <1>i, <2>1
  <2>3. s9' \in 0..LogFaults
      BY <1>1, <1>15, <1>f DEF LogSweep!SaveSecret, LogSweep!SaveSecretFails
  <2> QED BY <1>1, <1>2, <1>i, <2>1, <2>2, <2>3 DEF LogSweep!TellsOn, LogSweep!ToldSoFar
<1>11. CASE LogSweep!EditRules
  <2>1. UNCHANGED <<s1, s2, s3, s5, s6, s7, s9>> /\ s4' = 1 - s4 /\ s8' \in 0..LogChanges /\ s8' # s8
      BY <1>11, <1>c DEF LogSweep!EditRules
  <2>2. s4' \in {0, 1}
      BY <1>1, <2>1
  <2> QED BY <1>1, <1>2, <2>1, <2>2 DEF LogSweep!TellsOn
<1>12. ASSUME NEW s \in LogStores, LogSweep!Outage(s)
       PROVE  LogSweep!TypeOK' /\ LogSweep!TellsOn
  <2>1. UNCHANGED <<s1, s2, s4, s5, s6, s7, s9>> /\ s8' \in 0..LogChanges /\ s8' # s8
      BY <1>12, <1>c DEF LogSweep!Outage
  <2>2. s3' \in SUBSET LogStores
      BY <1>1, <1>12 DEF LogSweep!Outage
  <2> QED BY <1>1, <1>2, <2>1, <2>2 DEF LogSweep!TellsOn
<1>13. ASSUME NEW c \in Logged, NEW s \in M, NEW k \in M \cup {"keep"}, LogSweep!SaveRow(c, s, k)
       PROVE  LogSweep!TypeOK' /\ LogSweep!TellsOn
  <2>1. /\ UNCHANGED <<s2, s3, s4, s5, s6, s9>> /\ s8' \in 0..LogChanges /\ s8' # s8
        /\ s1' = [s1 EXCEPT ![c] = s] /\ s7' = [step |-> "forget", at |-> c, secret |-> k]
      BY <1>13, <1>c DEF LogSweep!SaveRow
  <2>2. s1' \in [Logged -> M] /\ s7' \in Moved
      BY <1>1, <2>1
  <2> QED BY <1>1, <1>2, <2>1, <2>2 DEF LogSweep!TellsOn
<1>14. CASE UNCHANGED LogSweep!vars
  <2>1. UNCHANGED <<s1, s2, s3, s4, s5, s6, s7, s8, s9>>
      BY <1>14 DEF LogSweep!vars
  <2>2. LogSweep!ToldSoFar => LogSweep!ToldSoFar'
      BY <2>1 DEF LogSweep!ToldSoFar, LogSweep!Due
  <2>3. ASSUME LogSweep!Tick PROVE FALSE
    <3>1. s5 = Idle /\ s5'.step = "walk"
        BY <2>3 DEF LogSweep!Tick
    <3> QED BY <1>i, <2>1, <3>1
  <2> QED BY <1>1, <1>2, <2>1, <2>2, <2>3 DEF LogSweep!TellsOn
<1> QED BY <1>5, <1>6, <1>7, <1>8, <1>9, <1>10, <1>11, <1>12, <1>13, <1>14, <1>15
    DEF LogSweep!Next, LogSweep!Sweeping, LogSweep!Editing

-----------------------------------------------------------------------------
(* The source of the metrics (cluster/metrics_source.go). *)

\* The invariant of the panels holds at first.
LEMMA MetricsInit == Metrics!Init => Metrics!IInv
<1> SUFFICES ASSUME Metrics!Init PROVE Metrics!IInv
    OBVIOUS
<1>1. PanelChanges \in Nat
    BY MCMetrics DEF Metrics!MetricsAssumption
<1>2. s7 \in [Panels -> [step : {"idle", "list", "fallback"}]]
    BY DEF Metrics!Init, Metrics!Idle
<1>3. s8 \in [Panels -> Metrics!Sources]
    BY DEF Metrics!Init, Metrics!Sources
<1>4. /\ s1 \in Metrics!Rows /\ s2 \in BOOLEAN /\ s3 \in SUBSET PromServers
      /\ s4 \in [PromServers -> SUBSET PromServices] /\ s5 = s4 /\ s6 = <<>>
      /\ s9 \in BOOLEAN /\ s10 = 0
    BY DEF Metrics!Init
<1>5. \A s \in PromServers : s5[s] \subseteq s4[s]
    BY <1>4
<1>6. 0 \in 0..PanelChanges
    BY <1>1
<1> QED BY <1>2, <1>3, <1>4, <1>5, <1>6
        DEF Metrics!IInv, Metrics!TypeOK, Metrics!AnswersLabelled

\* Every step of the panels keeps it, and reads right.
LEMMA MetricsStep ==
  Metrics!IInv /\ [Metrics!Next]_(Metrics!vars) => Metrics!IInv' /\ Metrics!ReadsRight
<1> SUFFICES ASSUME Metrics!IInv, [Metrics!Next]_(Metrics!vars)
             PROVE  Metrics!IInv' /\ Metrics!ReadsRight
    OBVIOUS
<1> DEFINE Plain == [step : {"idle", "list", "fallback"}]
           Source == [step : {"source"}, typed : BOOLEAN]
           Ask == [step : {"ask"}, at : PromServers, candidates : SUBSET PromServices]
           Held == Plain \cup Source \cup Ask
           Row == s1 \in Metrics!Rows /\ s2 \in BOOLEAN /\ s3 \in SUBSET PromServers
           World == /\ s4 \in [PromServers -> SUBSET PromServices]
                    /\ s5 \in [PromServers -> SUBSET PromServices]
                    /\ \A s \in PromServers : s5[s] \subseteq s4[s]
           Memory == s6 = <<>> \/ s6[1] \in Metrics!Entry
           Read == s7 \in [Panels -> Held]
           Seen == s8 \in [Panels -> Metrics!Sources]
           Count == s9 \in BOOLEAN /\ s10 \in 0..PanelChanges
           Knows == Metrics!Remembered =>
                      /\ s6[1].server = s1.server
                      /\ IF s6[1].service = Nothing THEN Metrics!There = {}
                         ELSE s6[1].service \in Metrics!There
           Fair(r) == /\ s7[r].step = "source" => s7[r].typed = s1.typed
                      /\ s7[r].step \in {"list", "ask", "fallback"} => ~s1.typed
                      /\ s7[r].step = "ask" => s7[r].at = s1.server /\ Metrics!There \subseteq s7[r].candidates
                      /\ s7[r].step = "fallback" => Metrics!There = {}
<1>0. PanelChanges \in Nat /\ FoundTTL \in Nat /\ EmptyTTL \in Nat /\ Nothing \notin PromServices
    BY MCMetrics DEF Metrics!MetricsAssumption
<1>1. Row /\ World /\ Memory /\ Read /\ Seen /\ Count
    BY DEF Metrics!IInv, Metrics!TypeOK, Metrics!AnswersLabelled
<1>2. Row' /\ World' /\ Memory' /\ Read' /\ Seen' /\ Count' => Metrics!IInv'
    BY DEF Metrics!IInv, Metrics!TypeOK, Metrics!AnswersLabelled, Metrics!Rows,
        Metrics!Entry, Metrics!Sources,
           Metrics!Found
<1>3. Metrics!Sound => ~s9 /\ Knows /\ \A r \in Panels : Fair(r)
    BY DEF Metrics!Sound
<1>4. ~s9' /\ Knows' /\ (\A r \in Panels : Fair(r))' => Metrics!Sound'
    BY DEF Metrics!Sound
<1>i. /\ \A x \in Plain : x.step \in {"idle", "list", "fallback"}
      /\ \A x \in Source : x.step = "source"
      /\ \A x \in Ask : x.step = "ask"
    OBVIOUS
<1>c. ASSUME Metrics!Changes PROVE s10' \in 0..PanelChanges /\ s10' # s10
    BY <1>c, <1>0, <1>1 DEF Metrics!Changes
<1>w. ASSUME UNCHANGED Metrics!world
      PROVE  /\ Row' /\ World' /\ Count' /\ s9' = s9 /\ s1' = s1 /\ Metrics!There' = Metrics!There
             /\ \A source : Metrics!Right(source)' = Metrics!Right(source)
    BY <1>w, <1>1 DEF Metrics!world, Metrics!There, Metrics!Right
\* A step of panel r alone.
<1>r. ASSUME NEW r \in Panels, NEW next \in Held, UNCHANGED Metrics!world, Metrics!Goes(r, next),
             Memory', Seen',
             Metrics!Sound => Knows' /\ (Fair(r))' /\ (s8' = s8 \/ \E source : Metrics!Shows(r, source) /\ Metrics!Right(source))
      PROVE  Metrics!IInv' /\ Metrics!ReadsRight
  <2>1. s7' = [s7 EXCEPT ![r] = next]
      BY <1>r DEF Metrics!Goes
  <2>2. Metrics!IInv'
      BY <1>1, <1>2, <1>r, <1>w, <2>1
  <2>3. ASSUME Metrics!Sound PROVE Metrics!Sound'
    <3>1. ~s9' /\ Knows'
        BY <1>3, <1>r, <1>w, <2>3
    <3>2. ASSUME NEW p \in Panels PROVE (Fair(p))'
      <4>1. CASE p = r
          BY <1>r, <2>3, <4>1
      <4>2. CASE p # r
        <5>1. s7'[p] = s7[p] /\ Fair(p)
            BY <1>1, <1>3, <2>1, <2>3, <4>2
        <5> QED BY <1>r, <1>w, <5>1
      <4> QED BY <4>1, <4>2
    <3> HIDE DEF Knows, Fair
    <3> QED BY <1>4, <3>1, <3>2
  <2>4. ASSUME Metrics!Sound, NEW p \in Panels
        PROVE  s8'[p] = s8[p] \/ Metrics!Right(s8[p])'
    <3>1. CASE s8' = s8
        BY <3>1
    <3>2. ASSUME NEW source, Metrics!Shows(r, source), Metrics!Right(source)
          PROVE  s8'[p] = s8[p] \/ Metrics!Right(s8[p])'
      <4>1. s8' = [s8 EXCEPT ![r] = source]
          BY <3>2 DEF Metrics!Shows
      <4>2. CASE p = r
        <5>1. s8'[p] = source
            BY <1>1, <4>1, <4>2
        <5> QED BY <1>w, <1>r, <3>2, <5>1 DEF Metrics!Right, Metrics!There
      <4>3. CASE p # r
          BY <1>1, <4>1, <4>3
      <4> QED BY <4>2, <4>3
    <3> QED BY <1>r, <2>4, <3>1, <3>2
  <2> QED BY <2>2, <2>3, <2>4 DEF Metrics!ReadsRight
\* A step that is no panel's changes something, or is a tick.
<1>s. ASSUME Row', World', Memory', Count', UNCHANGED <<s7, s8>>, s10' # s10
      PROVE  Metrics!IInv' /\ Metrics!ReadsRight
    BY <1>1, <1>2, <1>s DEF Metrics!ReadsRight
<1>5. ASSUME NEW r \in Panels, Metrics!Ask(r) PROVE Metrics!IInv' /\ Metrics!ReadsRight
  <2> DEFINE next == [step |-> "source", typed |-> s1.typed]
  <2>1. Metrics!Goes(r, next) /\ UNCHANGED Metrics!world /\ s6' = s6 /\ s8' = s8
      BY <1>5 DEF Metrics!Ask
  <2>2. next \in Source
      BY <1>1 DEF Metrics!Rows
  <2>3. s7'[r] = next
      BY <1>1, <2>1 DEF Metrics!Goes
  <2>4. next.step = "source" /\ next.typed = s1.typed
      OBVIOUS
  <2> HIDE DEF next
  <2>5. Metrics!Sound => Knows' /\ (Fair(r))'
      BY <1>3, <1>w, <2>1, <2>3, <2>4 DEF Metrics!Remembered
  <2>6. Memory' /\ Seen'
      BY <1>1, <2>1
  <2> QED BY <1>r, <2>1, <2>2, <2>5, <2>6
<1>6. ASSUME NEW r \in Panels, Metrics!Choose(r) PROVE Metrics!IInv' /\ Metrics!ReadsRight
  <2>0. s7[r].step = "source" /\ UNCHANGED Metrics!world /\ s6' = s6
      BY <1>6 DEF Metrics!Choose
  <2>1. Memory'
      BY <1>1, <2>0
  <2>2. Metrics!Sound => Knows' /\ s7[r].typed = s1.typed
      BY <1>3, <1>w, <2>0 DEF Metrics!Remembered
  <2>3. CASE s7[r].typed /\ Metrics!Shows(r, Metrics!Manual)
    <3>1. Metrics!Goes(r, Metrics!Idle) /\ s8' = [s8 EXCEPT ![r] = Metrics!Manual]
        BY <2>3 DEF Metrics!Shows
    <3>2. Metrics!Idle \in Plain /\ Seen'
        BY <1>1, <3>1 DEF Metrics!Sources, Metrics!Idle
    <3>3. s7'[r].step = "idle"
        BY <1>1, <3>1 DEF Metrics!Goes, Metrics!Idle
    <3>4. Metrics!Sound => Metrics!Right(Metrics!Manual)
        BY <2>2, <2>3 DEF Metrics!Right
    <3> QED BY <1>r, <2>0, <2>1, <2>2, <2>3, <3>1, <3>2, <3>3, <3>4
  <2>4. CASE /\ ~s7[r].typed /\ Metrics!Remembered /\ s6[1].service # Nothing
             /\ Metrics!Shows(r, Metrics!Auto(s6[1].server, s6[1].service))
    <3> DEFINE auto == Metrics!Auto(s6[1].server, s6[1].service)
    <3>1. Metrics!Goes(r, Metrics!Idle) /\ s8' = [s8 EXCEPT ![r] = auto]
        BY <2>4 DEF Metrics!Shows
    <3>2. s6[1] \in Metrics!Entry
        BY <1>1, <2>4 DEF Metrics!Remembered
    <3>3. s6[1].server \in PromServers /\ s6[1].service \in PromServices
        BY <2>4, <3>2 DEF Metrics!Entry, Metrics!Found
    <3>4. auto \in Metrics!Sources
        BY <3>3 DEF Metrics!Sources
    <3>5. Metrics!Idle \in Plain /\ Seen'
        BY <1>1, <3>1, <3>4 DEF Metrics!Idle
    <3>6. s7'[r].step = "idle"
        BY <1>1, <3>1 DEF Metrics!Goes, Metrics!Idle
    <3>7. Metrics!Sound => Metrics!Right(auto)
        BY <1>3, <2>2, <2>4 DEF Metrics!Right
    <3> HIDE DEF auto
    <3> QED BY <1>r, <2>0, <2>1, <2>2, <2>4, <3>1, <3>5, <3>6, <3>7 DEF auto
  <2>5. CASE /\ ~s7[r].typed
             /\ Metrics!Goes(r, [step |-> IF Metrics!Remembered THEN "fallback" ELSE "list"])
             /\ Metrics!Remembered => s6[1].service = Nothing
             /\ UNCHANGED s8
    <3> DEFINE next == [step |-> IF Metrics!Remembered THEN "fallback" ELSE "list"]
    <3>1. next \in Plain /\ next.step = (IF Metrics!Remembered THEN "fallback" ELSE "list")
        OBVIOUS
    <3> HIDE DEF next
    <3>2. Metrics!Goes(r, next)
        BY <2>5 DEF next
    <3>3. s7'[r] = next /\ Seen'
        BY <1>1, <2>5, <3>2 DEF Metrics!Goes
    <3>4. Metrics!Sound => (Fair(r))'
        BY <1>3, <1>w, <2>0, <2>2, <2>5, <3>1, <3>3
    <3> QED BY <1>r, <2>0, <2>1, <2>2, <2>5, <3>1, <3>2, <3>3, <3>4
  <2> QED BY <1>6, <2>3, <2>4, <2>5 DEF Metrics!Choose
<1>7. ASSUME NEW r \in Panels, Metrics!List(r) PROVE Metrics!IInv' /\ Metrics!ReadsRight
  <2> DEFINE at == s1.server
             next == [step |-> "ask", at |-> at, candidates |-> IF at \in s3 THEN s4[at] ELSE {}]
  <2>1. s7[r].step = "list" /\ Metrics!Goes(r, next) /\ UNCHANGED Metrics!world /\ s6' = s6 /\ s8' = s8
      BY <1>7 DEF Metrics!List
  <2>2. at \in PromServers
      BY <1>1 DEF Metrics!Rows
  <2>3. next \in Ask
      BY <1>1, <2>2
  <2>4. Metrics!There \subseteq next.candidates /\ next.at = s1.server /\ next.step = "ask"
      BY <1>1, <2>2 DEF Metrics!There
  <2> HIDE DEF next
  <2>5. s7'[r] = next
      BY <1>1, <2>1 DEF Metrics!Goes
  <2>6. Metrics!Sound => Knows' /\ (Fair(r))'
      BY <1>3, <1>w, <2>1, <2>4, <2>5 DEF Metrics!Remembered
  <2>7. Memory' /\ Seen'
      BY <1>1, <2>1
  <2> QED BY <1>r, <2>1, <2>3, <2>6, <2>7
<1>8. ASSUME NEW r \in Panels, Metrics!Search(r) PROVE Metrics!IInv' /\ Metrics!ReadsRight
  <2> DEFINE at == s7[r].at
             good == {v \in s7[r].candidates : Metrics!AnswersPromQL(at, v)}
  <2>1. s7[r].step = "ask" /\ UNCHANGED Metrics!world
      BY <1>8 DEF Metrics!Search
  <2>2. s7[r] \in Ask
      BY <1>1, <1>i, <2>1
  <2>3. PICK service \in (IF good = {} THEN {Nothing} ELSE good) :
          /\ Metrics!Put(at, service)
          /\ IF service = Nothing
               THEN Metrics!Goes(r, [step |-> "fallback"]) /\ UNCHANGED s8
               ELSE Metrics!Shows(r, Metrics!Auto(at, service))
      BY <1>8 DEF Metrics!Search
  <2>4. at \in PromServers /\ good \subseteq PromServices
      BY <2>2
  <2>5. service = Nothing \/ service \in PromServices
      BY <2>3, <2>4
  <2>6. s6' = <<[server |-> at, service |-> service, age |-> 0]>>
      BY <2>3 DEF Metrics!Put
  <2>7. [server |-> at, service |-> service, age |-> 0] \in Metrics!Entry
      BY <1>0, <2>4, <2>5 DEF Metrics!Entry, Metrics!Found
  <2>8. s6'[1] = [server |-> at, service |-> service, age |-> 0] /\ Memory'
      BY <2>6, <2>7 DEF Metrics!Entry, Metrics!Found
  <2>9. Metrics!Sound => at = s1.server /\ good = Metrics!There
      BY <1>3, <2>1, <2>2 DEF Metrics!There, Metrics!AnswersPromQL
  <2>10. Metrics!Sound => IF service = Nothing THEN Metrics!There = {} ELSE service \in Metrics!There
      BY <1>0, <2>3, <2>4, <2>9
  <2>11. s6'[1].server = at /\ s6'[1].service = service
      BY <2>8
  <2> HIDE DEF at, good
  <2>12. Metrics!Sound => Knows'
      BY <1>w, <2>1, <2>9, <2>10, <2>11
  <2>13. Metrics!Sound => ~s1.typed
      BY <1>3, <2>1
  <2>14. CASE service = Nothing
    <3> DEFINE next == [step |-> "fallback"]
    <3>1. Metrics!Goes(r, next) /\ s8' = s8
        BY <2>3, <2>14
    <3>2. next \in Plain /\ next.step = "fallback"
        OBVIOUS
    <3> HIDE DEF next
    <3>3. s7'[r] = next /\ Seen'
        BY <1>1, <3>1 DEF Metrics!Goes
    <3>4. Metrics!Sound => (Fair(r))'
        BY <1>w, <2>1, <2>10, <2>13, <2>14, <3>2, <3>3
    <3> QED BY <1>r, <2>1, <2>8, <2>12, <3>1, <3>2, <3>3, <3>4
  <2>15. CASE service # Nothing
    <3> DEFINE auto == Metrics!Auto(at, service)
    <3>1. Metrics!Shows(r, auto) /\ Metrics!Goes(r, Metrics!Idle) /\ s8' = [s8 EXCEPT ![r] = auto]
        BY <2>3, <2>15 DEF Metrics!Shows
    <3>2. auto \in Metrics!Sources
        BY <2>4, <2>5, <2>15 DEF Metrics!Sources
    <3>3. Metrics!Idle \in Plain /\ Seen'
        BY <1>1, <3>1, <3>2 DEF Metrics!Idle
    <3>4. s7'[r].step = "idle"
        BY <1>1, <3>1 DEF Metrics!Goes, Metrics!Idle
    <3>5. Metrics!Sound => Metrics!Right(auto)
        BY <2>9, <2>10, <2>13, <2>15 DEF Metrics!Right
    <3> HIDE DEF auto
    <3> QED BY <1>r, <2>1, <2>8, <2>12, <3>1, <3>3, <3>4, <3>5
  <2> QED BY <2>14, <2>15
<1>9. ASSUME NEW r \in Panels, Metrics!Fallback(r)
      PROVE  Metrics!IInv' /\ Metrics!ReadsRight
  <2> DEFINE source == IF s2 THEN Metrics!Default ELSE Metrics!NotConfigured
  <2>1. s7[r].step = "fallback" /\ Metrics!Shows(r, source) /\ UNCHANGED Metrics!world /\ s6' = s6
      BY <1>9 DEF Metrics!Fallback
  <2>2. Metrics!Goes(r, Metrics!Idle) /\ s8' = [s8 EXCEPT ![r] = source]
      BY <2>1 DEF Metrics!Shows
  <2>3. source \in Metrics!Sources
      BY DEF Metrics!Sources
  <2>4. Metrics!Idle \in Plain /\ Seen' /\ Memory'
      BY <1>1, <2>1, <2>2, <2>3 DEF Metrics!Idle
  <2>5. s7'[r].step = "idle"
      BY <1>1, <2>2 DEF Metrics!Goes, Metrics!Idle
  <2>6. Metrics!Sound => Metrics!Right(source) /\ Knows'
    <3>1. Metrics!Sound => Metrics!Right(source)
        BY <1>3, <2>1 DEF Metrics!Right
    <3>2. Metrics!Sound => Knows'
        BY <1>3, <1>w, <2>1 DEF Metrics!Remembered
    <3> QED BY <3>1, <3>2
  <2> HIDE DEF source
  <2> QED BY <1>r, <2>1, <2>2, <2>4, <2>5, <2>6
<1>10. ASSUME NEW r \in Panels, Metrics!SearchFails(r)
       PROVE  Metrics!IInv' /\ Metrics!ReadsRight
  <2>1. /\ s7' = [s7 EXCEPT ![r] = [step |-> "fallback"]] /\ UNCHANGED <<s1, s2, s3, s4, s5, s9, s6, s8>>
        /\ s10 < PanelChanges /\ s10' = s10 + 1
      BY <1>10 DEF Metrics!SearchFails, Metrics!Goes
  <2>2. [step |-> "fallback"] \in Plain
      OBVIOUS
  <2>3. Read' /\ s10' \in 0..PanelChanges /\ s10' # s10
      BY <1>0, <1>1, <2>1, <2>2
  <2> QED BY <1>1, <1>2, <2>1, <2>3 DEF Metrics!ReadsRight
<1>11. CASE Metrics!SaveAddress
  <2>1. /\ s1' = [s1 EXCEPT !.typed = ~@] /\ s9' = TRUE /\ UNCHANGED <<s2, s3, s4, s5, s6, s7, s8>>
        /\ s10' \in 0..PanelChanges /\ s10' # s10
      BY <1>11, <1>c DEF Metrics!SaveAddress
  <2>2. Row'
      BY <1>1, <2>1 DEF Metrics!Rows
  <2> QED BY <1>1, <1>s, <2>1, <2>2
<1>12. CASE Metrics!Forget
  <2>1. s9 = TRUE /\ s6' = <<>> /\ s9' = FALSE /\ UNCHANGED <<s1, s2, s3, s4, s5, s7, s8, s10>>
      BY <1>1, <1>12 DEF Metrics!Forget
  <2> QED BY <1>1, <1>2, <1>3, <2>1 DEF Metrics!ReadsRight
<1>13. ASSUME NEW s \in PromServers, Metrics!ReplaceCredential(s)
       PROVE  Metrics!IInv' /\ Metrics!ReadsRight
  <2>1. /\ s1' = [s1 EXCEPT !.server = s] /\ UNCHANGED <<s2, s3, s4, s5, s9, s6, s7, s8>>
        /\ s10' \in 0..PanelChanges /\ s10' # s10
      BY <1>13, <1>c DEF Metrics!ReplaceCredential
  <2>2. Row'
      BY <1>1, <2>1 DEF Metrics!Rows
  <2> QED BY <1>1, <1>s, <2>1, <2>2
<1>14. CASE Metrics!SaveMetrics
  <2>1. /\ s2' = ~s2 /\ UNCHANGED <<s1, s3, s4, s5, s9, s6, s7, s8>>
        /\ s10' \in 0..PanelChanges /\ s10' # s10
      BY <1>14, <1>c DEF Metrics!SaveMetrics
  <2>2. s2' \in BOOLEAN
      BY <2>1
  <2> QED BY <1>1, <1>s, <2>1, <2>2
<1>15. ASSUME NEW s \in PromServers, NEW v \in PromServices, Metrics!Turns(s, v)
       PROVE  Metrics!IInv' /\ Metrics!ReadsRight
  <2>1. /\ UNCHANGED <<s1, s2, s9, s6, s7, s8>> /\ s10' \in 0..PanelChanges /\ s10' # s10
      BY <1>15, <1>c DEF Metrics!Turns
  <2>2. s3' \in SUBSET PromServers
      BY <1>1, <1>15 DEF Metrics!Turns
  <2>3. World'
      BY <1>1, <1>15 DEF Metrics!Turns
  <2> QED BY <1>1, <1>s, <2>1, <2>2, <2>3
<1>16. CASE Metrics!Tick
  <2>1. s6 # <<>> /\ s6[1].age <= FoundTTL /\ s6' = <<[s6[1] EXCEPT !.age = @ + 1]>>
        /\ UNCHANGED Metrics!world /\ s7' = s7 /\ s8' = s8
      BY <1>16 DEF Metrics!Tick
  <2> DEFINE e == [s6[1] EXCEPT !.age = @ + 1]
  <2>2. s6[1] \in Metrics!Entry
      BY <1>1, <2>1
  <2>3. s6[1].age \in Nat
      BY <1>0, <2>2 DEF Metrics!Entry
  <2>4. /\ e \in Metrics!Entry /\ e.server = s6[1].server /\ e.service = s6[1].service
        /\ e.age = s6[1].age + 1
      BY <1>0, <2>1, <2>2, <2>3 DEF Metrics!Entry
  <2>5. s6'[1] = e /\ s6' # <<>>
      BY <2>1
  <2> HIDE DEF e
  <2>6. Memory'
      BY <2>4, <2>5 DEF Metrics!Entry, Metrics!Found
  <2>7. Metrics!Remembered' => Metrics!Remembered
    <3>1. Metrics!Fresh(e) => Metrics!Fresh(s6[1])
        BY <1>0, <2>3, <2>4 DEF Metrics!Fresh
    <3>2. Metrics!Fresh(s6[1])' = Metrics!Fresh(e)
        BY <2>5 DEF Metrics!Fresh
    <3> QED BY <2>1, <3>1, <3>2 DEF Metrics!Remembered
  <2>8. Knows => Knows'
      BY <1>w, <2>1, <2>4, <2>5, <2>7
  <2>9. Metrics!IInv'
      BY <1>1, <1>2, <1>w, <2>1, <2>6
  <2>10. (\A r \in Panels : Fair(r)) => (\A r \in Panels : Fair(r))'
      BY <1>w, <2>1
  <2> HIDE DEF Knows, Fair
  <2>11. Metrics!Sound => Metrics!Sound'
      BY <1>3, <1>4, <1>w, <2>1, <2>8, <2>10
  <2> QED BY <2>1, <2>9, <2>11 DEF Metrics!ReadsRight
<1>17. CASE UNCHANGED Metrics!vars
  <2>1. UNCHANGED <<s1, s2, s3, s4, s5, s6, s7, s8, s9, s10>>
      BY <1>17 DEF Metrics!vars
  <2>2. Metrics!Sound => Metrics!Sound'
      BY <2>1 DEF Metrics!Sound, Metrics!Remembered, Metrics!There
  <2> QED BY <1>1, <1>2, <2>1, <2>2 DEF Metrics!ReadsRight
<1> QED BY <1>5, <1>6, <1>7, <1>8, <1>9, <1>10, <1>11, <1>12, <1>13, <1>14, <1>15,
        <1>16, <1>17
    DEF Metrics!Next, Metrics!Reads

-----------------------------------------------------------------------------
(* The cards of the fleet (health/fleet.go, health/collector.go). *)

\* The cards have their shape at first.
LEMMA CardsInit == Cards!Init => Cards!TypeOK
<1> SUFFICES ASSUME Cards!Init PROVE Cards!TypeOK
    OBVIOUS
<1>1. CardChanges \in Nat
    BY MCFleet DEF Cards!FleetAssumption
<1>2. /\ s1 = [c \in Carded |-> TRUE] /\ s2 = Carded /\ s3 \in [Carded -> SUBSET FleetDetectors]
      /\ s4 = [c \in Carded |-> <<>>] /\ s5 = [r \in Pages |-> [c \in Carded |-> Cards!None]]
      /\ s6 = [r \in Pages |-> <<>>] /\ s7 = 0
    BY DEF Cards!Init
<1>3. s5 \in [Pages -> [Carded -> Cards!Progress]]
    BY <1>2 DEF Cards!Progress
<1>4. s1 \in [Carded -> BOOLEAN]
    BY <1>2
<1>5. s6 \in [Pages -> {<<>>} \cup [Carded -> Cards!Card]]
    BY <1>2
<1>6. \A c \in Carded : s4[c] = <<>>
    BY <1>2
<1>7. DOMAIN s4 = Carded
    BY <1>2
<1>8. s7 \in 0..CardChanges
    BY <1>1, <1>2
<1> QED BY <1>2, <1>3, <1>4, <1>5, <1>6, <1>7, <1>8 DEF Cards!TypeOK

\* Every step of the fleet keeps the shape, and requests that share the cache
\* leave the truth in it.
LEMMA CardsStep == Cards!TypeOK /\ [Cards!Next]_(Cards!vars) => Cards!TypeOK' /\ Cards!SweepsRight
<1> SUFFICES ASSUME Cards!TypeOK, [Cards!Next]_(Cards!vars)
             PROVE  Cards!TypeOK' /\ Cards!SweepsRight
    OBVIOUS
<1> DEFINE Goal == Cards!TypeOK' /\ Cards!SweepsRight
           CardSet == [unreachable : BOOLEAN, found : SUBSET FleetDetectors, capacity : BOOLEAN,
                       asked : BOOLEAN, reached : BOOLEAN]
           Begun == {Cards!None, Cards!Refused}
           Put == [step : {"card"}, card : CardSet]
           Going == [step : {"sweep"}, left : SUBSET Cards!Reads, found : SUBSET FleetDetectors,
                     capacity : BOOLEAN, reached : BOOLEAN]
           Stored == [card : CardSet, age : 0..(CardTTL + 1)]
           World == s1 \in [Carded -> BOOLEAN] /\ s2 \in SUBSET Carded
                    /\ s3 \in [Carded -> SUBSET FleetDetectors]
           Cache == DOMAIN s4 = Carded /\ \A c \in Carded : s4[c] = <<>> \/ s4[c][1] \in Stored
           Under == s5 \in [Pages -> [Carded -> Begun \cup Put \cup Going]]
           Seen == s6 \in [Pages -> {<<>>} \cup [Carded -> CardSet]]
           Count == s7 \in 0..CardChanges
           True(card, c) == Cards!Truthful(card, c)
           Remembers(c) == Cards!FromCache(c) => True(s4[c][1].card, c)
           Fair(p, c) == /\ p = Cards!Refused => ~s1[c]
                         /\ p.step = "card" => True(p.card, c)
                         /\ p.step = "sweep" =>
                              /\ s1[c]
                              /\ c \in s2 => p.found = s3[c] \ p.left
                                             /\ (p.capacity \/ Cards!Capacity \in p.left)
<1>0. CardChanges \in Nat /\ CardTTL \in Nat
    BY MCFleet DEF Cards!FleetAssumption
<1>1. World /\ Cache /\ Under /\ Seen /\ Count
    BY DEF Cards!TypeOK, Cards!Progress, Cards!Card
<1>2. World' /\ Cache' /\ Under' /\ Seen' /\ Count' => Cards!TypeOK'
    BY DEF Cards!TypeOK, Cards!Progress, Cards!Card
<1>3. Cards!Sound => /\ \A c \in Carded : Remembers(c)
                     /\ \A r \in Pages, c \in Carded : Fair(s5[r][c], c)
    BY DEF Cards!Sound
<1>4. (\A c \in Carded : Remembers(c))' /\ (\A r \in Pages, c \in Carded : Fair(s5[r][c], c))'
        => Cards!Sound'
    BY DEF Cards!Sound
<1>i. /\ Cards!None.step = "none" /\ Cards!Refused.step = "refused"
      /\ \A x \in Put : x.step = "card" /\ x.card \in CardSet
      /\ \A x \in Going : x.step = "sweep"
    BY DEF Cards!None, Cards!Refused
<1>c. ASSUME Cards!Changes PROVE s7' \in 0..CardChanges /\ s7' # s7
    BY <1>c, <1>0, <1>1 DEF Cards!Changes
\* In a world that does not change, what is true stays true.
<1>t. ASSUME UNCHANGED Cards!world
      PROVE  /\ s1' = s1 /\ s2' = s2 /\ s3' = s3
             /\ \A card, c : True(card, c)' = True(card, c)
    BY <1>t DEF Cards!world, Cards!Truthful
<1>f. ASSUME UNCHANGED Cards!world PROVE \A p, c : Fair(p, c)' = Fair(p, c)
    BY <1>f, <1>t
\* One card of one request goes on, and is stored or not.
<1>g. ASSUME NEW r \in Pages, NEW c \in Carded, NEW next \in Begun \cup Put \cup Going,
             Cards!Goes(r, c, next), UNCHANGED Cards!world, s6' = s6, s7' = s7,
             s4' = s4 \/ \E card \in CardSet : Cards!Stores(c, card) /\ next = Cards!Ready(card),
             Cards!Sound => Fair(next, c)
      PROVE  Goal
  <2>1. s5' = [s5 EXCEPT ![r][c] = next]
      BY <1>g DEF Cards!Goes
  <2>2. Under'
      BY <1>1, <1>g, <2>1
  <2>3. Cache' /\ (Cards!Sound => (\A x \in Carded : Remembers(x))')
    <3>1. CASE s4' = s4
        BY <1>1, <1>3, <1>t, <1>g, <3>1 DEF Cards!FromCache
    <3>2. ASSUME NEW card \in CardSet, Cards!Stores(c, card), next = Cards!Ready(card)
          PROVE  Cache' /\ (Cards!Sound => (\A x \in Carded : Remembers(x))')
      <4>1. s4' = [s4 EXCEPT ![c] = <<[card |-> card, age |-> 0]>>]
          BY <3>2 DEF Cards!Stores
      <4>2. s4'[c] = <<[card |-> card, age |-> 0]>> /\ s4'[c][1] = [card |-> card, age |-> 0]
          BY <1>1, <4>1
      <4>3. DOMAIN s4' = Carded /\ \A x \in Carded \ {c} : s4'[x] = s4[x]
          BY <1>1, <4>1
      <4>4. [card |-> card, age |-> 0] \in Stored
          BY <1>0
      <4>5. Cache'
          BY <1>1, <4>2, <4>3, <4>4
      <4>6. next.step = "card" /\ next.card = card
          BY <3>2 DEF Cards!Ready
      <4>7. ASSUME Cards!Sound, NEW x \in Carded PROVE (Remembers(x))'
        <5>1. CASE x = c
            BY <1>g, <1>t, <4>2, <4>6, <4>7, <5>1
        <5>2. CASE x # c
          <6>1. s4'[x] = s4[x] /\ Remembers(x)
              BY <1>3, <4>3, <4>7, <5>2
          <6> QED BY <1>t, <1>g, <6>1 DEF Cards!FromCache
        <5> QED BY <5>1, <5>2
      <4> QED BY <4>5, <4>7
    <3> QED BY <1>g, <3>1, <3>2
  <2>4. ASSUME Cards!Sound PROVE (\A q \in Pages, x \in Carded : Fair(s5[q][x], x))'
    <3>1. ASSUME NEW q \in Pages, NEW x \in Carded
          PROVE  s5'[q][x] = s5[q][x] \/ (s5'[q][x] = next /\ x = c)
        BY <1>1, <2>1
    <3>2. \A q \in Pages, x \in Carded : Fair(s5[q][x], x)
        BY <1>3, <2>4
    <3>3. Fair(next, c)
        BY <1>g, <2>4
    <3> HIDE DEF Fair
    <3>4. ASSUME NEW q \in Pages, NEW x \in Carded PROVE Fair(s5'[q][x], x)
        BY <3>1, <3>2, <3>3
    <3>5. \A q \in Pages, x \in Carded : (Fair(s5[q][x], x))' = Fair(s5'[q][x], x)
        BY <1>f, <1>g DEF Fair
    <3> QED BY <3>4, <3>5
  <2>5. World' /\ Seen' /\ Count'
      BY <1>1, <1>g, <1>t
  <2> HIDE DEF Remembers, Fair
  <2> QED BY <1>2, <1>4, <1>g, <2>2, <2>3, <2>4, <2>5 DEF Cards!SweepsRight
\* A step that is no sweep's changes something.
<1>s. ASSUME World', Cache', Under', Seen', Count', s7' # s7 PROVE Goal
    BY <1>2, <1>s DEF Cards!SweepsRight
<1> HIDE DEF Goal
<1>5. ASSUME NEW r \in Pages, Cards!Ask(r) PROVE Goal
  <2> DEFINE asked == [c \in Carded |-> IF Cards!FromCache(c) THEN Cards!Ready(s4[c][1].card)
                           ELSE IF s1[c] THEN Cards!Swept(Cards!Reads, {}, FALSE, FALSE)
                           ELSE Cards!Refused]
  <2>1. s5' = [s5 EXCEPT ![r] = asked] /\ UNCHANGED Cards!world /\ s4' = s4 /\ s6' = s6 /\ s7' = s7
      BY <1>5 DEF Cards!Ask
  <2>2. ASSUME NEW c \in Carded
        PROVE  asked[c] \in Begun \cup Put \cup Going /\ (Cards!Sound => Fair(asked[c], c))
    <3>1. CASE Cards!FromCache(c)
      <4>1. s4[c][1] \in Stored /\ asked[c] = Cards!Ready(s4[c][1].card)
          BY <1>1, <3>1 DEF Cards!FromCache
      <4> HIDE DEF asked
      <4>2. asked[c] \in Put /\ asked[c].card = s4[c][1].card
          BY <4>1 DEF Cards!Ready
      <4> QED BY <1>3, <1>i, <3>1, <4>2
    <3>2. CASE ~Cards!FromCache(c) /\ s1[c]
      <4>1. asked[c] = [step |-> "sweep", left |-> Cards!Reads, found |-> {},
                        capacity |-> FALSE, reached |-> FALSE]
          BY <3>2 DEF Cards!Swept
      <4> HIDE DEF asked
      <4>2. asked[c] \in Going
          BY <4>1
      <4>3. s3[c] \subseteq Cards!Reads /\ Cards!Capacity \in Cards!Reads
          BY <1>1 DEF Cards!Reads
      <4>4. /\ asked[c].step = "sweep" /\ asked[c].found = s3[c] \ asked[c].left
            /\ Cards!Capacity \in asked[c].left
          BY <1>1, <4>1, <4>3
      <4> QED BY <1>i, <3>2, <4>2, <4>4
    <3>3. CASE ~Cards!FromCache(c) /\ ~s1[c]
      <4>1. asked[c] = Cards!Refused
          BY <3>3
      <4> QED BY <1>i, <3>3, <4>1
    <3> QED BY <3>1, <3>2, <3>3
  <2> HIDE DEF asked
  <2>3. asked \in [Carded -> Begun \cup Put \cup Going]
    <3>1. asked = [c \in Carded |-> asked[c]]
        BY DEF asked
    <3> HIDE DEF Begun, Put, Going, Fair
    <3> QED BY <2>2, <3>1
  <2>4. Under'
      BY <1>1, <2>1, <2>3
  <2>5. World' /\ Cache' /\ Seen' /\ Count'
      BY <1>1, <1>t, <2>1
  <2>6. ASSUME Cards!Sound PROVE Cards!Sound'
    <3>1. (\A c \in Carded : Remembers(c))'
        BY <1>3, <1>t, <2>1, <2>6 DEF Cards!FromCache
    <3>2. ASSUME NEW q \in Pages, NEW x \in Carded PROVE Fair(s5'[q][x], x)
      <4>1. CASE q = r
        <5>1. s5'[q][x] = asked[x]
            BY <1>1, <2>1, <4>1
        <5> HIDE DEF Fair
        <5> QED BY <2>2, <2>6, <5>1
      <4>2. CASE q # r
        <5>1. s5'[q][x] = s5[q][x]
            BY <1>1, <2>1, <4>2
        <5>2. Fair(s5[q][x], x)
            BY <1>3, <2>6
        <5> HIDE DEF Fair
        <5> QED BY <5>1, <5>2
      <4> QED BY <4>1, <4>2
    <3>3. \A q \in Pages, x \in Carded : (Fair(s5[q][x], x))' = Fair(s5'[q][x], x)
        BY <1>f, <2>1
    <3> HIDE DEF Remembers, Fair
    <3> QED BY <1>4, <3>1, <3>2, <3>3
  <2> QED BY <1>2, <2>1, <2>4, <2>5, <2>6 DEF Goal, Cards!SweepsRight
<1>6. ASSUME NEW r \in Pages, Cards!Answer(r) PROVE Goal
  <2> DEFINE cards == [c \in Carded |-> s5[r][c].card]
             none == [c \in Carded |-> Cards!None]
  <2>1. /\ \A c \in Carded : s5[r][c].step = "card"
        /\ s6' = [s6 EXCEPT ![r] = cards] /\ s5' = [s5 EXCEPT ![r] = none]
        /\ UNCHANGED Cards!world /\ s4' = s4 /\ s7' = s7
      BY <1>6 DEF Cards!Answer
  <2>2. \A c \in Carded : s5[r][c] \in Put
      BY <1>1, <1>i, <2>1
  <2>3. cards \in [Carded -> CardSet]
      BY <1>i, <2>2
  <2>4. Under'
      BY <1>1, <2>1
  <2>5. World' /\ Cache' /\ Count'
      BY <1>1, <1>t, <2>1
  <2>6. Seen'
      BY <1>1, <2>1, <2>3
  <2>7. ASSUME Cards!Sound PROVE Cards!Sound'
    <3>1. (\A c \in Carded : Remembers(c))'
        BY <1>3, <1>t, <2>1, <2>7 DEF Cards!FromCache
    <3>2. ASSUME NEW q \in Pages, NEW x \in Carded PROVE Fair(s5'[q][x], x)
      <4>1. CASE q = r
        <5>1. s5'[q][x] = Cards!None
            BY <1>1, <2>1, <4>1
        <5> QED BY <1>i, <5>1
      <4>2. CASE q # r
        <5>1. s5'[q][x] = s5[q][x]
            BY <1>1, <2>1, <4>2
        <5>2. Fair(s5[q][x], x)
            BY <1>3, <2>7
        <5> HIDE DEF Fair
        <5> QED BY <5>1, <5>2
      <4> QED BY <4>1, <4>2
    <3>3. \A q \in Pages, x \in Carded : (Fair(s5[q][x], x))' = Fair(s5'[q][x], x)
        BY <1>f, <2>1
    <3> HIDE DEF Remembers, Fair
    <3> QED BY <1>4, <3>1, <3>2, <3>3
  <2>8. ASSUME Cards!Sound, NEW q \in Pages
        PROVE  s6'[q] = s6[q] \/ \A c \in Carded : Cards!Truthful(s6[q][c], c)'
    <3>1. CASE q = r
      <4>1. ASSUME NEW c \in Carded PROVE Cards!Truthful(s6[q][c], c)'
        <5>1. s6'[q][c] = s5[r][c].card
            BY <1>1, <2>1, <3>1
        <5>2. True(s5[r][c].card, c)
            BY <1>3, <2>1, <2>8
        <5> QED BY <2>1, <5>1, <5>2 DEF Cards!world, Cards!Truthful
      <4> QED BY <4>1
    <3>2. CASE q # r
        BY <1>1, <2>1, <3>2
    <3> QED BY <3>1, <3>2
  <2> QED BY <1>2, <2>4, <2>5, <2>6, <2>7, <2>8 DEF Goal, Cards!SweepsRight
<1>7. ASSUME NEW r \in Pages, NEW c \in Carded, Cards!Refuse(r, c) PROVE Goal
  <2> DEFINE card == [unreachable |-> TRUE, found |-> {}, capacity |-> FALSE,
                      asked |-> FALSE, reached |-> FALSE]
  <2>1. /\ s5[r][c] = Cards!Refused /\ Cards!Goes(r, c, Cards!Ready(card)) /\ Cards!Stores(c, card)
        /\ UNCHANGED Cards!world /\ s6' = s6 /\ s7' = s7
      BY <1>7 DEF Cards!Refuse
  <2>2. card \in CardSet /\ Cards!Ready(card) \in Put /\ Cards!Ready(card).card = card
      BY DEF Cards!Ready
  <2>3. Cards!Sound => Fair(Cards!Ready(card), c)
    <3>1. Cards!Sound => ~s1[c]
        BY <1>3, <2>1
    <3>2. ~s1[c] => True(card, c)
        BY DEF Cards!Truthful
    <3> QED BY <1>i, <2>2, <3>1, <3>2
  <2> HIDE DEF card, Fair
  <2> QED BY <1>g, <2>1, <2>2, <2>3
<1>8. ASSUME NEW r \in Pages, NEW c \in Carded, Cards!Done(r, c) PROVE Goal
  <2> DEFINE p == s5[r][c]
             card == [unreachable |-> FALSE, found |-> p.found, capacity |-> p.capacity,
                      asked |-> TRUE, reached |-> p.reached]
  <2>1. /\ p.step = "sweep" /\ p.left = {} /\ Cards!Goes(r, c, Cards!Ready(card)) /\ Cards!Stores(c, card)
        /\ UNCHANGED Cards!world /\ s6' = s6 /\ s7' = s7
      BY <1>8 DEF Cards!Done
  <2>2. p \in Going
      BY <1>1, <1>i, <2>1
  <2>3. card \in CardSet /\ Cards!Ready(card) \in Put /\ Cards!Ready(card).card = card
      BY <2>2 DEF Cards!Ready
  <2>4. Cards!Sound => Fair(Cards!Ready(card), c)
    <3>1. Cards!Sound => /\ s1[c]
                         /\ c \in s2 => p.found = s3[c] /\ p.capacity
        BY <1>3, <2>1
    <3>2. (s1[c] /\ (c \in s2 => p.found = s3[c] /\ p.capacity)) => True(card, c)
        BY DEF Cards!Truthful
    <3> QED BY <1>i, <2>3, <3>1, <3>2
  <2> HIDE DEF card, p, Fair
  <2> QED BY <1>g, <2>1, <2>3, <2>4
<1>9. ASSUME NEW r \in Pages, NEW c \in Carded, NEW d \in Cards!Reads, Cards!Read(r, c, d)
      PROVE  Goal
  <2> DEFINE p == s5[r][c]
             found == IF c \in s2 THEN p.found \cup ({d} \cap s3[c]) ELSE p.found
             whole == p.capacity \/ (c \in s2 /\ d = Cards!Capacity)
             heard == p.reached \/ c \in s2
             next == [step |-> "sweep", left |-> p.left \ {d}, found |-> found,
                      capacity |-> whole, reached |-> heard]
  <2>1. /\ p.step = "sweep" /\ d \in p.left /\ Cards!Goes(r, c, next)
        /\ UNCHANGED Cards!world /\ s4' = s4 /\ s6' = s6 /\ s7' = s7
      BY <1>9 DEF Cards!Read, Cards!Swept, Cards!Answered
  <2>2. p \in Going
      BY <1>1, <1>i, <2>1
  <2>3. /\ p.left \subseteq Cards!Reads /\ p.found \subseteq FleetDetectors
        /\ p.capacity \in BOOLEAN /\ p.reached \in BOOLEAN
      BY <2>2
  <2>4. found \subseteq FleetDetectors /\ whole \in BOOLEAN /\ heard \in BOOLEAN
    <3>1. found \subseteq FleetDetectors
        BY <1>1, <2>3
    <3>2. whole \in BOOLEAN /\ heard \in BOOLEAN
        BY <2>3
    <3> QED BY <3>1, <3>2
  <2>5. Cards!Sound => Fair(next, c)
    <3>1. Cards!Sound => /\ s1[c]
                         /\ c \in s2 => /\ p.found = s3[c] \ p.left
                                        /\ p.capacity \/ Cards!Capacity \in p.left
        BY <1>3, <2>1
    <3>2. c \in s2 /\ p.found = s3[c] \ p.left => found = s3[c] \ (p.left \ {d})
        BY <2>1
    <3>3. c \in s2 /\ (p.capacity \/ Cards!Capacity \in p.left)
            => whole \/ Cards!Capacity \in p.left \ {d}
        OBVIOUS
    <3>4. next.step = "sweep" /\ next.found = found /\ next.left = p.left \ {d} /\ next.capacity = whole
        OBVIOUS
    <3>5. next # Cards!Refused
        BY <1>i, <3>4
    <3> HIDE DEF next, found, whole, p
    <3> QED BY <3>1, <3>2, <3>3, <3>4, <3>5
  <2> HIDE DEF found, whole, heard, p
  <2>6. next \in Going
      BY <2>3, <2>4
  <2> HIDE DEF next, Fair
  <2> QED BY <1>g, <2>1, <2>5, <2>6
<1>10. ASSUME NEW r \in Pages, Cards!CutShort(r) PROVE Goal
  <2> DEFINE cut == [c \in Carded |-> IF s5[r][c].step = "sweep"
                                      THEN [s5[r][c] EXCEPT !.left = {}] ELSE s5[r][c]]
  <2>1. /\ s5' = [s5 EXCEPT ![r] = cut] /\ UNCHANGED Cards!world /\ s4' = s4 /\ s6' = s6
        /\ s7' \in 0..CardChanges /\ s7' # s7
      BY <1>10, <1>c DEF Cards!CutShort
  <2>2. ASSUME NEW c \in Carded PROVE cut[c] \in Begun \cup Put \cup Going
    <3>1. CASE s5[r][c].step = "sweep"
      <4>1. s5[r][c] \in Going
          BY <1>1, <1>i, <3>1
      <4>2. cut[c] \in Going
          BY <3>1, <4>1
      <4> QED BY <4>2
    <3>2. CASE s5[r][c].step # "sweep"
        BY <1>1, <3>2
    <3> QED BY <3>1, <3>2
  <2>3. cut \in [Carded -> Begun \cup Put \cup Going]
    <3>1. cut = [c \in Carded |-> cut[c]]
        OBVIOUS
    <3> HIDE DEF cut, Begun, Put, Going
    <3> QED BY <2>2, <3>1
  <2> HIDE DEF cut
  <2>4. Under'
      BY <1>1, <2>1, <2>3
  <2>5. World' /\ Cache' /\ Seen'
      BY <1>1, <1>t, <2>1
  <2> QED BY <1>s, <2>1, <2>4, <2>5
<1>11. ASSUME NEW c \in Carded, Cards!Probe(c) PROVE Goal
  <2>1. /\ s1' = [s1 EXCEPT ![c] = ~@] /\ UNCHANGED <<s2, s3, s4, s5, s6>>
        /\ s7' \in 0..CardChanges /\ s7' # s7
      BY <1>11, <1>c DEF Cards!Probe
  <2>2. s1' \in [Carded -> BOOLEAN]
      BY <1>1, <2>1
  <2> QED BY <1>1, <1>s, <2>1, <2>2
<1>12. ASSUME NEW c \in Carded, Cards!Turns(c) PROVE Goal
  <2>1. /\ UNCHANGED <<s1, s4, s5, s6>> /\ s7' \in 0..CardChanges /\ s7' # s7
      BY <1>12, <1>c DEF Cards!Turns
  <2>2. \/ s2' = (s2 \ {c}) \cup ({c} \ s2) /\ s3' = s3
        \/ \E d \in FleetDetectors : s3' = [s3 EXCEPT ![c] = (@ \ {d}) \cup ({d} \ @)] /\ s2' = s2
      BY <1>12 DEF Cards!Turns
  <2>3. s2' \in SUBSET Carded /\ s3' \in [Carded -> SUBSET FleetDetectors]
    <3>1. CASE s2' = (s2 \ {c}) \cup ({c} \ s2) /\ s3' = s3
        BY <1>1, <3>1
    <3>2. ASSUME NEW d \in FleetDetectors, s3' = [s3 EXCEPT ![c] = (@ \ {d}) \cup ({d} \ @)], s2' = s2
          PROVE  s2' \in SUBSET Carded /\ s3' \in [Carded -> SUBSET FleetDetectors]
        BY <1>1, <3>2
    <3> QED BY <2>2, <3>1, <3>2
  <2> QED BY <1>1, <1>s, <2>1, <2>3
<1>13. CASE Cards!Tick
  <2> DEFINE older(c) == IF s4[c] # <<>> /\ s4[c][1].age <= CardTTL
                         THEN <<[s4[c][1] EXCEPT !.age = @ + 1]>> ELSE s4[c]
  <2>1. s4' = [c \in Carded |-> older(c)] /\ UNCHANGED Cards!world /\ s5' = s5 /\ s6' = s6 /\ s7' = s7
      BY <1>13 DEF Cards!Tick
  <2>2. ASSUME NEW c \in Carded
        PROVE  /\ older(c) = <<>> \/ older(c)[1] \in Stored
               /\ older(c) # <<>> /\ older(c)[1].age <= CardTTL =>
                    Cards!FromCache(c) /\ older(c)[1].card = s4[c][1].card
    <3>1. CASE s4[c] # <<>> /\ s4[c][1].age <= CardTTL
      <4> DEFINE e == [s4[c][1] EXCEPT !.age = @ + 1]
      <4>1. s4[c][1] \in Stored
          BY <1>1, <3>1
      <4>2. s4[c][1].age \in Nat
          BY <1>0, <4>1
      <4>3. e \in Stored /\ e.card = s4[c][1].card
          BY <1>0, <3>1, <4>1, <4>2
      <4>4. older(c) = <<e>>
          BY <3>1
      <4> HIDE DEF e, older
      <4>5. older(c)[1] = e
          BY <4>4
      <4> QED BY <3>1, <4>3, <4>5 DEF Cards!FromCache
    <3>2. CASE ~(s4[c] # <<>> /\ s4[c][1].age <= CardTTL)
      <4>1. older(c) = s4[c]
          BY <3>2
      <4> HIDE DEF older
      <4> QED BY <1>1, <3>2, <4>1
    <3> QED BY <3>1, <3>2
  <2>3. \A c \in Carded : s4'[c] = older(c)
      BY <2>1
  <2>4. DOMAIN s4' = Carded
      BY <2>1
  <2> HIDE DEF older
  <2>5. World' /\ Cache' /\ Under' /\ Seen' /\ Count'
      BY <1>1, <1>t, <2>1, <2>2, <2>3, <2>4
  <2>6. ASSUME Cards!Sound PROVE Cards!Sound'
    <3>1. ASSUME NEW c \in Carded PROVE (Remembers(c))'
      <4>1. Remembers(c)
          BY <1>3, <2>6
      <4>2. Cards!FromCache(c)' => Cards!FromCache(c) /\ s4'[c][1].card = s4[c][1].card
          BY <2>2, <2>3 DEF Cards!FromCache
      <4> QED BY <1>t, <2>1, <4>1, <4>2
    <3>2. \A q \in Pages, x \in Carded : Fair(s5[q][x], x)
        BY <1>3, <2>6
    <3>3. \A q \in Pages, x \in Carded : (Fair(s5[q][x], x))' = Fair(s5[q][x], x)
        BY <1>f, <2>1
    <3> HIDE DEF Remembers, Fair
    <3> QED BY <1>4, <3>1, <3>2, <3>3
  <2> HIDE DEF World, Cache, Under, Seen, Count
  <2>7. Cards!SweepsRight
      BY <2>1, <2>6, Zenon DEF Cards!SweepsRight
  <2>8. Cards!TypeOK'
      BY <1>2, <2>5
  <2> QED BY <2>7, <2>8 DEF Goal
<1>14. CASE UNCHANGED Cards!vars
  <2>1. UNCHANGED <<s1, s2, s3, s4, s5, s6, s7>>
      BY <1>14 DEF Cards!vars
  <2>2. Cards!Sound => Cards!Sound'
      BY <2>1 DEF Cards!Sound, Cards!FromCache, Cards!Truthful
  <2> QED BY <1>1, <1>2, <2>1, <2>2 DEF Goal, Cards!SweepsRight
<1> QED BY <1>5, <1>6, <1>7, <1>8, <1>9, <1>10, <1>11, <1>12, <1>13, <1>14
    DEF Goal, Cards!Next, Cards!Sweeps

-----------------------------------------------------------------------------
(* The search (cluster/search.go). *)

\* What one kind answers is finite, and nothing when it fails.
LEMMA Listing ==
  ASSUME NEW a, NEW k \in AskedKinds, a \in Finds!KindAnswers(k)
  PROVE  /\ a.fault \in {"", "not here", "no answer"}
         /\ a.fault # "" => Finds!Matching(a) = {}
         /\ FS!IsFiniteSet(Finds!Matching(a))
<1>1. Lists \subseteq Seq(Finds!Object)
    BY MCSearch DEF Finds!SearchAssumption
<1>2. ASSUME NEW fault \in {"not here", "no answer"}, a = Finds!Failed(fault)
      PROVE  a.fault = fault /\ Finds!Matching(a) = {}
  <2>1. a.fault = fault
      BY <1>2 DEF Finds!Failed
  <2>2. a.objects = <<>>
      BY <1>2 DEF Finds!Failed
  <2>3. Finds!Rows(a) = {}
      BY <2>2, NoneOfNone DEF Finds!Rows
  <2> QED BY <2>1, <2>3 DEF Finds!Matching
<1>3. ASSUME NEW cached \in BOOLEAN, NEW objects \in Lists, a = Finds!Answered(cached, objects)
      PROVE  a.fault = "" /\ FS!IsFiniteSet(Finds!Matching(a))
  <2>1. a.fault = ""
      BY <1>3 DEF Finds!Answered
  <2>2. a.objects = objects
      BY <1>3 DEF Finds!Answered
  <2>3. Finds!Matching(a) \subseteq DOMAIN objects
      BY <2>2 DEF Finds!Matching, Finds!Rows
  <2>4. objects \in Seq(Finds!Object)
      BY <1>1
  <2>5. Len(objects) \in Nat /\ DOMAIN objects = 1..Len(objects)
      BY <2>4
  <2>6. FS!IsFiniteSet(1..Len(objects))
      BY <2>5, FS!FS_Interval
  <2> QED BY <2>1, <2>3, <2>5, <2>6, FS!FS_Subset
<1>4. \/ \E cached \in BOOLEAN, objects \in Lists : a = Finds!Answered(cached, objects)
      \/ \E fault \in {"not here", "no answer"} : a = Finds!Failed(fault)
    BY DEF Finds!KindAnswers
<1>5. FS!IsFiniteSet({})
    BY FS!FS_EmptySet
<1> QED BY <1>2, <1>3, <1>4, <1>5

\* What all clusters answer is finite, so that the best of it can be
\* counted out.
LEMMA FiniteHits ==
  ASSUME s1 \in [Searched -> Finds!Asked \cup {Finds!NotUsable}]
  PROVE  FS!IsFiniteSet(Finds!AllHits)
<1>0. FS!IsFiniteSet(Searched) /\ FS!IsFiniteSet(AskedKinds)
    BY MCSearch DEF Finds!SearchAssumption, FS!IsFiniteSet, Finds!IsFiniteSet
<1>1. ASSUME NEW c \in Searched \ Finds!Unreachable
      PROVE  FS!IsFiniteSet(Finds!HitsOf(c))
  <2>0. s1[c] \in Finds!Asked
      BY <1>1 DEF Finds!Unreachable, Finds!NotUsable
  <2> DEFINE At(k) == {[cluster |-> c, kind |-> k, at |-> i] : i \in Finds!Matching(s1[c].kinds[k])}
             sets == [k \in AskedKinds |-> At(k)]
  <2>1. ASSUME NEW k \in AskedKinds PROVE FS!IsFiniteSet(At(k))
    <3> DEFINE M == Finds!Matching(s1[c].kinds[k])
               f == [i \in M |-> [cluster |-> c, kind |-> k, at |-> i]]
    <3>1. FS!IsFiniteSet(M)
        BY <2>0, Listing DEF Finds!Asked
    <3>2. DOMAIN f = M /\ f \in [M -> {f[x] : x \in M}] /\ At(k) = {f[x] : x \in M}
        OBVIOUS
    <3> HIDE DEF M, f, At
    <3> QED BY <3>1, <3>2, FiniteImage
  <2>2. DOMAIN sets = AskedKinds /\ sets \in [AskedKinds -> {sets[x] : x \in AskedKinds}]
      OBVIOUS
  <2>3. FS!IsFiniteSet({sets[x] : x \in AskedKinds})
    <3> HIDE DEF sets
    <3> QED BY <1>0, <2>2, FiniteImage
  <2>4. \A T \in {sets[x] : x \in AskedKinds} : FS!IsFiniteSet(T)
      BY <2>1
  <2>5. Finds!HitsOf(c) = UNION {sets[x] : x \in AskedKinds}
      BY DEF Finds!HitsOf
  <2> HIDE DEF sets
  <2> QED BY <2>3, <2>4, <2>5, FS!FS_UNION
<1> DEFINE R == Searched \ Finds!Unreachable
           sets == [c \in R |-> Finds!HitsOf(c)]
<1>2. FS!IsFiniteSet(R)
  <2>1. R \in SUBSET Searched
      OBVIOUS
  <2> HIDE DEF R
  <2> QED BY <1>0, <2>1, FS!FS_Subset
<1>3. DOMAIN sets = R /\ sets \in [R -> {sets[x] : x \in R}]
    OBVIOUS
<1>4. \A T \in {sets[x] : x \in R} : FS!IsFiniteSet(T)
    BY <1>1
<1>5. Finds!AllHits = UNION {sets[x] : x \in R}
    BY DEF Finds!AllHits
<1>6. FS!IsFiniteSet({sets[x] : x \in R})
  <2> HIDE DEF sets, R
  <2> QED BY <1>2, <1>3, FiniteImage
<1> HIDE DEF sets, R
<1> QED BY <1>4, <1>5, <1>6, FS!FS_UNION

\* The invariant of a search holds at first.
LEMMA FindsInit == Finds!Init => Finds!IInv
BY DEF Finds!Init, Finds!IInv, Finds!TypeOK, Finds!SearchAccounts

\* Every step of a search keeps the invariant.
LEMMA FindsStep == Finds!IInv /\ Finds!Next => Finds!IInv'
<1> SUFFICES ASSUME Finds!IInv, Finds!Next PROVE Finds!IInv'
    OBVIOUS
<1>0. s1 \in [Searched -> Finds!Asked \cup {Finds!NotUsable}] /\ s1' = s1
    BY DEF Finds!IInv, Finds!TypeOK, Finds!Next, Finds!SearchAll
<1>1. PICK a \in Finds!Answers : s2' = <<a>>
    BY DEF Finds!Next, Finds!SearchAll
<1>2. /\ a.hits \in SUBSET Finds!AllHits
      /\ Finds!Cardinality(a.hits) = Finds!Min({MaxHits, Finds!Cardinality(Finds!AllHits)})
      /\ \A shown \in a.hits, left \in Finds!AllHits \ a.hits : Finds!Scored(left) <= Finds!Scored(shown)
      /\ a.unreachable = Finds!Unreachable
      /\ a.truncated = (Finds!Cardinality(Finds!AllHits) > MaxHits)
    BY DEF Finds!Answers, Finds!kSubset
<1>3. ~a.truncated => a.hits = Finds!AllHits
  <2> SUFFICES ASSUME ~a.truncated PROVE a.hits = Finds!AllHits
      OBVIOUS
  <2>1. \A S : Finds!Cardinality(S) = FS!Cardinality(S)
      BY DEF Finds!Cardinality, FS!Cardinality
  <2>2. FS!IsFiniteSet(Finds!AllHits)
      BY <1>0, FiniteHits
  <2>3. FS!Cardinality(Finds!AllHits) \in Nat
      BY <2>2, FS!FS_CardinalityType
  <2>4. MaxHits \in Nat
      BY MCSearch DEF Finds!SearchAssumption
  <2>a. ~(Finds!Cardinality(Finds!AllHits) > MaxHits)
      BY <1>2
  <2>5. FS!Cardinality(Finds!AllHits) <= MaxHits
      BY <2>a, <2>1, <2>3, <2>4
  <2>6. ASSUME NEW n \in Nat, NEW m \in Nat, n <= m PROVE Finds!Min({m, n}) = n
      BY <2>6 DEF Finds!Min
  <2>7. FS!Cardinality(a.hits) = FS!Cardinality(Finds!AllHits)
      BY <1>2, <2>1, <2>3, <2>4, <2>5, <2>6
  <2> QED BY <1>2, <2>2, <2>7, FS!FS_Subset
<1>4. ASSUME NEW c \in Searched \ Finds!Unreachable
      PROVE  /\ s1[c].usable
             /\ (\A k \in AskedKinds : s1[c].kinds[k].fault # "") =>
                   \A k \in AskedKinds : s1[c].kinds[k].fault = "not here"
             /\ Finds!HitsOf(c) \subseteq Finds!AllHits
  <2>1. s1[c].usable /\ s1[c] \in Finds!Asked /\ ~Finds!NoAnswerFrom(c)
      BY <1>0, <1>4 DEF Finds!Unreachable, Finds!NotUsable
  <2>2. \A k \in AskedKinds : s1[c].kinds[k] \in Finds!KindAnswers(k)
      BY <2>1 DEF Finds!Asked
  <2>3. ASSUME \A k \in AskedKinds : s1[c].kinds[k].fault # ""
        PROVE  \A k \in AskedKinds : s1[c].kinds[k].fault = "not here"
    <3>1. \A k \in AskedKinds : Finds!Matching(s1[c].kinds[k]) = {}
        BY <2>2, <2>3, Listing
    <3>2. Finds!HitsOf(c) = {}
        BY <3>1 DEF Finds!HitsOf
    <3>3. \A k \in AskedKinds : s1[c].kinds[k].fault # "no answer"
        BY <2>1, <3>2 DEF Finds!NoAnswerFrom, Finds!ClusterLevel
    <3>4. \A k \in AskedKinds : s1[c].kinds[k].fault \in {"", "not here", "no answer"}
        BY <2>2, Listing
    <3> QED BY <2>3, <3>3, <3>4
  <2>4. Finds!HitsOf(c) \subseteq Finds!AllHits
      BY <1>4 DEF Finds!AllHits
  <2> QED BY <2>1, <2>3, <2>4
<1>6. s2' # <<>> /\ s2'[1] = a
    BY <1>1
<1>7. \A c : Finds!HitsOf(c)' = Finds!HitsOf(c)
    BY <1>0 DEF Finds!HitsOf
<1>8. \A h : Finds!Scored(h)' = Finds!Scored(h)
    BY <1>0 DEF Finds!Scored
<1>9. \A c : Finds!LeftOut(c)' = {h \in Finds!HitsOf(c) : h \notin a.hits}
    BY <1>6, <1>7 DEF Finds!LeftOut
<1>10. ASSUME NEW c \in Searched \ a.unreachable
       PROVE  /\ s1[c].usable
              /\ Finds!LeftOut(c)' # {} => a.truncated
              /\ \A h \in Finds!LeftOut(c)', shown \in a.hits :
                    Finds!Scored(h) <= Finds!Scored(shown)
              /\ (\A k \in AskedKinds : s1[c].kinds[k].fault # "") =>
                   \A k \in AskedKinds : s1[c].kinds[k].fault = "not here"
  <2>1. Finds!LeftOut(c)' \subseteq Finds!AllHits \ a.hits
      BY <1>2, <1>4, <1>9
  <2> QED BY <1>2, <1>3, <1>4, <2>1
<1>11. Finds!SearchAccounts'
    BY <1>0, <1>6, <1>8, <1>10 DEF Finds!SearchAccounts
<1>12. Finds!AllHits' = Finds!AllHits
    BY <1>0, <1>7 DEF Finds!AllHits, Finds!Unreachable, Finds!NoAnswerFrom
<1>13. Finds!TypeOK'
    BY <1>0, <1>2, <1>6, <1>12 DEF Finds!TypeOK
<1> QED BY <1>11, <1>13 DEF Finds!IInv

-----------------------------------------------------------------------------
(* What is said of a pod (k8s/trouble.go, health/workload.go). *)

\* A set of numbers has a least one.
LEMMA Smallest ==
  ASSUME NEW I \in SUBSET Nat, I # {}
  PROVE  \E x \in I : \A y \in I : x <= y
<1> DEFINE R == {p \in Nat \X Nat : p[1] < p[2]}
<1>0. WF!IsWellFoundedOn(R, Nat)
    BY WF!NatLessThanWellFounded DEF WF!OpToRel
<1>1. \E x \in I : \A y \in I : ~ (<<y, x>> \in R)
  <2> HIDE DEF R
  <2> QED BY <1>0, WF!WFMin
<1>2. PICK x \in I : \A y \in I : ~ (<<y, x>> \in R)
    BY <1>1
<1>3. \A y \in I : ~(y < x)
    BY <1>2
<1> QED BY <1>3

LEMMA Least ==
  ASSUME NEW I \in SUBSET Nat, I # {}
  PROVE  Verdicts!Min(I) \in I /\ \A y \in I : Verdicts!Min(I) <= y
BY Smallest DEF Verdicts!Min

\* The first container in trouble speaks for its list.
LEMMA TroubleOfList ==
  ASSUME NEW list \in Seq(Verdicts!Container)
  PROVE  /\ Verdicts!ContainerTrouble(list) = Verdicts!None <=>
              \A i \in DOMAIN list : Verdicts!ReasonOf(list[i]) = ""
         /\ Verdicts!ContainerTrouble(list) # Verdicts!None =>
              /\ Verdicts!ContainerTrouble(list).severity = "error"
              /\ Verdicts!ContainerTrouble(list).transient = FALSE
<1> DEFINE I == {i \in 1..Len(list) : Verdicts!ReasonOf(list[i]) # ""}
<1>0. DOMAIN list = 1..Len(list) /\ Len(list) \in Nat
    OBVIOUS
<1>1. Verdicts!Troubled(list) = IF I # {} THEN Verdicts!Min(I) ELSE 0
    BY DEF Verdicts!Troubled, Verdicts!SelectInSeq
<1>2. CASE I = {}
  <2>1. Verdicts!Troubled(list) = 0
      BY <1>1, <1>2
  <2>2. Verdicts!ContainerTrouble(list) = Verdicts!None
      BY <2>1 DEF Verdicts!ContainerTrouble
  <2> QED BY <1>0, <1>2, <2>2
<1>3. CASE I # {}
  <2>a. I \subseteq 1..Len(list)
      OBVIOUS
  <2>b. 1..Len(list) \subseteq Nat
      BY <1>0
  <2>1. I \in SUBSET Nat
    <3> HIDE DEF I
    <3> QED BY <2>a, <2>b
  <2>2. Verdicts!Troubled(list) = Verdicts!Min(I) /\ Verdicts!Min(I) \in I
    <3> HIDE DEF I
    <3> QED BY <1>1, <1>3, <2>1, Least
  <2> DEFINE i == Verdicts!Troubled(list)
  <2>c. i \in I
      BY <2>2
  <2>d. i \in 1..Len(list) /\ Verdicts!ReasonOf(list[i]) # ""
      BY <2>c
  <2>f. i \in 1..Len(list)
      BY <2>c
  <2>e. i # 0
      BY <2>f, <1>0
  <2>3. i \in 1..Len(list) /\ i # 0 /\ Verdicts!ReasonOf(list[i]) # ""
      BY <2>d, <2>e
  <2>4. Verdicts!ContainerTrouble(list)
          = [reason |-> Verdicts!ReasonOf(list[i]), severity |-> "error", transient |-> FALSE,
             sidecar |-> list[i].sidecar]
      BY <2>3 DEF Verdicts!ContainerTrouble
  <2> HIDE DEF i
  <2>g. Verdicts!None.reason = ""
      BY DEF Verdicts!None
  <2>h. Verdicts!ContainerTrouble(list).reason = Verdicts!ReasonOf(list[i])
      BY <2>4
  <2>5. Verdicts!ContainerTrouble(list).reason # "" /\ Verdicts!None.reason = ""
      BY <2>3, <2>g, <2>h
  <2>6. Verdicts!ContainerTrouble(list) # Verdicts!None
      BY <2>5
  <2>7. Verdicts!ContainerTrouble(list).severity = "error" /\ Verdicts!ContainerTrouble(list).transient = FALSE
      BY <2>4
  <2> QED BY <1>0, <2>3, <2>6, <2>7
<1> QED BY <1>2, <1>3

\* What fails is what has a word.
LEMMA FailsHasReason ==
  ASSUME NEW c \in Verdicts!Container
  PROVE  /\ Verdicts!Fails(c) <=> Verdicts!ReasonOf(c) # ""
         /\ Verdicts!StateReason(c) # "" => Verdicts!ReasonOf(c) # ""
         /\ c.state \in {"CrashLoopBackOff", "OOMKilled"} => Verdicts!ReasonOf(c) # ""
<1> USE DEF Verdicts!Waiting, Verdicts!WaitingIsNormal, Verdicts!Ended
<1>0. c.state \in Verdicts!State /\ c.last \in Verdicts!Ended \cup {"none"}
    BY DEF Verdicts!Container
<1>1. CASE c.state = "CrashLoopBackOff"
    BY <1>1 DEF Verdicts!Fails, Verdicts!ReasonOf, Verdicts!StateReason
<1>2. CASE c.state \in {"ContainerCreating", "PodInitializing"}
    BY <1>2 DEF Verdicts!Fails, Verdicts!ReasonOf, Verdicts!StateReason
<1>3. CASE c.state \in {"Error", "OOMKilled", "nonzero"}
    BY <1>3 DEF Verdicts!Fails, Verdicts!ReasonOf, Verdicts!StateReason,
        Verdicts!Terminated
<1>4. CASE c.state \in {"Completed", "zero", "running"}
    BY <1>4 DEF Verdicts!Fails, Verdicts!ReasonOf, Verdicts!StateReason,
        Verdicts!Terminated
<1> QED BY <1>0, <1>1, <1>2, <1>3, <1>4 DEF Verdicts!State

\* The first of the five that there is.
LEMMA FirstOfFive ==
  ASSUME NEW a, NEW b, NEW c, NEW d, NEW e
  PROVE  Verdicts!FirstOf(<<a, b, c, d, e>>)
           = IF a # Verdicts!None THEN a ELSE IF b # Verdicts!None THEN b
             ELSE IF c # Verdicts!None THEN c ELSE IF d # Verdicts!None THEN d ELSE e
<1> DEFINE said == <<a, b, c, d, e>>
           I == {i \in 1..Len(said) : said[i] # Verdicts!None}
           first == IF I # {} THEN Verdicts!Min(I) ELSE 0
<1> SUFFICES Verdicts!FirstOf(said)
               = IF a # Verdicts!None THEN a ELSE IF b # Verdicts!None THEN b
                 ELSE IF c # Verdicts!None THEN c ELSE IF d # Verdicts!None THEN d ELSE e
    OBVIOUS
<1>1. Verdicts!SelectInSeq(said, LAMBDA t : t # Verdicts!None) = first
    BY DEF Verdicts!SelectInSeq
<1>2. Verdicts!FirstOf(said) = IF first = 0 THEN Verdicts!None ELSE said[first]
    BY <1>1 DEF Verdicts!FirstOf
<1>3. Len(said) = 5 /\ said[1] = a /\ said[2] = b /\ said[3] = c /\ said[4] = d /\ said[5] = e
    OBVIOUS
<1> HIDE DEF said
<1>4. \A i : i \in I <=> i \in 1..5 /\ said[i] # Verdicts!None
    BY <1>3
<1>5. I # {} => Verdicts!Min(I) \in I /\ \A y \in I : Verdicts!Min(I) <= y
  <2>1. I \in SUBSET Nat
      BY <1>4
  <2> HIDE DEF I
  <2> QED BY <2>1, Least
<1>6. I = {} => first = 0
    OBVIOUS
<1>7. I # {} => first \in 1..5 /\ said[first] # Verdicts!None
                /\ \A y \in 1..5 : said[y] # Verdicts!None => first <= y
    BY <1>4, <1>5
<1> HIDE DEF I, first
<1>8. CASE I = {}
  <2>1. first = 0
      BY <1>6, <1>8
  <2>2. \A i \in 1..5 : said[i] = Verdicts!None
      BY <1>4, <1>8
  <2>3. /\ a = Verdicts!None /\ b = Verdicts!None /\ c = Verdicts!None
        /\ d = Verdicts!None /\ e = Verdicts!None
      BY <1>3, <2>2
  <2> QED BY <1>2, <2>1, <2>3
<1>9. CASE I # {}
  <2>1. first \in {1, 2, 3, 4, 5}
      BY <1>7, <1>9
  <2>2. Verdicts!FirstOf(said) = said[first]
      BY <1>2, <2>1
  <2>3. said[first] # Verdicts!None /\ \A y \in 1..5 : said[y] # Verdicts!None => first <= y
      BY <1>7, <1>9
  <2>4. CASE first = 1
      BY <1>3, <2>2, <2>3, <2>4
  <2>5. CASE first = 2
    <3>1. ~(said[1] # Verdicts!None)
        BY <2>3, <2>5
    <3> QED BY <1>3, <2>2, <2>3, <2>5, <3>1
  <2>6. CASE first = 3
    <3>1. ~(said[1] # Verdicts!None) /\ ~(said[2] # Verdicts!None)
        BY <2>3, <2>6
    <3> QED BY <1>3, <2>2, <2>3, <2>6, <3>1
  <2>7. CASE first = 4
    <3>1. ~(said[1] # Verdicts!None) /\ ~(said[2] # Verdicts!None) /\ ~(said[3] # Verdicts!None)
        BY <2>3, <2>7
    <3> QED BY <1>3, <2>2, <2>3, <2>7, <3>1
  <2>8. CASE first = 5
    <3>1. /\ ~(said[1] # Verdicts!None) /\ ~(said[2] # Verdicts!None)
          /\ ~(said[3] # Verdicts!None) /\ ~(said[4] # Verdicts!None)
        BY <2>3, <2>8
    <3> QED BY <1>3, <2>2, <2>3, <2>8, <3>1
  <2> QED BY <2>1, <2>4, <2>5, <2>6, <2>7, <2>8
<1> QED BY <1>8, <1>9

\* What the trouble of a pod tells: none where it works and does not wait to
\* start, a passing one where it works and waits, a lasting one where it fails.
LEMMA TroubleTells ==
  ASSUME NEW p \in Verdicts!Pod
  PROVE  /\ Verdicts!PodTrouble(p) = Verdicts!None <=> Verdicts!Works(p) /\ p.phase # "Pending"
         /\ Verdicts!PodTrouble(p) # Verdicts!None =>
              /\ Verdicts!PodTrouble(p).severity \in {"error", "warning"}
              /\ Verdicts!PodTrouble(p).transient \in BOOLEAN
              /\ Verdicts!PodTrouble(p).transient <=> Verdicts!Works(p)
              /\ Verdicts!Works(p) => Verdicts!PodTrouble(p).severity = "warning"
<1> DEFINE t == Verdicts!PodTrouble(p)
           con == Verdicts!ContainerTrouble(p.containers)
           ini == Verdicts!ContainerTrouble(p.inits)
           ph == Verdicts!PhaseTrouble(p)
           ev == Verdicts!When(p.evicted, Verdicts!Trouble("Evicted", "warning"))
           un == Verdicts!When(p.phase = "Pending" /\ ~p.scheduled,
                               Verdicts!Trouble("Unschedulable", "error"))
           None == Verdicts!None
<1>1. /\ p.inits \in Seq(Verdicts!Container) /\ p.containers \in Seq(Verdicts!Container)
      /\ p.phase \in {"Pending", "Running", "Succeeded", "Failed"}
    BY DEF Verdicts!Pod
<1>b. p.evicted \in BOOLEAN /\ p.scheduled \in BOOLEAN /\ p.ready \in BOOLEAN
    BY DEF Verdicts!Pod
<1>2. t = IF ev # None THEN ev ELSE IF un # None THEN un
          ELSE IF con # None THEN con ELSE IF ini # None THEN ini ELSE ph
    BY FirstOfFive DEF Verdicts!PodTrouble
<1>3. /\ con = None <=> \A i \in DOMAIN p.containers : ~Verdicts!Fails(p.containers[i])
      /\ con # None => con.severity = "error" /\ con.transient = FALSE
  <2>1. \A i \in DOMAIN p.containers :
            Verdicts!Fails(p.containers[i]) <=> Verdicts!ReasonOf(p.containers[i]) # ""
    <3>1. \A i \in DOMAIN p.containers : p.containers[i] \in Verdicts!Container
        BY <1>1
    <3> QED BY <3>1, FailsHasReason
  <2> QED BY <1>1, <2>1, TroubleOfList
<1>4. /\ ini = None <=> \A i \in DOMAIN p.inits : ~Verdicts!Fails(p.inits[i])
      /\ ini # None => ini.severity = "error" /\ ini.transient = FALSE
  <2>1. \A i \in DOMAIN p.inits :
            Verdicts!Fails(p.inits[i]) <=> Verdicts!ReasonOf(p.inits[i]) # ""
    <3>1. \A i \in DOMAIN p.inits : p.inits[i] \in Verdicts!Container
        BY <1>1
    <3> QED BY <3>1, FailsHasReason
  <2> QED BY <1>1, <2>1, TroubleOfList
<1>5. \A r, s : Verdicts!Trouble(r, s).reason = r /\ Verdicts!Trouble(r, s).severity = s
                /\ Verdicts!Trouble(r, s).transient = FALSE
    BY DEF Verdicts!Trouble
<1>6. \A r, s : s # "" => Verdicts!Trouble(r, s) # None
  <2>1. None.severity = ""
      BY DEF Verdicts!None
  <2> TAKE r, s
  <2>2. Verdicts!Trouble(r, s).severity = s
      BY <1>5
  <2> QED BY <2>1, <2>2
<1>7. /\ p.evicted => ev # None /\ ev.severity = "warning" /\ ev.transient = FALSE
      /\ ~p.evicted => ev = None
    BY <1>5, <1>6, <1>b DEF Verdicts!When
<1>8. /\ p.phase = "Pending" /\ ~p.scheduled =>
              un # None /\ un.severity = "error" /\ un.transient = FALSE
      /\ ~(p.phase = "Pending" /\ ~p.scheduled) => un = None
    BY <1>5, <1>6, <1>b DEF Verdicts!When
<1>9. p.phase = "Failed" => ph # None /\ ph.severity = "error" /\ ph.transient = FALSE
    BY <1>5, <1>6 DEF Verdicts!PhaseTrouble
<1>10. p.phase = "Pending" => ph # None /\ ph.severity = "warning" /\ ph.transient = TRUE
  <2>1. p.phase = "Pending" => ph = [Verdicts!Trouble("Pending", "warning") EXCEPT !.transient = TRUE]
      BY DEF Verdicts!PhaseTrouble
  <2>2. /\ [Verdicts!Trouble("Pending", "warning") EXCEPT !.transient = TRUE].severity = "warning"
        /\ [Verdicts!Trouble("Pending", "warning") EXCEPT !.transient = TRUE].transient = TRUE
      BY DEF Verdicts!Trouble
  <2>3. None.severity = ""
      BY DEF Verdicts!None
  <2> QED BY <2>1, <2>2, <2>3
<1>11. /\ p.phase = "Running" /\ ~p.ready =>
              ph # None /\ ph.severity = "warning" /\ ph.transient = FALSE
       /\ p.phase = "Running" /\ p.ready => ph = None
    BY <1>5, <1>6, <1>b DEF Verdicts!PhaseTrouble, Verdicts!When
<1>12. p.phase = "Succeeded" => ph = None
    BY DEF Verdicts!PhaseTrouble
<1>13. Verdicts!Works(p) <=>
          /\ ~p.evicted /\ p.phase # "Failed"
          /\ ~(p.phase = "Pending" /\ ~p.scheduled)
          /\ ~(p.phase = "Running" /\ ~p.ready)
          /\ con = None /\ ini = None
    BY <1>3, <1>4, <1>b DEF Verdicts!Works
<1> HIDE DEF t, con, ini, ph, ev, un, None
<1> SUFFICES /\ t = None <=> Verdicts!Works(p) /\ p.phase # "Pending"
             /\ t # None => /\ t.severity \in {"error", "warning"}
                            /\ t.transient \in BOOLEAN
                            /\ t.transient <=> Verdicts!Works(p)
                            /\ Verdicts!Works(p) => t.severity = "warning"
    BY DEF t, None
<1>14. CASE p.evicted
    BY <1>2, <1>7, <1>13, <1>14
<1>15. CASE ~p.evicted /\ un # None
    BY <1>2, <1>7, <1>8, <1>13, <1>15
<1>16. CASE ~p.evicted /\ un = None /\ con # None
    BY <1>2, <1>3, <1>7, <1>13, <1>16
<1>17. CASE ~p.evicted /\ un = None /\ con = None /\ ini # None
    BY <1>2, <1>4, <1>7, <1>13, <1>17
<1>18. CASE ~p.evicted /\ un = None /\ con = None /\ ini = None
  <2>1. t = ph
      BY <1>2, <1>7, <1>18
  <2>2. ~(p.phase = "Pending" /\ ~p.scheduled)
      BY <1>8, <1>18
  <2>3. CASE p.phase = "Failed"
      BY <1>9, <1>13, <2>1, <2>3
  <2>4. CASE p.phase = "Pending"
      BY <1>10, <1>13, <1>18, <2>1, <2>2, <2>4
  <2>5. CASE p.phase = "Running"
      BY <1>11, <1>13, <1>18, <2>1, <2>2, <2>5
  <2>6. CASE p.phase = "Succeeded"
      BY <1>12, <1>13, <1>18, <2>1, <2>2, <2>6
  <2> QED BY <1>1, <2>3, <2>4, <2>5, <2>6
<1> QED BY <1>14, <1>15, <1>16, <1>17, <1>18

\* Where the items of a list are.
LEMMA Listed ==
  ASSUME NEW S, NEW list \in Seq(S)
  PROVE  /\ Len(list) \in Nat /\ DOMAIN list = 1..Len(list)
         /\ 1..Len(list) \subseteq Nat
         /\ \A i \in 1..Len(list) : list[i] \in S
OBVIOUS

\* A status that is not a fine word comes of something the finding tells
\* too.
LEMMA StatusTells ==
  ASSUME NEW p \in Verdicts!Pod, Verdicts!PodStatus(p) \notin Verdicts!FineWords
  PROVE  Verdicts!PodTrouble(p) # Verdicts!None
<1> DEFINE list == p.inits \o p.containers
           I == {i \in 1..Len(list) : Verdicts!StateReason(list[i]) # ""}
           first == Verdicts!SelectInSeq(list, LAMBDA c : Verdicts!StateReason(c) # "")
<1>1. /\ p.inits \in Seq(Verdicts!Container) /\ p.containers \in Seq(Verdicts!Container)
      /\ p.phase \in {"Pending", "Running", "Succeeded", "Failed"}
    BY DEF Verdicts!Pod
<1>b. p.evicted \in BOOLEAN /\ p.deleting \in BOOLEAN
    BY DEF Verdicts!Pod
<1>2. first = IF I # {} THEN Verdicts!Min(I) ELSE 0
    BY DEF Verdicts!SelectInSeq
<1>3. /\ list \in Seq(Verdicts!Container) /\ Len(list) \in Nat
      /\ DOMAIN list = 1..Len(list)
  <2> DEFINE ini == p.inits
             con == p.containers
  <2>1. ini \in Seq(Verdicts!Container) /\ con \in Seq(Verdicts!Container)
      BY <1>1
  <2> HIDE DEF ini, con
  <2>2. ini \o con \in Seq(Verdicts!Container)
      BY <2>1
  <2>3. Len(ini \o con) \in Nat /\ DOMAIN (ini \o con) = 1..Len(ini \o con)
      BY <2>2
  <2> QED BY <2>2, <2>3 DEF ini, con
<1>c. \A i \in 1..Len(list) :
        \/ \E j \in DOMAIN p.inits : list[i] = p.inits[j]
        \/ \E j \in DOMAIN p.containers : list[i] = p.containers[j]
  <2> DEFINE ini == p.inits
             con == p.containers
  <2>1. ini \in Seq(Verdicts!Container) /\ con \in Seq(Verdicts!Container)
      BY <1>1
  <2> HIDE DEF ini, con
  <2>2. \A i \in 1..Len(ini \o con) :
          \/ \E j \in DOMAIN ini : (ini \o con)[i] = ini[j]
          \/ \E j \in DOMAIN con : (ini \o con)[i] = con[j]
    <3> TAKE i \in 1..Len(ini \o con)
    <3>1. Len(ini \o con) = Len(ini) + Len(con) /\ Len(ini) \in Nat /\ Len(con) \in Nat
        BY <2>1
    <3>2. CASE i <= Len(ini)
      <4>1. i \in 1..Len(ini) /\ (ini \o con)[i] = ini[i]
          BY <2>1, <3>1, <3>2
      <4> QED BY <2>1, <4>1
    <3>3. CASE i > Len(ini)
      <4>1. (ini \o con)[i] = con[i - Len(ini)] /\ i - Len(ini) \in 1..Len(con)
          BY <2>1, <3>1, <3>3
      <4> QED BY <2>1, <4>1
    <3> QED BY <3>1, <3>2, <3>3
  <2> QED BY <2>2 DEF ini, con
<1>4. Verdicts!PodStatus(p) = IF p.deleting THEN "Terminating"
                              ELSE IF first # 0 THEN Verdicts!StateReason(list[first])
                              ELSE IF p.evicted THEN "Evicted" ELSE p.phase
    BY DEF Verdicts!PodStatus
<1>5. first # 0 => I # {}
    BY <1>2
<1>6. I \in SUBSET Nat
  <2>1. I \subseteq 1..Len(list)
      OBVIOUS
  <2>2. 1..Len(list) \subseteq Nat
    <3> HIDE DEF list
    <3> QED BY <1>3
  <2> HIDE DEF I
  <2> QED BY <2>1, <2>2
<1>7. \A i : i \in I <=> i \in 1..Len(list) /\ Verdicts!StateReason(list[i]) # ""
    OBVIOUS
<1>8. ~p.deleting
    BY <1>4 DEF Verdicts!FineWords
<1>9. CASE first # 0
  <2>1. first \in I
    <3> HIDE DEF I, first
    <3> QED BY <1>2, <1>5, <1>6, <1>9, Least
  <2>2. PICK i \in 1..Len(list) : Verdicts!StateReason(list[i]) # ""
      BY <2>1
  <2>3. \/ \E j \in DOMAIN p.inits : list[i] = p.inits[j]
        \/ \E j \in DOMAIN p.containers : list[i] = p.containers[j]
      BY <1>c
  <2>4. list[i] \in Verdicts!Container
    <3> HIDE DEF list
    <3> QED BY <1>3
  <2>5. Verdicts!Fails(list[i])
    <3> HIDE DEF list
    <3> QED BY <2>2, <2>4, FailsHasReason
  <2>6. ~Verdicts!Works(p)
      BY <2>3, <2>5 DEF Verdicts!Works
  <2> QED BY <2>6, TroubleTells
<1>10. CASE first = 0
  <2>1. p.evicted \/ p.phase = "Failed"
    <3> HIDE DEF list, first
    <3> QED BY <1>1, <1>4, <1>8, <1>10 DEF Verdicts!FineWords
  <2>2. ~Verdicts!Works(p)
      BY <2>1, <1>b DEF Verdicts!Works
  <2> QED BY <2>2, TroubleTells
<1> QED BY <1>9, <1>10

\* So has one with a line on the overview, unless it only starts its containers.
LEMMA ProblemTells ==
  ASSUME NEW p \in Verdicts!Pod, Verdicts!PodProblem(p) \notin {"", "PodInitializing"}
  PROVE  Verdicts!PodTrouble(p) # Verdicts!None
<1> DEFINE list == p.containers
           Word(c) == IF c.state \in (Verdicts!Waiting \ {"ContainerCreating"}) \cup {"OOMKilled"}
                        THEN c.state ELSE ""
           I == {i \in 1..Len(list) : Word(list[i]) # ""}
           first == Verdicts!SelectInSeq(list, LAMBDA c : Word(c) # "")
<1>0. p.phase \in {"Pending", "Running", "Succeeded", "Failed"}
    BY DEF Verdicts!Pod
<1>1. /\ list \in Seq(Verdicts!Container) /\ Len(list) \in Nat
      /\ DOMAIN list = 1..Len(list) /\ \A i \in 1..Len(list) : list[i] \in Verdicts!Container
  <2>1. list \in Seq(Verdicts!Container)
      BY DEF Verdicts!Pod
  <2> HIDE DEF list
  <2> QED BY <2>1, Listed
<1>2. first = IF I # {} THEN Verdicts!Min(I) ELSE 0
    BY DEF Verdicts!SelectInSeq
<1>3. Verdicts!PodProblem(p) =
        CASE p.phase = "Failed" -> "Failed"
          [] p.phase = "Pending" -> "Pending"
          [] p.phase \notin {"Failed", "Pending"} /\ first # 0 -> Word(list[first])
          [] OTHER -> ""
    BY DEF Verdicts!PodProblem
<1>6. I \in SUBSET Nat
  <2>1. I \subseteq 1..Len(list)
      OBVIOUS
  <2>2. 1..Len(list) \subseteq Nat
    <3> HIDE DEF list
    <3> QED BY <1>1, Listed
  <2> HIDE DEF I
  <2> QED BY <2>1, <2>2
<1>7. CASE p.phase = "Failed"
  <2>1. ~Verdicts!Works(p)
      BY <1>7 DEF Verdicts!Works
  <2> QED BY <2>1, TroubleTells
<1>8. CASE p.phase = "Pending"
    BY <1>8, TroubleTells
<1>9. CASE p.phase \notin {"Failed", "Pending"}
  <2>1. first # 0 /\ Word(list[first]) \notin {"", "PodInitializing"}
    <3>1. first = 0 => Verdicts!PodProblem(p) = ""
      <4> HIDE DEF first
      <4> QED BY <1>3, <1>9
    <3>2. first # 0 => Verdicts!PodProblem(p) = Word(list[first])
      <4> HIDE DEF first, Word
      <4> QED BY <1>3, <1>9
    <3> HIDE DEF first, Word
    <3> QED BY <3>1, <3>2
  <2>2. first \in I
    <3> HIDE DEF I, first
    <3> QED BY <1>2, <1>6, <2>1, Least
  <2>3. PICK i \in 1..Len(list) : Word(list[i]) \notin {"", "PodInitializing"}
    <3>1. first \in 1..Len(list)
        BY <2>2
    <3> HIDE DEF first, Word
    <3> QED BY <2>1, <3>1
  <2>4. list[i] \in Verdicts!Container
    <3> HIDE DEF list
    <3> QED BY <1>1
  <2>5. list[i].state \in {"CrashLoopBackOff", "OOMKilled"}
      BY <2>3 DEF Verdicts!Waiting
  <2>6. Verdicts!Fails(list[i])
      BY <2>4, <2>5, FailsHasReason
  <2>7. ~Verdicts!Works(p)
      BY <2>6, <1>1 DEF Verdicts!Works
  <2> QED BY <2>7, TroubleTells
<1> QED BY <1>0, <1>7, <1>8, <1>9

\* The invariant of what is said of a pod holds at first.
LEMMA VerdictsInit ==
  ASSUME Verdicts!Init PROVE Verdicts!IInv
BY DEF Verdicts!Init, Verdicts!IInv, Verdicts!VerdictsAgree

\* Every step of what is said of a pod keeps the invariant.
LEMMA VerdictsStep ==
  ASSUME Verdicts!IInv, Verdicts!Judge PROVE Verdicts!IInv'
<1> DEFINE t == Verdicts!PodTrouble(s1)
           None == Verdicts!None
           said == [status |-> Verdicts!PodStatus(s1), mark |-> Verdicts!Mark(s1),
                    finding |-> Verdicts!Inspect(s1), problem |-> Verdicts!PodProblem(s1)]
<1>1. s1 \in Verdicts!Pod /\ s1' = s1 /\ s1 \in Judged
    BY MCPodsAssumption DEF Verdicts!IInv, Verdicts!Judge, Verdicts!PodsAssumption
<1>2. s2' = <<said>>
    BY DEF Verdicts!Judge
<1>3. /\ t = None <=> Verdicts!Works(s1) /\ s1.phase # "Pending"
      /\ t # None => /\ t.severity \in {"error", "warning"}
                     /\ t.transient \in BOOLEAN
                     /\ t.transient <=> Verdicts!Works(s1)
                     /\ Verdicts!Works(s1) => t.severity = "warning"
    BY <1>1, TroubleTells
<1>4. None.severity = ""
    BY DEF Verdicts!None
<1>5. Verdicts!Mark(s1) = t.severity
    BY DEF Verdicts!Mark
<1>6. /\ t = None \/ t.transient => Verdicts!Inspect(s1) = Verdicts!NoFinding
      /\ ~(t = None \/ t.transient) => Verdicts!Inspect(s1) # Verdicts!NoFinding
  <2>1. Verdicts!Inspect(s1) =
          IF t = None \/ t.transient THEN Verdicts!NoFinding
          ELSE [reason |-> t.reason,
                severity |-> IF t.sidecar \/ t.severity = "warning" THEN "warning" ELSE "critical"]
      BY DEF Verdicts!Inspect
  <2>2. [reason |-> t.reason, severity |-> IF t.sidecar \/ t.severity = "warning"
                                           THEN "warning" ELSE "critical"].severity # "none"
      OBVIOUS
  <2>3. Verdicts!NoFinding.severity = "none"
      BY DEF Verdicts!NoFinding
  <2> HIDE DEF t, None
  <2> QED BY <2>1, <2>2, <2>3
<1>7. Verdicts!PodStatus(s1) \notin Verdicts!FineWords => t # None
    BY <1>1, StatusTells
<1>8. Verdicts!PodProblem(s1) \notin {"", "PodInitializing"} => t # None
    BY <1>1, ProblemTells
<1> HIDE DEF t, None
<1>9. /\ Verdicts!Works(s1) <=> Verdicts!Inspect(s1) = Verdicts!NoFinding
      /\ Verdicts!Works(s1) => /\ Verdicts!Mark(s1) \in {"", "warning"}
                               /\ Verdicts!Mark(s1) # "" => s1.phase = "Pending"
      /\ Verdicts!Inspect(s1) # Verdicts!NoFinding => Verdicts!Mark(s1) # ""
      /\ Verdicts!PodStatus(s1) \notin Verdicts!FineWords => Verdicts!Mark(s1) # ""
      /\ Verdicts!PodProblem(s1) \notin {"", "PodInitializing"} => Verdicts!Mark(s1) # ""
  <2>1. CASE t = None
    <3>1. Verdicts!Works(s1) /\ Verdicts!Inspect(s1) = Verdicts!NoFinding /\ Verdicts!Mark(s1) = ""
        BY <1>3, <1>4, <1>5, <1>6, <2>1
    <3> QED BY <2>1, <3>1, <1>7, <1>8
  <2>2. CASE t # None
    <3>1. Verdicts!Mark(s1) # ""
        BY <1>3, <1>5, <2>2
    <3>2. Verdicts!Works(s1) => Verdicts!Mark(s1) = "warning" /\ s1.phase = "Pending"
        BY <1>3, <1>5, <2>2
    <3>3. Verdicts!Works(s1) <=> Verdicts!Inspect(s1) = Verdicts!NoFinding
        BY <1>3, <1>6, <2>2
    <3> QED BY <3>1, <3>2, <3>3
  <2> QED BY <2>1, <2>2
<1>10. s2'[1] = said
    BY <1>2
<1>11. /\ s2'[1].status = Verdicts!PodStatus(s1) /\ s2'[1].mark = Verdicts!Mark(s1)
       /\ s2'[1].finding = Verdicts!Inspect(s1) /\ s2'[1].problem = Verdicts!PodProblem(s1)
    BY <1>10
<1>12. Verdicts!VerdictsAgree'
    BY <1>1, <1>9, <1>11 DEF Verdicts!VerdictsAgree
<1> QED BY <1>1, <1>12 DEF Verdicts!IInv

-----------------------------------------------------------------------------
(* The overview (promql/panels.go). *)

\* What is set in a row comes from the set, each member once.
LEMMA InARow ==
  ASSUME NEW S, FS!IsFiniteSet(S)
  PROVE  /\ Overviews!SetToSeq(S) \in Seq(S)
         /\ \A x \in S : \E i \in DOMAIN Overviews!SetToSeq(S) : Overviews!SetToSeq(S)[i] = x
         /\ \A i, j \in DOMAIN Overviews!SetToSeq(S) :
              Overviews!SetToSeq(S)[i] = Overviews!SetToSeq(S)[j] => i = j
<1> DEFINE n == FS!Cardinality(S)
           Good(f) == f \in [1..n -> S] /\ Overviews!IsInjective(f)
<1>1. n \in Nat /\ FS!ExistsBijection(1..n, S)
    BY FS!FS_CardinalityType
<1>2. PICK g \in FS!Bijection(1..n, S) : TRUE
    BY <1>1 DEF FS!ExistsBijection
<1>3. Good(g)
    BY <1>2 DEF FS!Bijection, FS!Injection, FS!IsInjective, Overviews!IsInjective
<1>4. Overviews!SetToSeq(S) = CHOOSE f \in [1..n -> S] : Overviews!IsInjective(f)
    BY DEF Overviews!SetToSeq, Overviews!Cardinality, FS!Cardinality
<1> DEFINE q == Overviews!SetToSeq(S)
<1>5. Good(q)
    BY <1>3, <1>4
<1>6. FS!IsFiniteSet(1..n) /\ FS!Cardinality(1..n) = n
    BY <1>1, FS!FS_Interval
<1>7. q \in FS!Injection(1..n, S)
    BY <1>5 DEF FS!Injection, FS!IsInjective, Overviews!IsInjective
<1>8. q \in FS!Surjection(1..n, S)
    BY <1>6, <1>7, FS!FS_Injection
<1>9. q \in Seq(S) /\ DOMAIN q = 1..n
    BY <1>1, <1>5
<1>10. \A x \in S : \E i \in 1..n : q[i] = x
    BY <1>8 DEF FS!Surjection
<1>11. \A i, j \in 1..n : q[i] = q[j] => i = j
    BY <1>5 DEF Overviews!IsInjective
<1> HIDE DEF q, n
<1> QED BY <1>9, <1>10, <1>11 DEF q

\* The sources have names.
LEMMA SourceNames ==
  /\ Overviews!Sources = <<"waiting", "exit", "Failed", "Pending", "NotReady">>
  /\ {Overviews!Sources[i] : i \in 1..5} = {"waiting", "exit", "Failed", "Pending", "NotReady"}
BY DEF Overviews!Sources

\* What one query says of the pods can be counted.
LEMMA FiniteSamples ==
  ASSUME s1 \in Overviewed, NEW q \in {"waiting", "exit", "Failed", "Pending", "NotReady"}
  PROVE  FS!IsFiniteSet(Overviews!Samples(q))
<1> DEFINE Ids == DOMAIN s1.pods
           Names == PodContainers
<1>1. FS!IsFiniteSet(Ids) /\ FS!IsFiniteSet(Names)
    BY MCSeenPods DEF Overviews!OverviewAssumption, FS!IsFiniteSet, Overviews!IsFiniteSet
<1>2. FS!IsFiniteSet(Ids \X Names)
    BY <1>1, FS!FS_Product
<1>3. ASSUME NEW reasons, NEW D \in SUBSET (Ids \X Names)
      PROVE  FS!IsFiniteSet({<<x[1], x[2], reasons[x[1]][x[2]]>> : x \in D})
  <2> DEFINE f == [x \in D |-> <<x[1], x[2], reasons[x[1]][x[2]]>>]
  <2>1. FS!IsFiniteSet(D)
      BY <1>2, FS!FS_Subset
  <2>2. DOMAIN f = D /\ f \in [D -> {f[x] : x \in D}]
      OBVIOUS
  <2>3. {f[x] : x \in D} = {<<x[1], x[2], reasons[x[1]][x[2]]>> : x \in D}
      OBVIOUS
  <2> HIDE DEF f
  <2>4. FS!IsFiniteSet({f[x] : x \in D})
      BY <2>1, <2>2, FiniteImage
  <2> QED BY <2>3, <2>4
<1>4. ASSUME NEW D \in SUBSET Ids
      PROVE  FS!IsFiniteSet({<<p, PodItself, q>> : p \in D})
  <2> DEFINE f == [p \in D |-> <<p, PodItself, q>>]
  <2>1. FS!IsFiniteSet(D)
      BY <1>1, FS!FS_Subset
  <2>2. DOMAIN f = D /\ f \in [D -> {f[x] : x \in D}]
      OBVIOUS
  <2>3. {f[x] : x \in D} = {<<p, PodItself, q>> : p \in D}
      OBVIOUS
  <2> HIDE DEF f
  <2>4. FS!IsFiniteSet({f[x] : x \in D})
      BY <2>1, <2>2, FiniteImage
  <2> QED BY <2>3, <2>4
<1>5. CASE q = "waiting"
  <2> DEFINE D == {y \in Ids \X Names : s1.pods[y[1]].waiting[y[2]] \notin Overviews!Starting}
             reasons == [p \in Ids |-> s1.pods[p].waiting]
  <2>1. Overviews!Samples(q) = {<<x[1], x[2], s1.pods[x[1]].waiting[x[2]]>> : x \in D}
      BY <1>5 DEF Overviews!Samples, Overviews!OfContainers, Overviews!Ids
  <2>2. Overviews!Samples(q) = {<<x[1], x[2], reasons[x[1]][x[2]]>> : x \in D}
      BY <2>1
  <2>3. D \in SUBSET (Ids \X Names)
      OBVIOUS
  <2> HIDE DEF D, reasons, Ids, Names
  <2>4. FS!IsFiniteSet({<<x[1], x[2], reasons[x[1]][x[2]]>> : x \in D})
      BY <1>3, <2>3
  <2> QED BY <2>2, <2>4
<1>6. CASE q = "exit"
  <2> DEFINE D == {y \in Ids \X Names : s1.pods[y[1]].exit[y[2]] \notin {Overviews!Unset, "Completed"}}
             reasons == [p \in Ids |-> s1.pods[p].exit]
  <2>1. Overviews!Samples(q) = {<<x[1], x[2], s1.pods[x[1]].exit[x[2]]>> : x \in D}
      BY <1>6 DEF Overviews!Samples, Overviews!OfContainers, Overviews!Ids
  <2>2. Overviews!Samples(q) = {<<x[1], x[2], reasons[x[1]][x[2]]>> : x \in D}
      BY <2>1
  <2>3. D \in SUBSET (Ids \X Names)
      OBVIOUS
  <2> HIDE DEF D, reasons, Ids, Names
  <2>4. FS!IsFiniteSet({<<x[1], x[2], reasons[x[1]][x[2]]>> : x \in D})
      BY <1>3, <2>3
  <2> QED BY <2>2, <2>4
<1>7. CASE q = "NotReady"
    BY <1>4, <1>7 DEF Overviews!Samples, Overviews!OfPods, Overviews!Ids
<1>8. CASE q \in {"Failed", "Pending"}
    BY <1>4, <1>8 DEF Overviews!Samples, Overviews!OfPods, Overviews!Ids
<1> QED BY <1>5, <1>6, <1>7, <1>8

\* The last of some places: what a fold from the left takes off.
Latest(m) == CHOOSE x \in m : \A y \in m : x >= y

LEMMA LatestIs ==
  ASSUME NEW n \in Nat, NEW m \in SUBSET (1..n), m # {}
  PROVE  Latest(m) \in m /\ \A y \in m : Latest(m) >= y
<1> DEFINE I == {n - x : x \in m}
<1>1. I \in SUBSET Nat /\ I # {}
  <2>1. \A x \in m : n - x \in Nat
      OBVIOUS
  <2> QED BY <2>1
<1>2. PICK d \in I : \A e \in I : d <= e
    BY <1>1, Smallest
<1>3. PICK x \in m : d = n - x
    BY <1>2
<1>4. \A y \in m : n - x <= n - y
    BY <1>2, <1>3
<1>5. \A y \in m : x >= y
    BY <1>4
<1> QED BY <1>5 DEF Latest

LEMMA LatestOfAll ==
  ASSUME NEW k \in Nat \ {0}
  PROVE  Latest(1..k) = k /\ (1..k) \ {k} = 1..(k - 1)
<1>1. k \in 1..k /\ \A y \in 1..k : k >= y
    OBVIOUS
<1>2. Latest(1..k) \in 1..k /\ Latest(1..k) >= k
    BY <1>1, LatestIs
<1> QED BY <1>2

\* A fold of n places from the left is a function of the places folded.
Folds(n, base, o, g) ==
  \A m \in SUBSET (1..n) :
    g[m] = IF m = {} THEN base ELSE o[<<Latest(m), g[m \ {Latest(m)}]>>]

\* There is one, whatever is folded.
LEMMA FoldExists ==
  ASSUME NEW n \in Nat, NEW B, NEW base \in B, NEW o \in [(1..n) \X B -> B]
  PROVE  \E g \in [SUBSET (1..n) -> B] : Folds(n, base, o, g)
<1> DEFINE Good(k) == \E g \in [SUBSET (1..k) -> B] : Folds(k, base, o, g)
           I == {k \in 0..n : ~Good(k)}
<1>1. Good(0)
  <2> DEFINE g == [m \in SUBSET (1..0) |-> base]
  <2>1. \A m \in SUBSET (1..0) : m = {}
      OBVIOUS
  <2>2. g \in [SUBSET (1..0) -> B] /\ \A m \in SUBSET (1..0) : g[m] = base
      OBVIOUS
  <2> HIDE DEF g
  <2> QED BY <2>1, <2>2 DEF Folds
<1>2. ASSUME NEW k \in 0..(n - 1), Good(k) PROVE Good(k + 1)
  <2>1. PICK g \in [SUBSET (1..k) -> B] : Folds(k, base, o, g)
      BY <1>2
  <2>0. k \in Nat /\ k + 1 \in Nat /\ k + 1 <= n
      OBVIOUS
  <2> DEFINE h == [m \in SUBSET (1..(k + 1)) |->
                     IF m = {} THEN base ELSE o[<<Latest(m), g[m \ {Latest(m)}]>>]]
  <2>2. ASSUME NEW m \in SUBSET (1..(k + 1)), m # {}
        PROVE  Latest(m) \in 1..n /\ m \ {Latest(m)} \in SUBSET (1..k)
    <3>1. Latest(m) \in m /\ \A y \in m : Latest(m) >= y
        BY <2>0, <2>2, LatestIs
    <3>2. m \subseteq 1..(k + 1) /\ Latest(m) \in 1..(k + 1)
        BY <3>1
    <3>3. ASSUME NEW y \in m \ {Latest(m)} PROVE y \in 1..k
        BY <2>0, <3>1, <3>2, <3>3
    <3>4. m \ {Latest(m)} \in SUBSET (1..k)
        BY <3>3
    <3>5. Latest(m) \in 1..n
        BY <2>0, <3>2
    <3> QED BY <3>4, <3>5
  <2>3. ASSUME NEW m \in SUBSET (1..(k + 1)), m # {}
        PROVE  o[<<Latest(m), g[m \ {Latest(m)}]>>] \in B
    <3>1. <<Latest(m), g[m \ {Latest(m)}]>> \in (1..n) \X B
        BY <2>1, <2>2, <2>3
    <3> QED BY <3>1
  <2>4. h \in [SUBSET (1..(k + 1)) -> B]
      BY <2>3
  <2>5. \A m \in SUBSET (1..(k + 1)) :
          h[m] = IF m = {} THEN base ELSE o[<<Latest(m), g[m \ {Latest(m)}]>>]
      OBVIOUS
  <2>6. ASSUME NEW m \in SUBSET (1..k) PROVE h[m] = g[m]
    <3>1. m \in SUBSET (1..(k + 1))
        OBVIOUS
    <3> QED BY <2>1, <2>5, <3>1 DEF Folds
  <2> HIDE DEF h
  <2>7. ASSUME NEW m \in SUBSET (1..(k + 1))
        PROVE  h[m] = IF m = {} THEN base ELSE o[<<Latest(m), h[m \ {Latest(m)}]>>]
      BY <2>2, <2>5, <2>6
  <2>8. Folds(k + 1, base, o, h)
      BY <2>7 DEF Folds
  <2> QED BY <2>4, <2>8
<1> HIDE DEF Good
<1>3. ASSUME I # {} PROVE FALSE
  <2>1. I \in SUBSET Nat
      OBVIOUS
  <2>2. PICK k \in I : \A y \in I : k <= y
      BY <1>3, <2>1, Smallest
  <2>3. k # 0 /\ k \in 0..n
      BY <1>1, <2>2
  <2>4. k - 1 \in 0..(n - 1) /\ k - 1 \notin I
      BY <2>2, <2>3
  <2>5. Good(k - 1)
      BY <2>4
  <2>6. Good((k - 1) + 1)
      BY <1>2, <2>4, <2>5
  <2>7. (k - 1) + 1 = k
      BY <2>3
  <2> QED BY <2>2, <2>6, <2>7
<1>4. Good(n)
    BY <1>3
<1> QED BY <1>4 DEF Good

\* What holds before the first place, and at a place if at the one before, holds
\* at the last.
LEMMA FoldReaches ==
  ASSUME NEW n \in Nat, NEW it, NEW J, it[{}] \in J[0],
         \A k \in 1..n : it[1..(k - 1)] \in J[k - 1] => it[1..k] \in J[k]
  PROVE  it[1..n] \in J[n]
<1> DEFINE I == {k \in 0..n : it[1..k] \notin J[k]}
<1>1. 0 \notin I
  <2>1. 1..0 = {}
      OBVIOUS
  <2> QED BY <2>1
<1>2. ASSUME I # {} PROVE FALSE
  <2>1. I \in SUBSET Nat
      OBVIOUS
  <2>2. PICK k \in I : \A y \in I : k <= y
      BY <1>2, <2>1, Smallest
  <2>3. k \in 1..n /\ k - 1 \in 0..n
      BY <1>1, <2>2
  <2>4. k - 1 \notin I
      BY <2>2, <2>3
  <2> QED BY <2>2, <2>3, <2>4
<1> QED BY <1>2

\* The rank of a source is its place.
LEMMA Ranks ==
  /\ Overviews!Rank("waiting") = 1 /\ Overviews!Rank("exit") = 2 /\ Overviews!Rank("Failed") = 3
  /\ Overviews!Rank("Pending") = 4 /\ Overviews!Rank("NotReady") = 5
<1> DEFINE S == Overviews!Sources
<1>1. S[1] = "waiting" /\ S[2] = "exit" /\ S[3] = "Failed" /\ S[4] = "Pending" /\ S[5] = "NotReady"
    BY DEF Overviews!Sources
<1>2. 1..5 = {1, 2, 3, 4, 5}
    OBVIOUS
<1> HIDE DEF S
<1>3. \A i \in 1..5 : \A j \in 1..5 : S[i] = S[j] => i = j
    BY <1>1, <1>2
<1>4. \A i \in 1..5 : Overviews!Rank(S[i]) = i
    BY <1>3 DEF Overviews!Rank, S
<1> QED BY <1>1, <1>4

Same(f, g) == f.pod = g.pod /\ f.container = g.container

\* What a finding of each rank says.
Says(f) ==
  /\ f = [pod |-> f.pod, container |-> f.container, reason |-> f.reason, exit |-> Overviews!Unset, rank |-> f.rank]
  /\ f.pod \in DOMAIN s1.pods /\ f.rank \in 1..5
  /\ f.rank <= 2 => f.container \in PodContainers
  /\ f.rank > 2 => f.container = PodItself
  /\ f.rank = 1 => f.reason = s1.pods[f.pod].waiting[f.container] /\ f.reason \notin Overviews!Starting
  /\ f.rank = 2 => f.reason = s1.pods[f.pod].exit[f.container] /\ f.reason \notin {Overviews!Unset, "Completed"}
  /\ f.rank = 3 => f.reason = "Failed" /\ s1.pods[f.pod].phase = "Failed"
  /\ f.rank = 4 => f.reason = "Pending" /\ s1.pods[f.pod].phase = "Pending"
  /\ f.rank = 5 => f.reason = "NotReady" /\ ~s1.pods[f.pod].ready

\* What the queries answer.
LEMMA SamplesAre ==
  /\ Overviews!Samples("waiting") =
       {<<x[1], x[2], s1.pods[x[1]].waiting[x[2]]>> :
          x \in {y \in (DOMAIN s1.pods) \X PodContainers :
                   s1.pods[y[1]].waiting[y[2]] \notin Overviews!Starting}}
  /\ Overviews!Samples("exit") =
       {<<x[1], x[2], s1.pods[x[1]].exit[x[2]]>> :
          x \in {y \in (DOMAIN s1.pods) \X PodContainers :
                   s1.pods[y[1]].exit[y[2]] \notin {Overviews!Unset, "Completed"}}}
  /\ Overviews!Samples("Failed") =
       {<<p, PodItself, "Failed">> : p \in {x \in DOMAIN s1.pods : s1.pods[x].phase = "Failed"}}
  /\ Overviews!Samples("Pending") =
       {<<p, PodItself, "Pending">> : p \in {x \in DOMAIN s1.pods : s1.pods[x].phase = "Pending"}}
  /\ Overviews!Samples("NotReady") =
       {<<p, PodItself, "NotReady">> : p \in {x \in DOMAIN s1.pods : ~s1.pods[x].ready}}
BY DEF Overviews!Samples, Overviews!OfContainers, Overviews!OfPods, Overviews!Ids

\* A finding says what is so of its pod, and all that is wrong is a finding.
LEMMA FindingsAre == \A f : f \in Overviews!Findings <=> Says(f) 
<1> DEFINE F(q) == {Overviews!Finding(x, q) : x \in Overviews!Samples(q)}
<1>1. Overviews!Findings = F("waiting") \cup F("exit") \cup F("Failed") \cup F("Pending") \cup F("NotReady")
  <2>1. 1..5 = {1, 2, 3, 4, 5}
      OBVIOUS
  <2> QED BY <2>1 DEF Overviews!Findings, Overviews!Sources
<1>2. ASSUME NEW f PROVE f \in F("waiting") <=> Says(f) /\ f.rank = 1
  <2>1. ASSUME f \in F("waiting") PROVE Says(f) /\ f.rank = 1
    <3>1. PICK x \in Overviews!Samples("waiting") : f = Overviews!Finding(x, "waiting")
        BY <2>1
    <3>2. PICK y \in (DOMAIN s1.pods) \X PodContainers :
            /\ x = <<y[1], y[2], s1.pods[y[1]].waiting[y[2]]>>
            /\ s1.pods[y[1]].waiting[y[2]] \notin Overviews!Starting
        BY SamplesAre
    <3>3. /\ f = [pod |-> y[1], container |-> y[2], reason |-> s1.pods[y[1]].waiting[y[2]], exit |-> Overviews!Unset,
                 rank |-> 1]
          /\ y[1] \in DOMAIN s1.pods /\ y[2] \in PodContainers
        BY <3>1, <3>2, Ranks DEF Overviews!Finding
    <3> QED BY <3>2, <3>3 DEF Says
  <2>2. ASSUME Says(f), f.rank = 1 PROVE f \in F("waiting")
    <3> DEFINE y == <<f.pod, f.container>>
               x == <<f.pod, f.container, s1.pods[f.pod].waiting[f.container]>>
    <3>1. y \in (DOMAIN s1.pods) \X PodContainers /\ s1.pods[y[1]].waiting[y[2]] \notin Overviews!Starting
        BY <2>2 DEF Says
    <3>2. x = <<y[1], y[2], s1.pods[y[1]].waiting[y[2]]>>
        OBVIOUS
    <3>3. x \in Overviews!Samples("waiting")
        BY <3>1, <3>2, SamplesAre
    <3>4. f = Overviews!Finding(x, "waiting")
        BY <2>2, Ranks DEF Overviews!Finding, Says
    <3> QED BY <3>3, <3>4
  <2> QED BY <2>1, <2>2
<1>3. ASSUME NEW f PROVE f \in F("exit") <=> Says(f) /\ f.rank = 2
  <2>1. ASSUME f \in F("exit") PROVE Says(f) /\ f.rank = 2
    <3>1. PICK x \in Overviews!Samples("exit") : f = Overviews!Finding(x, "exit")
        BY <2>1
    <3>2. PICK y \in (DOMAIN s1.pods) \X PodContainers :
            /\ x = <<y[1], y[2], s1.pods[y[1]].exit[y[2]]>>
            /\ s1.pods[y[1]].exit[y[2]] \notin {Overviews!Unset, "Completed"}
        BY SamplesAre
    <3>3. /\ f = [pod |-> y[1], container |-> y[2], reason |-> s1.pods[y[1]].exit[y[2]], exit |-> Overviews!Unset,
                 rank |-> 2]
          /\ y[1] \in DOMAIN s1.pods /\ y[2] \in PodContainers
        BY <3>1, <3>2, Ranks DEF Overviews!Finding
    <3> QED BY <3>2, <3>3 DEF Says
  <2>2. ASSUME Says(f), f.rank = 2 PROVE f \in F("exit")
    <3> DEFINE y == <<f.pod, f.container>>
               x == <<f.pod, f.container, s1.pods[f.pod].exit[f.container]>>
    <3>1. y \in (DOMAIN s1.pods) \X PodContainers /\ s1.pods[y[1]].exit[y[2]] \notin {Overviews!Unset, "Completed"}
        BY <2>2 DEF Says
    <3>2. x = <<y[1], y[2], s1.pods[y[1]].exit[y[2]]>>
        OBVIOUS
    <3>3. x \in Overviews!Samples("exit")
        BY <3>1, <3>2, SamplesAre
    <3>4. f = Overviews!Finding(x, "exit")
        BY <2>2, Ranks DEF Overviews!Finding, Says
    <3> QED BY <3>3, <3>4
  <2> QED BY <2>1, <2>2
<1>4. ASSUME NEW f PROVE f \in F("Failed") <=> Says(f) /\ f.rank = 3
  <2>1. ASSUME f \in F("Failed") PROVE Says(f) /\ f.rank = 3
    <3>1. PICK x \in Overviews!Samples("Failed") : f = Overviews!Finding(x, "Failed")
        BY <2>1
    <3>2. PICK p \in DOMAIN s1.pods : x = <<p, PodItself, "Failed">> /\ s1.pods[p].phase = "Failed"
        BY SamplesAre
    <3>3. f = [pod |-> p, container |-> PodItself, reason |-> "Failed", exit |-> Overviews!Unset, rank |-> 3]
        BY <3>1, <3>2, Ranks DEF Overviews!Finding
    <3> QED BY <3>2, <3>3 DEF Says
  <2>2. ASSUME Says(f), f.rank = 3 PROVE f \in F("Failed")
    <3>1. <<f.pod, PodItself, "Failed">> \in Overviews!Samples("Failed")
        BY <2>2, SamplesAre DEF Says
    <3>2. f = Overviews!Finding(<<f.pod, PodItself, "Failed">>, "Failed")
        BY <2>2, Ranks DEF Overviews!Finding, Says
    <3> QED BY <3>1, <3>2
  <2> QED BY <2>1, <2>2
<1>5. ASSUME NEW f PROVE f \in F("Pending") <=> Says(f) /\ f.rank = 4
  <2>1. ASSUME f \in F("Pending") PROVE Says(f) /\ f.rank = 4
    <3>1. PICK x \in Overviews!Samples("Pending") : f = Overviews!Finding(x, "Pending")
        BY <2>1
    <3>2. PICK p \in DOMAIN s1.pods : x = <<p, PodItself, "Pending">> /\ s1.pods[p].phase = "Pending"
        BY SamplesAre
    <3>3. f = [pod |-> p, container |-> PodItself, reason |-> "Pending", exit |-> Overviews!Unset, rank |-> 4]
        BY <3>1, <3>2, Ranks DEF Overviews!Finding
    <3> QED BY <3>2, <3>3 DEF Says
  <2>2. ASSUME Says(f), f.rank = 4 PROVE f \in F("Pending")
    <3>1. <<f.pod, PodItself, "Pending">> \in Overviews!Samples("Pending")
        BY <2>2, SamplesAre DEF Says
    <3>2. f = Overviews!Finding(<<f.pod, PodItself, "Pending">>, "Pending")
        BY <2>2, Ranks DEF Overviews!Finding, Says
    <3> QED BY <3>1, <3>2
  <2> QED BY <2>1, <2>2
<1>6. ASSUME NEW f PROVE f \in F("NotReady") <=> Says(f) /\ f.rank = 5
  <2>1. ASSUME f \in F("NotReady") PROVE Says(f) /\ f.rank = 5
    <3>1. PICK x \in Overviews!Samples("NotReady") : f = Overviews!Finding(x, "NotReady")
        BY <2>1
    <3>2. PICK p \in DOMAIN s1.pods : x = <<p, PodItself, "NotReady">> /\ ~s1.pods[p].ready
        BY SamplesAre
    <3>3. f = [pod |-> p, container |-> PodItself, reason |-> "NotReady", exit |-> Overviews!Unset, rank |-> 5]
        BY <3>1, <3>2, Ranks DEF Overviews!Finding
    <3> QED BY <3>2, <3>3 DEF Says
  <2>2. ASSUME Says(f), f.rank = 5 PROVE f \in F("NotReady")
    <3>1. <<f.pod, PodItself, "NotReady">> \in Overviews!Samples("NotReady")
        BY <2>2, SamplesAre DEF Says
    <3>2. f = Overviews!Finding(<<f.pod, PodItself, "NotReady">>, "NotReady")
        BY <2>2, Ranks DEF Overviews!Finding, Says
    <3> QED BY <3>1, <3>2
  <2> QED BY <2>1, <2>2
<1> HIDE DEF F
<1> SUFFICES ASSUME NEW f PROVE f \in Overviews!Findings <=> Says(f)
    OBVIOUS
<1>7. Says(f) => f.rank = 1 \/ f.rank = 2 \/ f.rank = 3 \/ f.rank = 4 \/ f.rank = 5
    BY DEF Says
<1>8. f \in Overviews!Findings
        <=> \/ f \in F("waiting") \/ f \in F("exit") \/ f \in F("Failed") \/ f \in F("Pending")
            \/ f \in F("NotReady")
    BY <1>1
<1> QED BY <1>2, <1>3, <1>4, <1>5, <1>6, <1>7, <1>8

\* Of some findings: the last exit beside one, those of the lowest rank of each
\* container or pod, and what a reader is to see of them.
Beside(R, f) ==
  IF f.rank = 1 /\ \E g \in R : Same(f, g) /\ g.rank = 2
  THEN s1.pods[f.pod].exit[f.container] ELSE Overviews!Unset
Ahead(R) == {f \in R : \A g \in R : Same(f, g) => f.rank <= g.rank}
Seen(R, f) == [f EXCEPT !.exit = Beside(R, f)]
Retained(R) == {Seen(R, f) : f \in Ahead(R)}

\* Two findings of one rank about one container or pod are one.
LEMMA OneOfARank ==
  ASSUME NEW f, Says(f), NEW g, Says(g), Same(f, g), f.rank = g.rank
  PROVE  f = g
<1>1. f.reason = g.reason
    BY DEF Says, Same
<1> QED BY <1>1 DEF Says, Same

\* What is seen of a finding is the finding but for the exit.
LEMMA SeenIs ==
  ASSUME NEW f, Says(f), NEW R
  PROVE  /\ Seen(R, f) = [pod |-> f.pod, container |-> f.container, reason |-> f.reason,
                          exit |-> Beside(R, f), rank |-> f.rank]
         /\ Same(Seen(R, f), f) /\ Same(f, Seen(R, f)) /\ Seen(R, f).rank = f.rank
         /\ Beside(R, f) = Overviews!Unset => Seen(R, f) = f
<1> DEFINE x == Beside(R, f)
<1> HIDE DEF x
<1>1. [f EXCEPT !.exit = x] = [pod |-> f.pod, container |-> f.container, reason |-> f.reason,
                          exit |-> x, rank |-> f.rank]
    BY DEF Says
<1>2. Seen(R, f) = [pod |-> f.pod, container |-> f.container, reason |-> f.reason,
                          exit |-> x, rank |-> f.rank]
    BY <1>1 DEF Seen, x
<1>3. x = Overviews!Unset => Seen(R, f) = f
    BY <1>2 DEF Says
<1>4. Same(Seen(R, f), f) /\ Same(f, Seen(R, f)) /\ Seen(R, f).rank = f.rank
    BY <1>2 DEF Same
<1> QED BY <1>2, <1>3, <1>4 DEF x

\* Each finding has one ahead of it, and only one is.
LEMMA SomeAhead ==
  ASSUME NEW R, \A f \in R : Says(f), NEW f \in R
  PROVE  \E g \in Ahead(R) : Same(f, g) /\ g.rank <= f.rank
<1> DEFINE mine == {g \in R : Same(f, g)}
           I == {g.rank : g \in mine}
<1>1. f \in mine
    BY DEF Same
<1>2. I \in SUBSET Nat /\ I # {}
  <2>1. \A g \in mine : g.rank \in Nat
      BY DEF Says
  <2> QED BY <1>1, <2>1
<1>3. PICK n \in I : \A m \in I : n <= m
    BY <1>2, Smallest
<1>4. PICK g \in mine : n = g.rank
    BY <1>3
<1>5. ASSUME NEW h \in R, Same(g, h) PROVE g.rank <= h.rank
  <2>1. h \in mine
      BY <1>4, <1>5 DEF Same
  <2> QED BY <1>3, <1>4, <2>1
<1> QED BY <1>1, <1>3, <1>4, <1>5 DEF Ahead

LEMMA OneAhead ==
  ASSUME NEW R, \A f \in R : Says(f), NEW f \in Ahead(R), NEW g \in Ahead(R), Same(f, g)
  PROVE  f = g
<1>1. f \in R /\ g \in R /\ f.rank <= g.rank /\ g.rank <= f.rank
    BY DEF Ahead, Same
<1>2. f.rank = g.rank
    BY <1>1 DEF Says
<1> QED BY <1>1, <1>2, OneOfARank

\* One more finding leaves what is to be seen of all.
LEMMA BetterKeeps ==
  ASSUME NEW R, \A g \in R : Says(g), NEW f, Says(f)
  PROVE  Overviews!Better(Retained(R), f) = Retained(R \cup {f})
<1> DEFINE S == R \cup {f}
           best == Retained(R)
           same == {b \in best : b.pod = f.pod /\ b.container = f.container}
           rest == best \ same
<1>1. \A g \in S : Says(g)
    OBVIOUS
<1>2. /\ R \subseteq S /\ f \in S /\ Ahead(R) \subseteq R /\ Ahead(S) \subseteq S
      /\ \A g \in S : g \in R \/ g = f
    BY DEF Ahead
<1>4. f.rank \in 1..5 /\ f.exit = Overviews!Unset /\ \A g \in R : g.rank \in 1..5
    BY DEF Says
\* Whatever is not of the container or the pod of the finding stays as it is.
<1>5. ASSUME NEW g \in R, ~Same(g, f)
      PROVE  /\ Beside(S, g) = Beside(R, g) /\ Seen(S, g) = Seen(R, g)
             /\ g \in Ahead(S) <=> g \in Ahead(R)
  <2>1. \A h \in S : Same(g, h) => h \in R
      BY <1>2, <1>5
  <2>2. (\E h \in S : Same(g, h) /\ h.rank = 2) <=> (\E h \in R : Same(g, h) /\ h.rank = 2)
      BY <1>2, <2>1
  <2>3. Beside(S, g) = Beside(R, g)
      BY <2>2 DEF Beside
  <2>4. g \in Ahead(S) <=> g \in Ahead(R)
      BY <1>2, <2>1 DEF Ahead
  <2> QED BY <2>3, <2>4 DEF Seen
<1>6. \A x : x \in rest <=> \E g \in Ahead(R) : ~Same(g, f) /\ x = Seen(R, g)
  <2>1. \A g \in Ahead(R) : Same(Seen(R, g), g) 
      BY <1>2, SeenIs
  <2> QED BY <2>1 DEF Retained, Same
<1>7. \A x : x \in same <=> \E g \in Ahead(R) : Same(g, f) /\ x = Seen(R, g)
  <2>1. \A g \in Ahead(R) : Same(Seen(R, g), g) 
      BY <1>2, SeenIs
  <2> QED BY <2>1 DEF Retained, Same
<1>8. Overviews!Better(best, f) =
        IF same = {} THEN best \cup {f}
        ELSE LET b == CHOOSE x \in same : TRUE
             IN  IF f.rank < b.rank
                 THEN rest \cup {[f EXCEPT !.exit = IF b.rank = 2 THEN b.reason ELSE f.exit]}
                 ELSE IF b.rank = 1 /\ f.rank = 2
                 THEN rest \cup {[b EXCEPT !.exit = f.reason]}
                 ELSE best
    BY Ranks DEF Overviews!Better
<1> HIDE DEF best, same, rest
\* None of its kind was there.
<1>9. CASE same = {}
  <2>1. \A g \in R : ~Same(g, f)
    <3> SUFFICES ASSUME NEW g \in R, Same(g, f) PROVE FALSE
        OBVIOUS
    <3>1. PICK h \in Ahead(R) : Same(g, h)
        BY SomeAhead
    <3>2. Same(h, f)
        BY <3>1 DEF Same
    <3> QED BY <1>7, <1>9, <3>2
  <2>2. f \in Ahead(S)
    <3>1. \A h \in S : Same(f, h) => h = f
        BY <1>2, <2>1 DEF Same
    <3> QED BY <1>2, <1>4, <3>1 DEF Ahead
  <2>3. Beside(S, f) = Overviews!Unset
    <3>1. \A h \in S : Same(f, h) => h = f
        BY <1>2, <2>1 DEF Same
    <3> QED BY <3>1 DEF Beside
  <2>4. Seen(S, f) = f
      BY <2>3, SeenIs
  <2>5. \A x : x \in Retained(S) <=> x \in best \/ x = f
    <3> TAKE x
    <3>1. ASSUME x \in Retained(S) PROVE x \in best \/ x = f
      <4>1. PICK g \in Ahead(S) : x = Seen(S, g)
          BY <3>1 DEF Retained
      <4> QED BY <1>2, <1>5, <2>1, <2>4, <4>1 DEF Retained, best
    <3>2. ASSUME x \in best PROVE x \in Retained(S)
      <4>1. PICK g \in Ahead(R) : x = Seen(R, g)
          BY <3>2 DEF Retained, best
      <4> QED BY <1>2, <1>5, <2>1, <4>1 DEF Retained
    <3>3. ASSUME x = f PROVE x \in Retained(S)
        BY <2>2, <2>4, <3>3 DEF Retained
    <3> QED BY <3>1, <3>2, <3>3
  <2>6. Retained(S) = best \cup {f}
      BY <2>5
  <2> QED BY <1>8, <1>9, <2>6 DEF best
\* One was.
<1>10. CASE same # {}
  <2> DEFINE b == CHOOSE x \in same : TRUE
  <2>1. b \in same
      BY <1>10
  <2>2. PICK g \in Ahead(R) : Same(g, f) /\ b = Seen(R, g)
      BY <1>7, <2>1
  <2> HIDE DEF b
  <2>3. /\ g \in R /\ Says(g) /\ g.rank \in 1..5 /\ b.rank = g.rank /\ b.reason = g.reason
        /\ Same(f, g)
      BY <1>2, <1>4, <2>2, SeenIs DEF Same
  <2>4. \A h \in Ahead(R) : Same(h, f) => h = g
    <3> SUFFICES ASSUME NEW h \in Ahead(R), Same(h, f) PROVE h = g
        OBVIOUS
    <3>1. Same(h, g)
        BY <2>2 DEF Same
    <3> QED BY <3>1, OneAhead
  <2>5. \A x : x \in best <=> x \in rest \/ x = b
    <3>1. \A x : x \in best <=> \E h \in Ahead(R) : x = Seen(R, h)
        BY DEF best, Retained
    <3> QED BY <1>6, <2>2, <2>4, <3>1
  <2>6. \A h \in R : Same(f, h) => g.rank <= h.rank
    <3> SUFFICES ASSUME NEW h \in R, Same(f, h) PROVE g.rank <= h.rank
        OBVIOUS
    <3>1. Same(g, h)
        BY <2>2 DEF Same
    <3> QED BY <2>2, <3>1 DEF Ahead
  \* What is to be seen now is the rest and one more.
  <2>7. ASSUME NEW m \in S, Same(f, m), \A h \in S : Same(f, h) => m.rank <= h.rank
        PROVE  Retained(S) = rest \cup {Seen(S, m)}
    <3>1. m \in Ahead(S)
      <4>1. \A h \in S : Same(m, h) => Same(f, h)
          BY <2>7 DEF Same
      <4> QED BY <2>7, <4>1 DEF Ahead
    <3>2. \A h \in Ahead(S) : Same(h, f) => h = m
      <4> SUFFICES ASSUME NEW h \in Ahead(S), Same(h, f) PROVE h = m
          OBVIOUS
      <4>1. Same(h, m)
          BY <2>7 DEF Same
      <4> QED BY <1>1, <3>1, <4>1, OneAhead
    <3>3. ASSUME NEW x PROVE x \in Retained(S) <=> x \in rest \/ x = Seen(S, m)
      <4>1. ASSUME x \in Retained(S) PROVE x \in rest \/ x = Seen(S, m)
        <5>1. PICK h \in Ahead(S) : x = Seen(S, h)
            BY <4>1 DEF Retained
        <5>2. CASE Same(h, f)
            BY <3>2, <5>1, <5>2
        <5>3. CASE ~Same(h, f)
          <6>1. h \in R
              BY <1>2, <5>3 DEF Same
          <6> QED BY <1>5, <1>6, <5>1, <5>3, <6>1
        <5> QED BY <5>2, <5>3
      <4>2. ASSUME x \in rest PROVE x \in Retained(S)
        <5>1. PICK h \in Ahead(R) : ~Same(h, f) /\ x = Seen(R, h)
            BY <1>6, <4>2
        <5> QED BY <1>2, <1>5, <5>1 DEF Retained
      <4>3. ASSUME x = Seen(S, m) PROVE x \in Retained(S)
          BY <3>1, <4>3 DEF Retained
      <4> QED BY <4>1, <4>2, <4>3
    <3> QED BY <3>3
  <2>8. CASE f.rank < g.rank
    <3>1. \A h \in S : Same(f, h) => f.rank <= h.rank
        BY <1>2, <1>4, <2>3, <2>6, <2>8
    <3>2. Same(f, f)
        BY DEF Same
    <3>3. Retained(S) = rest \cup {Seen(S, f)}
        BY <1>2, <2>7, <3>1, <3>2
    <3>4. Beside(S, f) = IF b.rank = 2 THEN b.reason ELSE f.exit
      <4>1. CASE g.rank = 2
        <5>1. f.rank = 1
            BY <1>4, <2>8, <4>1
        <5>2. b.reason = s1.pods[f.pod].exit[f.container] /\ b.rank = 2
            BY <2>3, <4>1 DEF Says, Same
        <5>3. \E h \in S : Same(f, h) /\ h.rank = 2
            BY <1>2, <2>3, <4>1
        <5> QED BY <5>1, <5>2, <5>3 DEF Beside
      <4>2. CASE g.rank # 2
        <5>1. \A h \in S : Same(f, h) /\ h.rank = 2 => f.rank # 1
          <6> SUFFICES ASSUME NEW h \in S, Same(f, h), h.rank = 2, f.rank = 1 PROVE FALSE
              OBVIOUS
          <6>1. h \in R
              BY <1>2
          <6>2. g.rank < 2
              BY <2>3, <2>6, <4>2, <6>1
          <6> QED BY <1>4, <2>3, <2>8, <6>2
        <5> QED BY <1>4, <2>3, <4>2, <5>1 DEF Beside
      <4> QED BY <4>1, <4>2
    <3>5. Overviews!Better(best, f) = rest \cup {[f EXCEPT !.exit = IF b.rank = 2 THEN b.reason ELSE f.exit]}
        BY <1>8, <1>10, <2>3, <2>8 DEF b
    <3> QED BY <3>3, <3>4, <3>5 DEF Seen, best
  <2>9. CASE ~(f.rank < g.rank)
    <3>1. \A h \in S : Same(f, h) => g.rank <= h.rank
        BY <1>2, <1>4, <2>3, <2>6, <2>9
    <3>2. Retained(S) = rest \cup {Seen(S, g)}
        BY <1>2, <2>3, <2>7, <3>1
    <3>3. CASE g.rank = 1 /\ f.rank = 2
      <4>1. Overviews!Better(best, f) = rest \cup {[b EXCEPT !.exit = f.reason]}
          BY <1>8, <1>10, <2>3, <2>9, <3>3 DEF b
      <4>2. Beside(S, g) = s1.pods[g.pod].exit[g.container]
        <5>1. \E h \in S : Same(g, h) /\ h.rank = 2
            BY <1>2, <2>2, <3>3
        <5> QED BY <3>3, <5>1 DEF Beside
      <4>3. Beside(S, g) = f.reason
          BY <2>3, <3>3, <4>2 DEF Says, Same
      <4>4. [b EXCEPT !.exit = f.reason] = Seen(S, g)
        <5>1. b = [pod |-> g.pod, container |-> g.container, reason |-> g.reason,
                   exit |-> Beside(R, g), rank |-> g.rank]
            BY <2>2, <2>3, SeenIs
        <5>2. Seen(S, g) = [pod |-> g.pod, container |-> g.container, reason |-> g.reason,
                            exit |-> f.reason, rank |-> g.rank]
            BY <2>3, <4>3, SeenIs
        <5> QED BY <5>1, <5>2
      <4> QED BY <3>2, <4>1, <4>4 DEF best
    <3>4. CASE ~(g.rank = 1 /\ f.rank = 2)
      <4>1. Overviews!Better(best, f) = best
          BY <1>8, <1>10, <2>3, <2>9, <3>4 DEF b
      <4>2. Beside(S, g) = Beside(R, g)
        <5>1. g.rank = 1 => ((\E h \in S : Same(g, h) /\ h.rank = 2) <=> (\E h \in R : Same(g, h) /\ h.rank = 2))
            BY <1>2, <3>4
        <5> QED BY <5>1 DEF Beside
      <4>3. Seen(S, g) = b
          BY <2>2, <4>2 DEF Seen
      <4>4. Retained(S) = best
          BY <2>5, <3>2, <4>3
      <4> QED BY <4>1, <4>4 DEF best
    <3> QED BY <3>3, <3>4
  <2> QED BY <2>8, <2>9
<1> QED BY <1>9, <1>10

\* What a pod shows depends on what was found, not on the order.
LEMMA Collapsed ==
  ASSUME NEW q \in Seq(Overviews!Findings), NEW R, R = {q[i] : i \in DOMAIN q}
  PROVE  Overviews!Collapse(q) =
           {f \in Retained(R) : f.container = PodItself =>
                              ~\E g \in Retained(R) : g.pod = f.pod /\ g.container # PodItself}
<1> DEFINE n == Len(q)
           T(k) == {q[i] : i \in 1..k}
           B == {Retained(m) : m \in SUBSET Overviews!Findings}
           o == [x \in (1..n) \X B |-> Overviews!Better(x[2], q[x[1]])]
           Body(it) == [m \in SUBSET (1..n) |->
                          IF m = {} THEN {} ELSE Overviews!Better(it[m \ {Latest(m)}], q[Latest(m)])]
           iter == CHOOSE it : it = Body(it)
           J == [k \in 0..n |-> {Retained(T(k))}]
<1>1. n \in Nat /\ DOMAIN q = 1..n /\ \A i \in 1..n : q[i] \in Overviews!Findings
    OBVIOUS
<1>2. /\ \A f : f \in Overviews!Findings <=> Says(f)
      /\ \A m \in SUBSET Overviews!Findings : \A f \in m : Says(f)
    BY FindingsAre
<1>3. Overviews!Collapse(q) =
           LET best == iter[1..n]
           IN  {f \in best : f.container = PodItself =>
                              ~\E g \in best : g.pod = f.pod /\ g.container # PodItself}
    BY <1>1 DEF Overviews!Collapse, Overviews!FoldLeft, Overviews!MapThenFoldSet,
        Overviews!Max, Latest
<1>4. Retained({}) = {} /\ {} \in B
  <2>1. Retained({}) = {}
      BY DEF Retained, Ahead
  <2> QED BY <2>1
<1>5. ASSUME NEW k \in 1..n, NEW m \in SUBSET Overviews!Findings
      PROVE  Overviews!Better(Retained(m), q[k]) = Retained(m \cup {q[k]}) /\ m \cup {q[k]} \in SUBSET Overviews!Findings
  <2>1. Says(q[k]) /\ q[k] \in Overviews!Findings
      BY <1>1, <1>2
  <2> QED BY <1>2, <2>1, BetterKeeps
<1>6. o \in [(1..n) \X B -> B]
  <2> SUFFICES ASSUME NEW k \in 1..n, NEW b \in B PROVE Overviews!Better(b, q[k]) \in B
      OBVIOUS
  <2>1. PICK m \in SUBSET Overviews!Findings : b = Retained(m)
      OBVIOUS
  <2>2. Overviews!Better(b, q[k]) = Retained(m \cup {q[k]}) /\ m \cup {q[k]} \in SUBSET Overviews!Findings
      BY <1>5, <2>1
  <2> QED BY <2>2
<1>7. \A k \in 1..n, b \in B : o[<<k, b>>] = Overviews!Better(b, q[k])
    OBVIOUS
<1> HIDE DEF B, o
<1>8. PICK g \in [SUBSET (1..n) -> B] : Folds(n, {}, o, g)
    BY <1>1, <1>4, <1>6, FoldExists
<1>9. \A m \in SUBSET (1..n) : m # {} => Latest(m) \in 1..n /\ m \ {Latest(m)} \in SUBSET (1..n)
    BY <1>1, LatestIs
<1>10. g = Body(g)
  <2>1. \A m \in SUBSET (1..n) :
          g[m] = IF m = {} THEN {} ELSE Overviews!Better(g[m \ {Latest(m)}], q[Latest(m)])
      BY <1>7, <1>8, <1>9 DEF Folds
  <2>2. g = [m \in SUBSET (1..n) |-> g[m]]
      BY <1>8
  <2> QED BY <2>1, <2>2
<1> HIDE DEF Body
<1>11. iter = Body(iter)
    BY <1>10
<1> HIDE DEF iter
<1>12. iter[{}] = {}
    BY <1>11 DEF Body
<1>13. ASSUME NEW k \in 1..n PROVE iter[1..k] = Overviews!Better(iter[1..(k - 1)], q[k])
  <2>1. 1..k \in SUBSET (1..n) /\ 1..k # {} /\ k \in Nat \ {0}
      BY <1>1, UpTo
  <2>2. iter[1..k] = Overviews!Better(iter[(1..k) \ {Latest(1..k)}], q[Latest(1..k)])
      BY <1>11, <2>1 DEF Body
  <2>3. Latest(1..k) = k /\ (1..k) \ {k} = 1..(k - 1)
      BY <2>1, LatestOfAll
  <2> QED BY <2>2, <2>3
<1>14. iter[{}] \in J[0]
  <2>1. T(0) = {} /\ 0 \in 0..n
      BY <1>1
  <2> QED BY <1>4, <1>12, <2>1
<1>15. \A k \in 1..n : iter[1..(k - 1)] \in J[k - 1] => iter[1..k] \in J[k]
  <2> SUFFICES ASSUME NEW k \in 1..n, iter[1..(k - 1)] \in J[k - 1] PROVE iter[1..k] \in J[k]
      OBVIOUS
  <2>1. k - 1 \in 0..n /\ k \in 0..n
      BY <1>1
  <2>2. iter[1..(k - 1)] = Retained(T(k - 1))
      BY <2>1
  <2>3. T(k - 1) \in SUBSET Overviews!Findings /\ T(k) = T(k - 1) \cup {q[k]}
    <3>1. 1..k = (1..(k - 1)) \cup {k} /\ 1..(k - 1) \subseteq 1..n
        BY <1>1
    <3> QED BY <1>1, <3>1
  <2>4. iter[1..k] = Retained(T(k))
      BY <1>5, <1>13, <2>2, <2>3
  <2> QED BY <2>1, <2>4
<1> HIDE DEF J
<1>16. iter[1..n] \in J[n]
    BY <1>1, <1>14, <1>15, FoldReaches
<1>17. J[n] = {Retained(T(n))} /\ T(n) = R
    BY <1>1 DEF J
<1> QED BY <1>3, <1>16, <1>17

\* Every answer is put down.
LEMMA ListedStep ==
  ASSUME Overviews!TypeOK, Overviews!Listed,
         NEW q \in {"waiting", "exit", "Failed", "Pending", "NotReady"}, Overviews!Collect(q)
  PROVE  Overviews!Listed'
<1> DEFINE samples == Overviews!Answers("list", q)
           told == [i \in DOMAIN samples |-> Overviews!Finding(samples[i], q)]
           Names == {Overviews!Sources[i] : i \in 1..5}
           Of(x) == {Overviews!Finding(s, x) : s \in Overviews!Samples(x)}
           Asked(w) == {x \in Names \ w : <<"list", x>> \notin s2}
<1>1. s3' = s3 \ {q} /\ s4' = s4 \o told /\ s1' = s1 /\ s2' = s2 /\ q \in s3 /\ q \in Names
    BY SourceNames DEF Overviews!Collect
<1>2. /\ samples \in Seq(Overviews!Samples(q))
      /\ {samples[i] : i \in DOMAIN samples} =
           IF <<"list", q>> \in s2 THEN {} ELSE Overviews!Samples(q)
  <2> DEFINE row == Overviews!SetToSeq(Overviews!Samples(q))
  <2>1. /\ row \in Seq(Overviews!Samples(q))
        /\ \A x \in Overviews!Samples(q) : \E i \in DOMAIN row : row[i] = x
      BY FiniteSamples, InARow DEF Overviews!TypeOK
  <2> HIDE DEF row
  <2>2. samples = IF <<"list", q>> \in s2 THEN << >> ELSE row
      BY DEF Overviews!Answers, row
  <2>3. {row[i] : i \in DOMAIN row} = Overviews!Samples(q)
      BY <2>1
  <2> HIDE DEF samples
  <2> QED BY <2>1, <2>2, <2>3
<1> HIDE DEF samples
<1>3. {told[i] : i \in DOMAIN told} = IF <<"list", q>> \in s2 THEN {} ELSE Of(q)
  <2>1. {told[i] : i \in DOMAIN told} =
          {Overviews!Finding(x, q) : x \in {samples[i] : i \in DOMAIN samples}}
      OBVIOUS
  <2> QED BY <1>2, <2>1
<1>4. told \in Seq({told[i] : i \in DOMAIN told}) /\ s4 \in Seq(Overviews!Findings)
  <2>1. DOMAIN samples = 1..Len(samples) /\ Len(samples) \in Nat
      BY <1>2
  <2> QED BY <2>1 DEF Overviews!TypeOK
<1> HIDE DEF told
<1>5. {s4'[i] : i \in DOMAIN s4'} = {s4[i] : i \in DOMAIN s4} \cup {told[i] : i \in DOMAIN told}
  <2> DEFINE n == Len(s4) 
             m == Len(told)
             both == s4 \o told
  <2>1. /\ n \in Nat /\ m \in Nat /\ DOMAIN s4 = 1..n /\ DOMAIN told = 1..m /\ DOMAIN both = 1..(n + m)
        /\ \A i \in 1..n : both[i] = s4[i]
        /\ \A i \in 1..m : both[n + i] = told[i]
      BY <1>4
  <2> HIDE DEF n, m, both
  <2>2. ASSUME NEW i \in 1..(n + m)
        PROVE  i \in 1..n \/ (i - n \in 1..m /\ i = n + (i - n))
      BY <2>1
  <2>3. \A i \in 1..n : i \in 1..(n + m)
      BY <2>1
  <2>4. \A i \in 1..m : n + i \in 1..(n + m)
      BY <2>1
  <2>5. {both[i] : i \in 1..(n + m)} = {s4[i] : i \in 1..n} \cup {told[i] : i \in 1..m}
    <3>1. ASSUME NEW i \in 1..(n + m)
          PROVE  both[i] \in {s4[j] : j \in 1..n} \cup {told[j] : j \in 1..m}
        BY <2>1, <2>2
    <3>2. ASSUME NEW i \in 1..n PROVE s4[i] \in {both[j] : j \in 1..(n + m)}
        BY <2>1, <2>3
    <3>3. ASSUME NEW i \in 1..m PROVE told[i] \in {both[j] : j \in 1..(n + m)}
        BY <2>1, <2>4
    <3> QED BY <3>1, <3>2, <3>3
  <2> QED BY <1>1, <2>1, <2>5 DEF both
<1>6. Asked(s3 \ {q}) = Asked(s3) \cup (IF <<"list", q>> \in s2 THEN {} ELSE {q})
    BY <1>1
<1>7. {s4[i] : i \in DOMAIN s4} = UNION {Of(x) : x \in Asked(s3)}
    BY DEF Overviews!Listed, Overviews!ToSet
<1>8. {s4'[i] : i \in DOMAIN s4'} = UNION {Of(x) : x \in Asked(s3 \ {q})}
  <2> HIDE DEF Of, Asked
  <2> QED BY <1>3, <1>5, <1>6, <1>7
<1>9. \A x : Overviews!Samples(x)' = Overviews!Samples(x)
    BY <1>1 DEF Overviews!Samples, Overviews!OfContainers, Overviews!OfPods, Overviews!Ids
<1>10. \A x : (Of(x))' = Of(x)
    BY <1>9
<1> HIDE DEF Of
<1>11. (UNION {Of(x) : x \in Asked(s3)})' = UNION {Of(x) : x \in Asked(s3 \ {q})}
    BY <1>1, <1>10
<1>12. Overviews!Listed <=> {s4[i] : i \in DOMAIN s4} = UNION {Of(x) : x \in Asked(s3)}
    BY DEF Overviews!Listed, Overviews!ToSet, Of
<1>13. Overviews!Listed' <=> {s4'[i] : i \in DOMAIN s4'} = (UNION {Of(x) : x \in Asked(s3)})'
    BY DEF Overviews!Listed, Overviews!ToSet, Of
<1> QED BY <1>8, <1>11, <1>13

\* When all answered, what is in the list is all that is wrong.
LEMMA WholeList ==
  ASSUME Overviews!IInv, Overviews!Whole
  PROVE  s4 \in Seq(Overviews!Findings) /\ {s4[i] : i \in DOMAIN s4} = Overviews!Findings
<1>1. s3 = {} /\ s2 = {}
    BY DEF Overviews!Whole, Overviews!Read
<1>2. {x \in {Overviews!Sources[i] : i \in 1..5} \ s3 : <<"list", x>> \notin s2}
        = {Overviews!Sources[i] : i \in 1..5}
    BY <1>1
<1>3. {s4[i] : i \in DOMAIN s4} =
        UNION {{Overviews!Finding(s, q) : s \in Overviews!Samples(q)} : q \in {Overviews!Sources[i] : i \in 1..5}}
    BY <1>2 DEF Overviews!IInv, Overviews!Listed, Overviews!ToSet
<1>4. UNION {{Overviews!Finding(s, q) : s \in Overviews!Samples(q)} : q \in {Overviews!Sources[i] : i \in 1..5}}
        = Overviews!Findings
    BY DEF Overviews!Findings
<1> QED BY <1>3, <1>4 DEF Overviews!IInv, Overviews!TypeOK

\* At first nothing is listed and nothing is to be.
LEMMA ListedInit == Overviews!Init => Overviews!Listed
<1> SUFFICES ASSUME Overviews!Init PROVE Overviews!Listed
    OBVIOUS
<1>1. s3 = {Overviews!Sources[i] : i \in 1..5} /\ s4 = << >>
    BY DEF Overviews!Init
<1>2. {s4[i] : i \in DOMAIN s4} = {}
    BY <1>1
<1>3. {x \in {Overviews!Sources[i] : i \in 1..5} \ s3 : <<"list", x>> \notin s2} = {}
    BY <1>1
<1> QED BY <1>2, <1>3 DEF Overviews!Listed, Overviews!ToSet

\* All that is to be seen once everything is known, and what is left of it.
AllSeen == Retained(Overviews!Findings)
LEMMA ProblemsAre ==
  ASSUME Overviews!IInv, Overviews!Whole
  PROVE  Overviews!Problems =
           {f \in AllSeen : f.container = PodItself => ~\E g \in AllSeen : g.pod = f.pod /\ g.container # PodItself}
BY WholeList, Collapsed DEF Overviews!Problems, AllSeen

\* What a container shows.
Waits(p, c) == s1.pods[p].waiting[c] \notin Overviews!Starting
Exits(p, c) == s1.pods[p].exit[c] \notin {Overviews!Unset, "Completed"}
Shows(p, c) ==
  [pod |-> p, container |-> c,
   reason |-> IF Waits(p, c) THEN s1.pods[p].waiting[c] ELSE s1.pods[p].exit[c],
   exit |-> IF Waits(p, c) /\ Exits(p, c) THEN s1.pods[p].exit[c] ELSE Overviews!Unset,
   rank |-> IF Waits(p, c) THEN 1 ELSE 2]

LEMMA Exist ==
  ASSUME NEW p \in DOMAIN s1.pods
  PROVE  /\ \A c \in PodContainers : Waits(p, c) =>
              [pod |-> p, container |-> c, reason |-> s1.pods[p].waiting[c], exit |-> Overviews!Unset,
               rank |-> 1] \in Overviews!Findings
         /\ \A c \in PodContainers : Exits(p, c) =>
              [pod |-> p, container |-> c, reason |-> s1.pods[p].exit[c], exit |-> Overviews!Unset,
               rank |-> 2] \in Overviews!Findings
BY FindingsAre DEF Waits, Exits, Says

\* Of a container that fails, one thing is seen: what it shows.
LEMMA ContainersSeen ==
  ASSUME NEW x
  PROVE  (x \in AllSeen /\ x.container # PodItself)
           <=> \E p \in DOMAIN s1.pods, c \in PodContainers : (Waits(p, c) \/ Exits(p, c)) /\ x = Shows(p, c)
<1> DEFINE A == Overviews!Findings
<1>0. PodItself \notin PodContainers
    BY MCSeenPods DEF Overviews!OverviewAssumption
<1>1. \A f : f \in A <=> Says(f)
    BY FindingsAre
<1>2. ASSUME NEW f \in Ahead(A), f.container # PodItself
      PROVE  /\ f.pod \in DOMAIN s1.pods /\ f.container \in PodContainers
             /\ Waits(f.pod, f.container) \/ Exits(f.pod, f.container)
             /\ Seen(A, f) = Shows(f.pod, f.container)
  <2>1. f \in A /\ Says(f) /\ f.rank \in {1, 2} /\ f.pod \in DOMAIN s1.pods /\ f.container \in PodContainers
    <3>1. f \in A /\ Says(f)
        BY <1>1 DEF Ahead
    <3>2. f.rank \in 1..5 /\ ~(f.rank > 2)
        BY <1>2, <3>1 DEF Says
    <3> QED BY <3>1, <3>2 DEF Says
  <2> DEFINE p == f.pod
             c == f.container
             w == [pod |-> p, container |-> c, reason |-> s1.pods[p].waiting[c], exit |-> Overviews!Unset,
                   rank |-> 1]
             e == [pod |-> p, container |-> c, reason |-> s1.pods[p].exit[c], exit |-> Overviews!Unset,
                   rank |-> 2]
  <2>2. Waits(p, c) => f.rank = 1
    <3>1. Waits(p, c) => w \in A
        BY <2>1, Exist
    <3>2. w \in A => f.rank <= 1
        BY DEF Ahead, Same
    <3> QED BY <2>1, <3>1, <3>2
  <2>3. f.rank = 1 => Waits(p, c) /\ f.reason = s1.pods[p].waiting[c]
      BY <2>1 DEF Says, Waits
  <2>4. f.rank = 2 => Exits(p, c) /\ f.reason = s1.pods[p].exit[c]
      BY <2>1 DEF Says, Exits
  <2>5. Beside(A, f) = IF Waits(p, c) /\ Exits(p, c) THEN s1.pods[p].exit[c] ELSE Overviews!Unset
    <3>1. (\E g \in A : Same(f, g) /\ g.rank = 2) <=> Exits(p, c)
      <4>1. ASSUME NEW g \in A, Same(f, g), g.rank = 2 PROVE Exits(p, c)
          BY <1>1, <4>1 DEF Says, Same, Exits
      <4>2. ASSUME Exits(p, c) PROVE \E g \in A : Same(f, g) /\ g.rank = 2
        <5>1. e \in A
            BY <2>1, <4>2, Exist
        <5>2. Same(f, e) /\ e.rank = 2
            BY DEF Same
        <5> QED BY <5>1, <5>2
      <4> QED BY <4>1, <4>2
    <3> QED BY <2>2, <2>3, <3>1 DEF Beside
  <2>6. Seen(A, f) = [pod |-> p, container |-> c, reason |-> f.reason, exit |-> Beside(A, f), rank |-> f.rank]
      BY <2>1, SeenIs
  <2>7. CASE f.rank = 1
      BY <2>1, <2>3, <2>5, <2>6, <2>7 DEF Shows
  <2>8. CASE f.rank = 2
    <3>1. ~Waits(p, c)
        BY <2>2, <2>8
    <3> QED BY <2>1, <2>4, <2>5, <2>6, <2>8, <3>1 DEF Shows
  <2> QED BY <2>1, <2>7, <2>8
<1>3. ASSUME NEW f \in Ahead(A) PROVE Seen(A, f).container = f.container /\ Says(f)
    BY <1>1, SeenIs DEF Ahead, Same
<1>4. ASSUME x \in AllSeen, x.container # PodItself
      PROVE  \E p \in DOMAIN s1.pods, c \in PodContainers : (Waits(p, c) \/ Exits(p, c)) /\ x = Shows(p, c)
  <2>1. PICK f \in Ahead(A) : x = Seen(A, f)
      BY <1>4 DEF AllSeen, Retained
  <2> QED BY <1>2, <1>3, <1>4, <2>1
<1>5. ASSUME NEW p \in DOMAIN s1.pods, NEW c \in PodContainers, Waits(p, c) \/ Exits(p, c), x = Shows(p, c)
      PROVE  x \in AllSeen /\ x.container # PodItself
  <2>1. PICK h \in A : h.pod = p /\ h.container = c
    <3> DEFINE w == [pod |-> p, container |-> c, reason |-> s1.pods[p].waiting[c], exit |-> Overviews!Unset,
                     rank |-> 1]
               e == [pod |-> p, container |-> c, reason |-> s1.pods[p].exit[c], exit |-> Overviews!Unset,
                     rank |-> 2]
    <3>1. w \in A \/ e \in A
        BY <1>5, Exist
    <3> QED BY <3>1
  <2>2. PICK f \in Ahead(A) : Same(h, f)
      BY <1>1, SomeAhead
  <2>3. f.pod = p /\ f.container = c /\ c # PodItself
      BY <1>0, <2>1, <2>2 DEF Same
  <2>4. Seen(A, f) = Shows(p, c) /\ Seen(A, f) \in AllSeen
      BY <1>2, <2>3 DEF AllSeen, Retained
  <2>5. x.container = c
      BY <1>5 DEF Shows
  <2> QED BY <1>5, <2>3, <2>4, <2>5
<1> QED BY <1>4, <1>5

\* Of the pod itself there is one thing at most.
LEMMA PodsSeen ==
  ASSUME NEW x \in AllSeen, NEW y \in AllSeen, x.pod = y.pod, x.container = y.container
  PROVE  x = y
<1> DEFINE A == Overviews!Findings
<1>1. \A f \in A : Says(f)
    BY FindingsAre
<1>2. PICK f \in Ahead(A) : x = Seen(A, f)
    BY DEF AllSeen, Retained
<1>3. PICK g \in Ahead(A) : y = Seen(A, g)
    BY DEF AllSeen, Retained
<1>4. f \in A /\ g \in A
    BY DEF Ahead
<1>5. Same(f, g)
  <2>1. Same(x, f) /\ Same(y, g)
      BY <1>1, <1>2, <1>3, <1>4, SeenIs
  <2> QED BY <2>1 DEF Same
<1> QED BY <1>1, <1>2, <1>3, <1>5, OneAhead

\* Which of the sources name a container.
LEMMA WrongIs ==
  ASSUME NEW p \in DOMAIN s1.pods, NEW c \in PodContainers
  PROVE  Overviews!Wrong(p, c) =
           (IF Waits(p, c) THEN {"waiting"} ELSE {}) \cup (IF Exits(p, c) THEN {"exit"} ELSE {})
<1>1. (\E x \in Overviews!Samples("waiting") : x[1] = p /\ x[2] = c) <=> Waits(p, c)
  <2>1. ASSUME NEW x \in Overviews!Samples("waiting"), x[1] = p, x[2] = c
        PROVE  Waits(p, c)
    <3>1. PICK y \in (DOMAIN s1.pods) \X PodContainers :
            /\ x = <<y[1], y[2], s1.pods[y[1]].waiting[y[2]]>>
            /\ s1.pods[y[1]].waiting[y[2]] \notin Overviews!Starting
        BY SamplesAre
    <3>2. y[1] = p /\ y[2] = c
        BY <2>1, <3>1
    <3> QED BY <3>1, <3>2 DEF Waits
  <2>2. ASSUME Waits(p, c)
        PROVE  \E x \in Overviews!Samples("waiting") : x[1] = p /\ x[2] = c
    <3>1. <<p, c>> \in (DOMAIN s1.pods) \X PodContainers
        OBVIOUS
    <3>2. <<p, c, s1.pods[p].waiting[c]>> \in Overviews!Samples("waiting")
        BY <2>2, <3>1, SamplesAre DEF Waits
    <3> QED BY <3>2
  <2> QED BY <2>1, <2>2
<1>2. (\E x \in Overviews!Samples("exit") : x[1] = p /\ x[2] = c) <=> Exits(p, c)
  <2>1. ASSUME NEW x \in Overviews!Samples("exit"), x[1] = p, x[2] = c PROVE Exits(p, c)
    <3>1. PICK y \in (DOMAIN s1.pods) \X PodContainers :
            /\ x = <<y[1], y[2], s1.pods[y[1]].exit[y[2]]>>
            /\ s1.pods[y[1]].exit[y[2]] \notin {Overviews!Unset, "Completed"}
        BY SamplesAre
    <3>2. y[1] = p /\ y[2] = c
        BY <2>1, <3>1
    <3> QED BY <3>1, <3>2 DEF Exits
  <2>2. ASSUME Exits(p, c) PROVE \E x \in Overviews!Samples("exit") : x[1] = p /\ x[2] = c
    <3>1. <<p, c>> \in (DOMAIN s1.pods) \X PodContainers
        OBVIOUS
    <3>2. <<p, c, s1.pods[p].exit[c]>> \in Overviews!Samples("exit")
        BY <2>2, <3>1, SamplesAre DEF Exits
    <3> QED BY <3>2
  <2> QED BY <2>1, <2>2
<1> QED BY <1>1, <1>2 DEF Overviews!Wrong

\* Each container that fails is one finding, whatever the order of the answers.
LEMMA OneEach == Overviews!IInv => Overviews!OneFindingEach
<1> SUFFICES ASSUME Overviews!IInv, Overviews!Whole, NEW p \in DOMAIN s1.pods
    PROVE LET mine == {f \in Overviews!Problems : f.pod = p}
              bad == {c \in PodContainers : Overviews!Wrong(p, c) # {}}
              Told(c) == [pod |-> p, container |-> c,
                      reason |-> IF "waiting" \in Overviews!Wrong(p, c) THEN s1.pods[p].waiting[c]
                                                              ELSE s1.pods[p].exit[c],
                      exit |-> IF Overviews!Wrong(p, c) = {"waiting", "exit"} THEN s1.pods[p].exit[c]
                               ELSE Overviews!Unset,
                      rank |-> IF "waiting" \in Overviews!Wrong(p, c) THEN 1 ELSE 2]
          IN  IF bad # {} THEN mine = {Told(c) : c \in bad} ELSE FS!Cardinality(mine) <= 1
    BY DEF Overviews!OneFindingEach, Overviews!Ids, Overviews!Cardinality, FS!Cardinality
<1> DEFINE mine == {f \in Overviews!Problems : f.pod = p}
           bad == {c \in PodContainers : Overviews!Wrong(p, c) # {}}
           Told(c) == [pod |-> p, container |-> c,
                      reason |-> IF "waiting" \in Overviews!Wrong(p, c) THEN s1.pods[p].waiting[c]
                                                              ELSE s1.pods[p].exit[c],
                      exit |-> IF Overviews!Wrong(p, c) = {"waiting", "exit"} THEN s1.pods[p].exit[c]
                               ELSE Overviews!Unset,
                      rank |-> IF "waiting" \in Overviews!Wrong(p, c) THEN 1 ELSE 2]
<1>1. \A x : x \in mine <=>
        /\ x \in AllSeen /\ x.pod = p
        /\ x.container = PodItself => ~\E g \in AllSeen : g.pod = x.pod /\ g.container # PodItself
    BY ProblemsAre
<1>2. \A c \in PodContainers : (c \in bad <=> (Waits(p, c) \/ Exits(p, c))) /\ Told(c) = Shows(p, c)
    BY WrongIs DEF Shows
<1>3. \A q, c : Shows(q, c).pod = q
    BY DEF Shows
<1>4. \A c \in bad : c \in PodContainers
    OBVIOUS
<1> HIDE DEF mine, bad, Told
<1>5. ASSUME bad # {} PROVE mine = {Told(c) : c \in bad}
  <2>1. PICK c \in bad : TRUE
      BY <1>5
  <2>2. Shows(p, c) \in AllSeen /\ Shows(p, c).container # PodItself /\ Shows(p, c).pod = p
      BY <1>2, <1>3, <1>4, <2>1, ContainersSeen
  <2>3. ASSUME NEW x \in mine PROVE \E d \in bad : x = Told(d)
    <3>1. x \in AllSeen /\ x.pod = p /\ x.container # PodItself
        BY <1>1, <2>2
    <3>2. PICK q \in DOMAIN s1.pods, d \in PodContainers : (Waits(q, d) \/ Exits(q, d)) /\ x = Shows(q, d)
        BY <3>1, ContainersSeen
    <3>3. q = p
        BY <1>3, <3>1, <3>2
    <3> QED BY <1>2, <3>2, <3>3
  <2>4. ASSUME NEW d \in bad PROVE Told(d) \in mine
    <3>1. Told(d) = Shows(p, d) /\ (Waits(p, d) \/ Exits(p, d)) /\ d \in PodContainers
        BY <1>2, <1>4
    <3>2. Shows(p, d) \in AllSeen /\ Shows(p, d).container # PodItself
        BY <3>1, ContainersSeen
    <3> QED BY <1>1, <1>3, <3>1, <3>2
  <2> QED BY <2>3, <2>4
<1>6. ASSUME bad = {} PROVE FS!Cardinality(mine) <= 1
  <2>1. ASSUME NEW x \in mine PROVE x \in AllSeen /\ x.pod = p /\ x.container = PodItself
    <3>1. ASSUME x.container # PodItself PROVE FALSE
      <4>1. PICK q \in DOMAIN s1.pods, d \in PodContainers : (Waits(q, d) \/ Exits(q, d)) /\ x = Shows(q, d)
          BY <1>1, <3>1, ContainersSeen
      <4> QED BY <1>1, <1>2, <1>3, <1>6, <4>1
    <3> QED BY <1>1, <3>1
  <2>2. \A x, y \in mine : x = y
      BY <2>1, PodsSeen
  <2>3. mine = {} \/ \E x : mine = {x}
      BY <2>2
  <2>4. CASE mine = {}
      BY <2>4, FS!FS_EmptySet
  <2>5. ASSUME NEW x, mine = {x} PROVE FS!Cardinality(mine) <= 1
    <3>1. FS!Cardinality({x}) = 1
        BY FS!FS_Singleton
    <3> QED BY <2>5, <3>1
  <2> QED BY <2>3, <2>4, <2>5
<1>7. IF bad # {} THEN mine = {Told(c) : c \in bad} ELSE FS!Cardinality(mine) <= 1
    BY <1>5, <1>6
<1> QED BY <1>7 DEF mine, bad, Told

\* The names on the tile, and the sum of what some of them count.
TileNames == {"Running", "Failed", "Succeeded", "Pending", "Unknown", "NotStarting"}
PartOf(t, name, m) == IF name \in m THEN t[name] ELSE 0
SumOf(t, m) ==
  PartOf(t, "Running", m) + PartOf(t, "Failed", m) + PartOf(t, "Succeeded", m)
    + PartOf(t, "Pending", m) + PartOf(t, "Unknown", m) + PartOf(t, "NotStarting", m)

\* In whatever order it is taken, what is taken off is in the sum.
LEMMA SumStep ==
  ASSUME NEW t \in [TileNames -> Nat], NEW m \in SUBSET TileNames, NEW x \in m
  PROVE  SumOf(t, m) \in Nat /\ SumOf(t, m) = t[x] + SumOf(t, m \ {x})
<1>1. \A name \in TileNames, k \in SUBSET TileNames : PartOf(t, name, k) \in Nat
    BY DEF PartOf
<1>2. m \in SUBSET TileNames /\ m \ {x} \in SUBSET TileNames /\ x \in TileNames
    OBVIOUS
<1>3. PartOf(t, x, m) = t[x] /\ PartOf(t, x, m \ {x}) = 0 /\ t[x] \in Nat
    BY DEF PartOf
<1>4. \A name \in TileNames : name # x => PartOf(t, name, m) = PartOf(t, name, m \ {x})
    BY DEF PartOf
<1> DEFINE a(k) == PartOf(t, "Running", k)
           b(k) == PartOf(t, "Failed", k)
           c(k) == PartOf(t, "Succeeded", k)
           d(k) == PartOf(t, "Pending", k)
           u(k) == PartOf(t, "Unknown", k)
           e(k) == PartOf(t, "NotStarting", k)
<1>5. \A k \in SUBSET TileNames : /\ a(k) \in Nat /\ b(k) \in Nat /\ c(k) \in Nat
                                 /\ d(k) \in Nat /\ u(k) \in Nat /\ e(k) \in Nat
    BY <1>1 DEF TileNames
<1>6. /\ x # "Running" => a(m) = a(m \ {x})
      /\ x # "Failed" => b(m) = b(m \ {x})
      /\ x # "Succeeded" => c(m) = c(m \ {x})
      /\ x # "Pending" => d(m) = d(m \ {x})
      /\ x # "Unknown" => u(m) = u(m \ {x})
      /\ x # "NotStarting" => e(m) = e(m \ {x})
    BY <1>4 DEF TileNames
<1>7. /\ x = "Running" => a(m) = t[x] /\ a(m \ {x}) = 0
      /\ x = "Failed" => b(m) = t[x] /\ b(m \ {x}) = 0
      /\ x = "Succeeded" => c(m) = t[x] /\ c(m \ {x}) = 0
      /\ x = "Pending" => d(m) = t[x] /\ d(m \ {x}) = 0
      /\ x = "Unknown" => u(m) = t[x] /\ u(m \ {x}) = 0
      /\ x = "NotStarting" => e(m) = t[x] /\ e(m \ {x}) = 0
    BY <1>3
<1>8. \A k : SumOf(t, k) = a(k) + b(k) + c(k) + d(k) + u(k) + e(k)
    BY DEF SumOf
<1>9. \/ x = "Running" \/ x = "Failed" \/ x = "Succeeded" \/ x = "Pending" \/ x = "Unknown" \/ x = "NotStarting"
    BY DEF TileNames
<1> HIDE DEF a, b, c, d, u, e
<1>10. SumOf(t, m) \in Nat
    BY <1>2, <1>5, <1>8
<1>11. CASE x = "Running"
    BY <1>2, <1>3, <1>5, <1>6, <1>7, <1>8, <1>10, <1>11
<1>12. CASE x = "Failed"
    BY <1>2, <1>3, <1>5, <1>6, <1>7, <1>8, <1>10, <1>12
<1>13. CASE x = "Succeeded"
    BY <1>2, <1>3, <1>5, <1>6, <1>7, <1>8, <1>10, <1>13
<1>14. CASE x = "Pending"
    BY <1>2, <1>3, <1>5, <1>6, <1>7, <1>8, <1>10, <1>14
<1>15. CASE x = "Unknown"
    BY <1>2, <1>3, <1>5, <1>6, <1>7, <1>8, <1>10, <1>15
<1>16. CASE x = "NotStarting"
    BY <1>2, <1>3, <1>5, <1>6, <1>7, <1>8, <1>10, <1>16
<1> QED BY <1>9, <1>11, <1>12, <1>13, <1>14, <1>15, <1>16

\* The total of a tile is that sum.
LEMMA TotalIs ==
  ASSUME Overviews!Tile \in [TileNames -> Nat]
  PROVE  Overviews!Total = SumOf(Overviews!Tile, TileNames)
<1> DEFINE t == Overviews!Tile
           Body(it) == [m \in SUBSET TileNames |->
                          IF m = {} THEN 0
                          ELSE t[CHOOSE x \in m : TRUE] + it[m \ {CHOOSE x \in m : TRUE}]]
           iter == CHOOSE it : it = Body(it)
           g == [m \in SUBSET TileNames |-> SumOf(t, m)]
<1>1. DOMAIN t = TileNames
    OBVIOUS
<1>2. Overviews!Total = iter[TileNames]
    BY <1>1 DEF Overviews!Total, Overviews!FoldSet, Overviews!MapThenFoldSet
<1> HIDE DEF t
<1>3. SumOf(t, {}) = 0
    BY DEF SumOf, PartOf
<1>4. ASSUME NEW m \in SUBSET TileNames, m # {}
      PROVE  /\ (CHOOSE x \in m : TRUE) \in m
             /\ SumOf(t, m) = t[CHOOSE x \in m : TRUE] + SumOf(t, m \ {CHOOSE x \in m : TRUE})
  <2>1. (CHOOSE x \in m : TRUE) \in m
      BY <1>4
  <2> HIDE DEF TileNames
  <2> QED BY <2>1, SumStep DEF t
<1>5. g = Body(g)
  <2>1. \A m \in SUBSET TileNames : g[m] = SumOf(t, m)
      OBVIOUS
  <2>2. ASSUME NEW m \in SUBSET TileNames, m # {}
        PROVE  g[m] = t[CHOOSE x \in m : TRUE] + g[m \ {CHOOSE x \in m : TRUE}]
      BY <1>4, <2>1, <2>2
  <2>3. g[{}] = 0
      BY <1>3, <2>1
  <2>4. g = [m \in SUBSET TileNames |-> g[m]]
      OBVIOUS
  <2> HIDE DEF g
  <2>5. \A m \in SUBSET TileNames :
          g[m] = IF m = {} THEN 0 ELSE t[CHOOSE x \in m : TRUE] + g[m \ {CHOOSE x \in m : TRUE}]
      BY <2>2, <2>3
  <2> QED BY <2>4, <2>5
<1> HIDE DEF Body, g
<1>6. iter = Body(iter)
    BY <1>5
<1> HIDE DEF iter
<1>7. \A m \in SUBSET TileNames :
        iter[m] = IF m = {} THEN 0 ELSE t[CHOOSE x \in m : TRUE] + iter[m \ {CHOOSE x \in m : TRUE}]
    BY <1>6 DEF Body
<1> DEFINE bad == {m \in SUBSET TileNames : iter[m] # SumOf(t, m)}
           I == {FS!Cardinality(m) : m \in bad}
<1>8. \A m \in SUBSET TileNames : FS!IsFiniteSet(m) /\ FS!Cardinality(m) \in Nat
  <2>1. FS!IsFiniteSet(TileNames)
    <3>1. FS!IsFiniteSet({"Running"})
        BY FS!FS_Singleton
    <3>2. FS!IsFiniteSet({"Running"} \cup {"Failed"})
        BY <3>1, FS!FS_AddElement
    <3>3. FS!IsFiniteSet(({"Running"} \cup {"Failed"}) \cup {"Succeeded"})
        BY <3>2, FS!FS_AddElement
    <3> DEFINE A == ({"Running"} \cup {"Failed"}) \cup {"Succeeded"}
    <3>4. FS!IsFiniteSet(A \cup {"Pending"})
        BY <3>3, FS!FS_AddElement
    <3>5. FS!IsFiniteSet((A \cup {"Pending"}) \cup {"Unknown"})
        BY <3>4, FS!FS_AddElement
    <3>6. FS!IsFiniteSet(((A \cup {"Pending"}) \cup {"Unknown"}) \cup {"NotStarting"})
        BY <3>5, FS!FS_AddElement
    <3>7. TileNames = ((A \cup {"Pending"}) \cup {"Unknown"}) \cup {"NotStarting"}
        BY DEF TileNames
    <3> QED BY <3>6, <3>7
  <2> QED BY <2>1, FS!FS_Subset, FS!FS_CardinalityType
<1>9. ASSUME bad # {} PROVE FALSE
  <2>1. I \in SUBSET Nat /\ I # {}
      BY <1>8, <1>9
  <2>2. PICK n \in I : \A y \in I : n <= y
      BY <2>1, Smallest
  <2>3. PICK m \in bad : n = FS!Cardinality(m)
      BY <2>2
  <2>4. m # {} /\ m \in SUBSET TileNames
      BY <1>3, <1>7, <2>3
  <2> DEFINE x == CHOOSE x \in m : TRUE
  <2>5. x \in m /\ iter[m] = t[x] + iter[m \ {x}] /\ SumOf(t, m) = t[x] + SumOf(t, m \ {x})
      BY <1>4, <1>7, <2>4
  <2> HIDE DEF x
  <2>6. FS!Cardinality(m \ {x}) = FS!Cardinality(m) - 1
      BY <1>8, <2>4, <2>5, FS!FS_RemoveElement
  <2>7. FS!Cardinality(m) \in Nat
      BY <1>8, <2>4
  <2>8. FS!Cardinality(m \ {x}) \notin I
      BY <2>2, <2>3, <2>6, <2>7
  <2>9. m \ {x} \in SUBSET TileNames /\ m \ {x} \notin bad
      BY <2>4, <2>8
  <2>10. iter[m \ {x}] = SumOf(t, m \ {x})
      BY <2>9
  <2> QED BY <2>3, <2>5, <2>10
<1>10. iter[TileNames] = SumOf(t, TileNames)
    BY <1>9
<1> QED BY <1>2, <1>10 DEF t

\* Sets without a common member are counted side by side.
LEMMA SideBySide ==
  ASSUME NEW A, FS!IsFiniteSet(A), NEW B, FS!IsFiniteSet(B), A \cap B = {}
  PROVE  /\ FS!IsFiniteSet(A \cup B)
         /\ FS!Cardinality(A \cup B) = FS!Cardinality(A) + FS!Cardinality(B)
<1>1. FS!Cardinality(A \cup B) = FS!Cardinality(A) + FS!Cardinality(B) - FS!Cardinality(A \cap B)
    BY FS!FS_Union
<1>2. FS!Cardinality(A \cap B) = 0
    BY FS!FS_EmptySet
<1>3. FS!Cardinality(A) \in Nat /\ FS!Cardinality(B) \in Nat
    BY FS!FS_CardinalityType
<1> QED BY <1>1, <1>2, <1>3, FS!FS_Union

\* Pods are counted once each: in the phase they are in.
LEMMA TileCounts == Overviews!TypeOK => Overviews!TileCountsEachOnce
<1> SUFFICES ASSUME Overviews!TypeOK, <<"tile", "phases">> \notin s2
             PROVE  Overviews!Total = FS!Cardinality(DOMAIN s1.pods)
    BY DEF Overviews!TileCountsEachOnce, Overviews!Ids, Overviews!Cardinality,
        FS!Cardinality
<1> DEFINE Ids == DOMAIN s1.pods
           In(phase) == {p \in Ids : s1.pods[p].phase = phase}
           n(phase) == FS!Cardinality(In(phase))
           some == Overviews!NotStarting
           stuck == IF <<"tile", "stuck">> \in s2 THEN 0 ELSE FS!Cardinality(some)
           r == In("Running")
           f == In("Failed")
           s == In("Succeeded")
           w == In("Pending")
           u == In("Unknown")
<1>1. /\ FS!IsFiniteSet(Ids)
      /\ \A p \in Ids : s1.pods[p].phase \in {"Running", "Failed", "Succeeded", "Pending", "Unknown"}
    BY MCSeenPods DEF Overviews!OverviewAssumption, Overviews!TypeOK, Overviews!Phases,
                      FS!IsFiniteSet, Overviews!IsFiniteSet
<1>2. \A phase : FS!IsFiniteSet(In(phase)) /\ n(phase) \in Nat
    BY <1>1, FS!FS_Subset, FS!FS_CardinalityType
<1>3. some \subseteq w
    BY DEF Overviews!NotStarting, Overviews!InPhase, Overviews!Ids
<1>4. FS!Cardinality(some) \in Nat /\ FS!Cardinality(some) <= n("Pending")
    BY <1>2, <1>3, FS!FS_Subset, FS!FS_CardinalityType
<1>5. stuck \in Nat /\ stuck <= n("Pending") /\ n("Pending") \in Nat
  <2>1. n("Pending") \in Nat
      BY <1>2
  <2> HIDE DEF n, some
  <2> QED BY <1>4, <2>1
<1>6. Overviews!Tile =
        [name \in {"Running", "Failed", "Succeeded", "Pending", "Unknown"} \cup {"NotStarting"} |->
              CASE name = "NotStarting" -> stuck
                [] name = "Pending" -> IF n("Pending") < stuck THEN 0 ELSE n("Pending") - stuck
                [] OTHER -> n(name)]
    BY DEF Overviews!Tile, Overviews!Phases, Overviews!InPhase, Overviews!Ids,
        Overviews!Cardinality,
           FS!Cardinality
<1>7. /\ DOMAIN Overviews!Tile = TileNames /\ Overviews!Tile = [name \in TileNames |-> Overviews!Tile[name]]
      /\ Overviews!Tile["Running"] = n("Running") /\ Overviews!Tile["Failed"] = n("Failed")
      /\ Overviews!Tile["Succeeded"] = n("Succeeded") /\ Overviews!Tile["Unknown"] = n("Unknown")
      /\ Overviews!Tile["NotStarting"] = stuck
      /\ Overviews!Tile["Pending"] = IF n("Pending") < stuck THEN 0 ELSE n("Pending") - stuck
  <2> HIDE DEF n, stuck
  <2> QED BY <1>6 DEF TileNames
<1> HIDE DEF stuck
<1>8. Overviews!Tile["Pending"] = n("Pending") - stuck /\ Overviews!Tile["Pending"] \in Nat
  <2> HIDE DEF n
  <2> QED BY <1>5, <1>7
<1>9. Overviews!Tile \in [TileNames -> Nat]
  <2>1. \A name \in TileNames : Overviews!Tile[name] \in Nat
    <3> HIDE DEF n
    <3> QED BY <1>2, <1>5, <1>7, <1>8 DEF TileNames
  <2> QED BY <1>7, <2>1
<1>10. Overviews!Total = n("Running") + n("Failed") + n("Succeeded") + (n("Pending") - stuck)
                            + n("Unknown") + stuck
  <2> HIDE DEF n
  <2>1. SumOf(Overviews!Tile, TileNames) =
          Overviews!Tile["Running"] + Overviews!Tile["Failed"] + Overviews!Tile["Succeeded"]
            + Overviews!Tile["Pending"] + Overviews!Tile["Unknown"] + Overviews!Tile["NotStarting"]
      BY DEF SumOf, PartOf, TileNames
  <2> QED BY <1>7, <1>8, <1>9, <2>1, TotalIs
<1>11. FS!Cardinality(r \cup f) = n("Running") + n("Failed") /\ FS!IsFiniteSet(r \cup f)
  <2>1. r \cap f = {} /\ FS!IsFiniteSet(r) /\ FS!IsFiniteSet(f)
      BY <1>2
  <2> QED BY <2>1, SideBySide
<1>12. FS!Cardinality((r \cup f) \cup s) = n("Running") + n("Failed") + n("Succeeded")
       /\ FS!IsFiniteSet((r \cup f) \cup s)
  <2>1. (r \cup f) \cap s = {} /\ FS!IsFiniteSet(s)
      BY <1>2
  <2>2. FS!Cardinality((r \cup f) \cup s) = FS!Cardinality(r \cup f) + n("Succeeded")
       /\ FS!IsFiniteSet((r \cup f) \cup s)
      BY <1>11, <2>1, SideBySide
  <2> QED BY <1>11, <2>2
<1> DEFINE four == ((r \cup f) \cup s) \cup w
<1>13. FS!Cardinality(four) = n("Running") + n("Failed") + n("Succeeded") + n("Pending")
       /\ FS!IsFiniteSet(four)
  <2>1. ((r \cup f) \cup s) \cap w = {} /\ FS!IsFiniteSet(w)
      BY <1>2
  <2>2. /\ FS!Cardinality(four) = FS!Cardinality((r \cup f) \cup s) + n("Pending")
        /\ FS!IsFiniteSet(four)
      BY <1>12, <2>1, SideBySide
  <2> QED BY <1>12, <2>2
<1>14. FS!Cardinality(four \cup u)
         = n("Running") + n("Failed") + n("Succeeded") + n("Pending") + n("Unknown")
  <2>1. four \cap u = {} /\ FS!IsFiniteSet(u)
      BY <1>2
  <2>2. FS!Cardinality(four \cup u) = FS!Cardinality(four) + n("Unknown")
      BY <1>13, <2>1, SideBySide
  <2> QED BY <1>13, <2>2
<1>15. four \cup u = Ids
    BY <1>1
<1>16. FS!Cardinality(Ids)
         = n("Running") + n("Failed") + n("Succeeded") + n("Pending") + n("Unknown")
    BY <1>14, <1>15
<1>17. n("Running") \in Nat /\ n("Failed") \in Nat /\ n("Succeeded") \in Nat /\ n("Unknown") \in Nat
    BY <1>2
<1> HIDE DEF n, Ids
<1> QED BY <1>5, <1>10, <1>16, <1>17 DEF Ids

\* What is added up is what the machines hold that a query knows, when the pods
\* on them were told.
LEMMA CardsSum == Overviews!TypeOK => Overviews!CardsAddUp
<1> SUFFICES ASSUME Overviews!TypeOK PROVE Overviews!CardsAddUp
    OBVIOUS
<1> DEFINE placed == {p \in DOMAIN s1.pods : s1.pods[p].node # "unknown"}
           machines == UNION {s1.seeds[x] : x \in Overviews!Seeds}
           whole == \E s \in Overviews!Seeds : s1.seeds[s] = machines /\ <<"cards", s>> \notin s2
<1>1. /\ \A p \in DOMAIN s1.pods : s1.pods[p].node \in {"unknown"} \cup machines
      /\ \A x \in Overviews!Seeds : "unknown" \notin s1.seeds[x]
    BY MCSeenPods DEF Overviews!OverviewAssumption, Overviews!TypeOK
<1>2. Overviews!Capacity \subseteq placed
  <2>1. "unknown" \notin Overviews!Cards
      BY <1>1 DEF Overviews!Cards
  <2> QED BY <2>1 DEF Overviews!Capacity, Overviews!Ids
<1>3. ASSUME whole, <<"cards", "pods">> \notin s2 PROVE Overviews!Capacity = placed
  <2>1. Overviews!Cards = machines
      BY <1>3 DEF Overviews!Cards
  <2>2. Overviews!Capacity = {p \in DOMAIN s1.pods : s1.pods[p].node \in machines}
      BY <1>3, <2>1 DEF Overviews!Capacity, Overviews!Ids
  <2>3. "unknown" \notin machines
      BY <1>1
  <2> HIDE DEF machines
  <2> QED BY <1>1, <2>2, <2>3
<1> QED BY <1>2, <1>3 DEF Overviews!CardsAddUp, Overviews!Ids

\* The verdict rests on what was read.
LEMMA VerdictRests == Overviews!TypeOK => Overviews!VerdictIsEarned
<1> SUFFICES ASSUME Overviews!TypeOK PROVE Overviews!VerdictIsEarned
    OBVIOUS
<1>1. /\ s1.collected \subseteq Overviews!Signals
      /\ \A s \in Overviews!Signals : s1.level[s] \in {"fine", "degraded", "critical"}
    BY MCSeenPods DEF Overviews!OverviewAssumption, Overviews!TypeOK
<1>2. ASSUME Overviews!Status = "Healthy"
      PROVE  \E s \in {"nodesReady", "podsReady"} : s \in s1.collected
    BY <1>2 DEF Overviews!Status, Overviews!Reading
<1>3. ASSUME NEW s \in s1.collected, s1.level[s] # "fine",
             {<<"presence", s>>, <<"value", s>>} \cap s2 = {}
      PROVE  Overviews!Status \in {"Degraded", "Critical"}
  <2>1. Overviews!Reading(s) = s1.level[s]
      BY <1>3 DEF Overviews!Reading
  <2>2. s \in Overviews!Signals /\ Overviews!Reading(s) \in {"degraded", "critical"}
      BY <1>1, <1>3, <2>1
  <2> QED BY <2>2 DEF Overviews!Status
<1> QED BY <1>2, <1>3 DEF Overviews!VerdictIsEarned

\* Names and values a row may have, whatever is read.
Sampled == UNION {Overviews!Samples(q) : q \in {"waiting", "exit", "Failed", "Pending", "NotReady"}}
RowSet ==
  [status : {Overviews!Unset} \cup {s[3] : s \in Sampled},
   container : {PodItself} \cup {s[2] : s \in Sampled},
   exit : {Overviews!Unset} \cup {s[3] : s \in Sampled}]

\* A sample tells of a pod.
LEMMA SampleIs ==
  ASSUME NEW q \in {"waiting", "exit", "Failed", "Pending", "NotReady"},
         NEW s \in Overviews!Samples(q)
  PROVE  /\ s = <<s[1], s[2], s[3]>> /\ s[3] # Overviews!Unset /\ s \in Sampled
         /\ q = "exit" => s[3] = s1.pods[s[1]].exit[s[2]]
<1>0. /\ Overviews!Unset # "Failed" /\ Overviews!Unset # "Pending" /\ Overviews!Unset # "NotReady"
      /\ Overviews!Unset \in Overviews!Starting
    BY Zenon DEF Overviews!Unset, Overviews!Starting
<1>1. s \in Sampled
    BY DEF Sampled
<1>2. CASE q = "waiting"
  <2>1. PICK y \in (DOMAIN s1.pods) \X PodContainers :
            /\ s = <<y[1], y[2], s1.pods[y[1]].waiting[y[2]]>>
            /\ s1.pods[y[1]].waiting[y[2]] \notin Overviews!Starting
      BY <1>2, SamplesAre
  <2> QED BY <1>0, <1>1, <1>2, <2>1
<1>3. CASE q = "exit"
  <2>1. PICK y \in (DOMAIN s1.pods) \X PodContainers :
            /\ s = <<y[1], y[2], s1.pods[y[1]].exit[y[2]]>>
            /\ s1.pods[y[1]].exit[y[2]] \notin {Overviews!Unset, "Completed"}
      BY <1>3, SamplesAre
  <2> QED BY <1>1, <2>1
<1>4. CASE q \in {"Failed", "Pending", "NotReady"}
  <2>1. PICK p \in DOMAIN s1.pods : s = <<p, PodItself, q>>
      BY <1>4, SamplesAre
  <2> QED BY <1>0, <1>1, <1>4, <2>1
<1> QED BY <1>2, <1>3, <1>4

\* What becomes of the row of a pod when some samples of a source name it.
Fits(q, p, r, mine, x) ==
  IF r.status # Overviews!Unset
  THEN x = IF q = "exit" /\ r.exit = Overviews!Unset /\ \E s \in mine : s[2] = r.container
           THEN [r EXCEPT !.exit = s1.pods[p].exit[r.container]] ELSE r
  ELSE IF mine = {} THEN x = r
  ELSE \E s \in mine : x = [status |-> s[3], container |-> s[2], exit |-> Overviews!Unset]

\* One sample more.
LEMMA WriteFits ==
  ASSUME NEW q \in {"waiting", "exit", "Failed", "Pending", "NotReady"}, NEW p,
         NEW r \in RowSet, r.status # Overviews!Unset \/ r = Overviews!NoRow,
         NEW T \in SUBSET Overviews!Samples(q), NEW s \in Overviews!Samples(q) \ T,
         NEW x \in RowSet, Fits(q, p, r, {u \in T : u[1] = p}, x),
         NEW y, y = IF s[1] = p THEN Overviews!Writes(x, s, q) ELSE x
  PROVE  y \in RowSet /\ Fits(q, p, r, {u \in T \cup {s} : u[1] = p}, y)
<1> DEFINE M == {u \in T : u[1] = p}
           N == {u \in T \cup {s} : u[1] = p}
<1>1. CASE s[1] # p
  <2>1. N = M /\ y = x
      BY <1>1
  <2> QED BY <2>1
<1>2. CASE s[1] = p
  <2>1. N = M \cup {s} /\ y = Overviews!Writes(x, s, q)
      BY <1>2
  <2>2. /\ s = <<s[1], s[2], s[3]>> /\ s[3] # Overviews!Unset /\ s \in Sampled
        /\ q = "exit" => s[3] = s1.pods[p].exit[s[2]]
      BY <1>2, SampleIs
  <2>3. y \in RowSet
    <3>1. s[3] \in {u[3] : u \in Sampled} /\ s[2] \in {u[2] : u \in Sampled}
        BY <2>2
    <3> HIDE DEF Sampled
    <3> QED BY <2>1, <3>1 DEF Overviews!Writes, RowSet
  <2>4. y = IF x.status = Overviews!Unset
            THEN [status |-> s[3], container |-> s[2], exit |-> Overviews!Unset]
            ELSE IF q = "exit" /\ x.container = s[2] /\ x.exit = Overviews!Unset
            THEN [x EXCEPT !.exit = s[3]] ELSE x
      BY <2>1 DEF Overviews!Writes
  <2>5. CASE r.status # Overviews!Unset
    <3>1. x = IF q = "exit" /\ r.exit = Overviews!Unset /\ \E u \in M : u[2] = r.container
              THEN [r EXCEPT !.exit = s1.pods[p].exit[r.container]] ELSE r
        BY <2>5 DEF Fits
    <3>2. x.status = r.status /\ x.container = r.container
        BY <3>1 DEF RowSet
    <3>3. CASE ~(q = "exit" /\ r.exit = Overviews!Unset)
      <4>1. x = r /\ y = r
          BY <2>4, <2>5, <3>1, <3>3
      <4> QED BY <2>3, <2>5, <3>3, <4>1 DEF Fits
    <3>4. CASE q = "exit" /\ r.exit = Overviews!Unset /\ \E u \in M : u[2] = r.container
      <4>1. PICK u \in M : u[2] = r.container
          BY <3>4
      <4>2. u[3] # Overviews!Unset /\ u[3] = s1.pods[p].exit[r.container]
          BY <3>4, <4>1, SampleIs
      <4>3. x = [r EXCEPT !.exit = s1.pods[p].exit[r.container]] /\ x.exit # Overviews!Unset
          BY <3>1, <3>4, <4>2 DEF RowSet
      <4>4. y = x /\ \E v \in N : v[2] = r.container
          BY <2>1, <2>4, <2>5, <3>2, <4>1, <4>3
      <4> QED BY <2>3, <2>5, <3>4, <4>3, <4>4 DEF Fits
    <3>5. CASE q = "exit" /\ r.exit = Overviews!Unset /\ ~\E u \in M : u[2] = r.container
      <4>1. x = r
          BY <3>1, <3>5
      <4>2. (\E u \in N : u[2] = r.container) <=> s[2] = r.container
          BY <2>1, <3>5
      <4>3. y = IF s[2] = r.container THEN [r EXCEPT !.exit = s1.pods[p].exit[r.container]] ELSE r
          BY <2>2, <2>4, <2>5, <3>5, <4>1
      <4> QED BY <2>3, <2>5, <3>5, <4>2, <4>3 DEF Fits
    <3> QED BY <3>3, <3>4, <3>5
  <2>6. CASE r.status = Overviews!Unset
    <3>0. N # {}
        BY <2>1
    <3>1. CASE M = {}
      <4>1. x = r
          BY <2>6, <3>1 DEF Fits
      <4>2. y = [status |-> s[3], container |-> s[2], exit |-> Overviews!Unset]
          BY <2>4, <2>6, <4>1
      <4> QED BY <2>1, <2>3, <2>6, <3>0, <4>2 DEF Fits
    <3>2. CASE M # {}
      <4>1. PICK u \in M : x = [status |-> u[3], container |-> u[2], exit |-> Overviews!Unset]
          BY <2>6, <3>2 DEF Fits
      <4>2. /\ u = <<u[1], u[2], u[3]>> /\ u[1] = p /\ u[3] # Overviews!Unset /\ u # s
            /\ q = "exit" => u[3] = s1.pods[p].exit[u[2]]
          BY SampleIs
      <4>3. ~(q = "exit" /\ u[2] = s[2])
          BY <1>2, <2>2, <4>2
      <4>4. y = x
          BY <2>4, <4>1, <4>2, <4>3
      <4> QED BY <2>1, <2>3, <2>6, <3>0, <4>1, <4>4 DEF Fits
    <3> QED BY <3>1, <3>2
  <2> QED BY <2>5, <2>6
<1> QED BY <1>1, <1>2

\* What a source makes of the row of a pod depends on what it answered, not on
\* the order.
LEMMA ReadIs ==
  ASSUME s1 \in Overviewed, s2 = {},
         NEW q \in {"waiting", "exit", "Failed", "Pending", "NotReady"}, NEW p,
         NEW r \in RowSet, r.status # Overviews!Unset \/ r = Overviews!NoRow
  PROVE  /\ Overviews!Reads(p, r, q) \in RowSet
         /\ Fits(q, p, r, {s \in Overviews!Samples(q) : s[1] = p}, Overviews!Reads(p, r, q))
<1> DEFINE S == Overviews!Samples(q)
           w == Overviews!Answers("table", q)
           n == Len(w)
           T(k) == {w[i] : i \in 1..k}
           After(k, x) == IF w[k][1] = p THEN Overviews!Writes(x, w[k], q) ELSE x
           Good(k) == {x \in RowSet : Fits(q, p, r, {u \in T(k) : u[1] = p}, x)}
           o == [y \in (1..n) \X RowSet |-> After(y[1], y[2])]
           Body(it) == [m \in SUBSET (1..n) |->
                          IF m = {} THEN r ELSE After(Latest(m), it[m \ {Latest(m)}])]
           iter == CHOOSE it : it = Body(it)
           J == [k \in 0..n |-> Good(k)]
<1>1. /\ n \in Nat /\ DOMAIN w = 1..n /\ \A i \in 1..n : w[i] \in S
      /\ \A s \in S : \E i \in 1..n : w[i] = s
      /\ \A i, j \in 1..n : w[i] = w[j] => i = j
  <2>1. FS!IsFiniteSet(S)
      BY FiniteSamples
  <2>2. w = Overviews!SetToSeq(S)
      BY DEF Overviews!Answers
  <2> HIDE DEF S, w
  <2> QED BY <2>1, <2>2, InARow
<1> HIDE DEF S, n
<1>0. n \in Nat /\ DOMAIN w = 1..n
    BY <1>1
<1>3. Overviews!Reads(p, r, q) = iter[1..n]
    BY <1>0 DEF Overviews!Reads, Overviews!FoldLeft, Overviews!MapThenFoldSet,
        Overviews!Max, Latest
<1> HIDE DEF w
<1>4. ASSUME NEW k \in 1..n, NEW x \in Good(k - 1) PROVE After(k, x) \in Good(k)
  <2>1. 1..k = (1..(k - 1)) \cup {k} /\ 1..(k - 1) \subseteq 1..n /\ k \notin 1..(k - 1)
      BY <1>1
  <2>2. T(k) = T(k - 1) \cup {w[k]} /\ T(k - 1) \in SUBSET S /\ w[k] \in S \ T(k - 1)
      BY <1>1, <2>1
  <2> DEFINE t == T(k - 1)
             s == w[k]
             y == After(k, x)
  <2>3. x \in RowSet /\ Fits(q, p, r, {u \in t : u[1] = p}, x)
      OBVIOUS
  <2>4. y = IF s[1] = p THEN Overviews!Writes(x, s, q) ELSE x
      OBVIOUS
  <2>5. T(k) = t \cup {s} /\ t \in SUBSET S /\ s \in S \ t
      BY <2>2
  <2> HIDE DEF t, s, y
  <2>6. y \in RowSet /\ Fits(q, p, r, {u \in t \cup {s} : u[1] = p}, y)
      BY <2>3, <2>4, <2>5, WriteFits DEF S
  <2>7. y \in RowSet /\ Fits(q, p, r, {u \in T(k) : u[1] = p}, y)
      BY <2>5, <2>6
  <2> QED BY <2>7 DEF y
<1>5. \A k \in 1..n, x \in RowSet : After(k, x) \in RowSet
  <2> SUFFICES ASSUME NEW k \in 1..n, NEW x \in RowSet PROVE After(k, x) \in RowSet
      OBVIOUS
  <2>1. w[k] \in Sampled
      BY <1>1 DEF S, Sampled
  <2>2. w[k][3] \in {u[3] : u \in Sampled} /\ w[k][2] \in {u[2] : u \in Sampled}
      BY <2>1
  <2> HIDE DEF Sampled
  <2> QED BY <2>2 DEF Overviews!Writes, RowSet
<1>6. o \in [(1..n) \X RowSet -> RowSet]
    BY <1>5
<1>7. \A k \in 1..n, b \in RowSet : o[<<k, b>>] = After(k, b)
    OBVIOUS
<1> HIDE DEF o, After
<1>8. PICK g \in [SUBSET (1..n) -> RowSet] : Folds(n, r, o, g)
    BY <1>1, <1>6, FoldExists
<1>9. \A m \in SUBSET (1..n) : m # {} => Latest(m) \in 1..n /\ m \ {Latest(m)} \in SUBSET (1..n)
    BY <1>1, LatestIs
<1>10. g = Body(g)
  <2>1. \A m \in SUBSET (1..n) :
          g[m] = IF m = {} THEN r ELSE After(Latest(m), g[m \ {Latest(m)}])
      BY <1>7, <1>8, <1>9 DEF Folds
  <2>2. g = [m \in SUBSET (1..n) |-> g[m]]
      BY <1>8
  <2> QED BY <2>1, <2>2
<1> HIDE DEF Body
<1>11. iter = Body(iter)
    BY <1>10
<1> HIDE DEF iter
<1>12. iter[{}] = r
    BY <1>11 DEF Body
<1>13. ASSUME NEW k \in 1..n PROVE iter[1..k] = After(k, iter[1..(k - 1)])
  <2>1. 1..k \in SUBSET (1..n) /\ 1..k # {} /\ k \in Nat \ {0}
      BY <1>0, UpTo
  <2>2. iter[1..k] = After(Latest(1..k), iter[(1..k) \ {Latest(1..k)}])
      BY <1>11, <2>1 DEF Body
  <2>3. Latest(1..k) = k /\ (1..k) \ {k} = 1..(k - 1)
      BY <2>1, LatestOfAll
  <2> QED BY <2>2, <2>3
<1>14. iter[{}] \in J[0]
  <2>1. {u \in T(0) : u[1] = p} = {} /\ 0 \in 0..n
      BY <1>1
  <2>2. Fits(q, p, r, {}, r)
      BY DEF Fits
  <2> QED BY <1>12, <2>1, <2>2
<1>15. \A k \in 1..n : iter[1..(k - 1)] \in J[k - 1] => iter[1..k] \in J[k]
  <2> SUFFICES ASSUME NEW k \in 1..n, iter[1..(k - 1)] \in J[k - 1] PROVE iter[1..k] \in J[k]
      OBVIOUS
  <2>1. k - 1 \in 0..n /\ k \in 0..n
      BY <1>1
  <2>2. iter[1..(k - 1)] \in Good(k - 1)
      BY <2>1
  <2> HIDE DEF Good
  <2>3. After(k, iter[1..(k - 1)]) \in Good(k)
      BY <1>4, <2>2
  <2> QED BY <1>13, <2>1, <2>3
<1> HIDE DEF J
<1>16. iter[1..n] \in J[n]
    BY <1>1, <1>14, <1>15, FoldReaches
<1>17. T(n) = S
    BY <1>1
<1>18. iter[1..n] \in RowSet /\ Fits(q, p, r, {u \in T(n) : u[1] = p}, iter[1..n])
    BY <1>1, <1>16 DEF J
<1> QED BY <1>3, <1>17, <1>18 DEF S

\* The rows a pod may have.
Rows == {r \in RowSet : r.status # Overviews!Unset \/ r = Overviews!NoRow}

LEMMA ReadKeeps ==
  ASSUME s1 \in Overviewed, s2 = {},
         NEW q \in {"waiting", "exit", "Failed", "Pending", "NotReady"}, NEW p, NEW r \in Rows
  PROVE  /\ Overviews!Reads(p, r, q) \in Rows
         /\ Fits(q, p, r, {s \in Overviews!Samples(q) : s[1] = p}, Overviews!Reads(p, r, q))
<1> DEFINE M == {s \in Overviews!Samples(q) : s[1] = p}
           x == Overviews!Reads(p, r, q)
<1>1. r \in RowSet /\ (r.status # Overviews!Unset \/ r = Overviews!NoRow)
    BY DEF Rows
<1>2. x \in RowSet /\ Fits(q, p, r, M, x)
    BY <1>1, ReadIs
<1>3. \A s \in M : s[3] # Overviews!Unset
    BY SampleIs
<1> HIDE DEF x, M
<1>4. CASE r.status # Overviews!Unset
  <2>1. x.status = r.status
      BY <1>1, <1>2, <1>4 DEF Fits, RowSet
  <2> QED BY <1>2, <1>4, <2>1 DEF Rows, x, M
<1>5. CASE r.status = Overviews!Unset
  <2>1. x = Overviews!NoRow \/ x.status # Overviews!Unset
      BY <1>1, <1>2, <1>3, <1>5 DEF Fits
  <2> QED BY <1>2, <2>1 DEF Rows, x, M
<1> QED BY <1>4, <1>5

\* The row of a pod is what the five sources make of it, one after the other.
LEMMA RowReads ==
  ASSUME s1 \in Overviewed, s2 = {}, NEW p
  PROVE  \E r1, r2, r3, r4 \in Rows :
           /\ r1 = Overviews!Reads(p, Overviews!NoRow, "waiting")
           /\ r2 = Overviews!Reads(p, r1, "exit")
           /\ r3 = Overviews!Reads(p, r2, "Failed")
           /\ r4 = Overviews!Reads(p, r3, "Pending")
           /\ Overviews!Row(p) = Overviews!Reads(p, r4, "NotReady")
           /\ Overviews!NoRow \in Rows
<1> DEFINE S == Overviews!Sources
           o == [y \in (1..5) \X Rows |-> Overviews!Reads(p, y[2], S[y[1]])]
           Body(it) == [m \in SUBSET (1..5) |->
                          IF m = {} THEN Overviews!NoRow
                          ELSE Overviews!Reads(p, it[m \ {Latest(m)}], S[Latest(m)])]
           iter == CHOOSE it : it = Body(it)
<1>1. /\ DOMAIN S = 1..5 /\ \A k \in 1..5 : S[k] \in {"waiting", "exit", "Failed", "Pending", "NotReady"}
      /\ S[1] = "waiting" /\ S[2] = "exit" /\ S[3] = "Failed" /\ S[4] = "Pending" /\ S[5] = "NotReady"
  <2>1. 1..5 = {1, 2, 3, 4, 5}
      OBVIOUS
  <2> QED BY <2>1 DEF Overviews!Sources
<1>2. Overviews!NoRow \in Rows
  <2>1. Overviews!NoRow \in RowSet
      BY DEF Overviews!NoRow, RowSet
  <2> QED BY <2>1 DEF Rows
<1>0. DOMAIN S = 1..5
    BY <1>1
<1>3. Overviews!Row(p) = iter[1..5]
    BY <1>0 DEF Overviews!Row, Overviews!FoldLeft, Overviews!MapThenFoldSet,
        Overviews!Max, Latest
<1> HIDE DEF S
<1>14. \A k \in 1..5, r \in Rows : Overviews!Reads(p, r, S[k]) \in Rows
    BY <1>1, ReadKeeps
<1>4. o \in [(1..5) \X Rows -> Rows]
    BY <1>14
<1>5. \A k \in 1..5, b \in Rows : o[<<k, b>>] = Overviews!Reads(p, b, S[k])
    OBVIOUS
<1> HIDE DEF o
<1>6. PICK g \in [SUBSET (1..5) -> Rows] : Folds(5, Overviews!NoRow, o, g)
    BY <1>2, <1>4, FoldExists
<1>7. \A m \in SUBSET (1..5) : m # {} => Latest(m) \in 1..5 /\ m \ {Latest(m)} \in SUBSET (1..5)
    BY LatestIs
<1>8. g = Body(g)
  <2>1. \A m \in SUBSET (1..5) :
          g[m] = IF m = {} THEN Overviews!NoRow
                 ELSE Overviews!Reads(p, g[m \ {Latest(m)}], S[Latest(m)])
      BY <1>5, <1>6, <1>7 DEF Folds
  <2>2. g = [m \in SUBSET (1..5) |-> g[m]]
      BY <1>6
  <2> QED BY <2>1, <2>2
<1> HIDE DEF Body
<1>9. iter = Body(iter)
    BY <1>8
<1> HIDE DEF iter
<1>10. iter[1..0] = Overviews!NoRow
    BY <1>9 DEF Body
<1>11. ASSUME NEW k \in 1..5 PROVE iter[1..k] = Overviews!Reads(p, iter[1..(k - 1)], S[k])
  <2>1. 1..k \in SUBSET (1..5) /\ 1..k # {} /\ k \in Nat \ {0}
      BY UpTo
  <2>2. iter[1..k] = Overviews!Reads(p, iter[(1..k) \ {Latest(1..k)}], S[Latest(1..k)])
      BY <1>9, <2>1 DEF Body
  <2>3. Latest(1..k) = k /\ (1..k) \ {k} = 1..(k - 1)
      BY <2>1, LatestOfAll
  <2> QED BY <2>2, <2>3
<1>12. /\ iter[1..1] = Overviews!Reads(p, iter[1..0], S[1])
       /\ iter[1..2] = Overviews!Reads(p, iter[1..1], S[2])
       /\ iter[1..3] = Overviews!Reads(p, iter[1..2], S[3])
       /\ iter[1..4] = Overviews!Reads(p, iter[1..3], S[4])
       /\ iter[1..5] = Overviews!Reads(p, iter[1..4], S[5])
    BY <1>11
<1>13. iter[1..1] \in Rows /\ iter[1..2] \in Rows /\ iter[1..3] \in Rows /\ iter[1..4] \in Rows
  <2>1. 1 \in 1..5 /\ 2 \in 1..5 /\ 3 \in 1..5 /\ 4 \in 1..5
      OBVIOUS
  <2> HIDE DEF Rows
  <2> QED BY <1>2, <1>10, <1>12, <1>14, <2>1
<1> HIDE DEF Rows
<1> QED BY <1>1, <1>2, <1>3, <1>10, <1>12, <1>13

\* What the sources say of a pod.
LEMMA MineIs ==
  ASSUME NEW p \in DOMAIN s1.pods
  PROVE  /\ \A x : (x \in Overviews!Samples("waiting") /\ x[1] = p)
                     <=> \E c \in PodContainers : Waits(p, c) /\ x = <<p, c, s1.pods[p].waiting[c]>>
         /\ \A x : (x \in Overviews!Samples("exit") /\ x[1] = p)
                     <=> \E c \in PodContainers : Exits(p, c) /\ x = <<p, c, s1.pods[p].exit[c]>>
         /\ \A x : (x \in Overviews!Samples("Failed") /\ x[1] = p)
                     <=> s1.pods[p].phase = "Failed" /\ x = <<p, PodItself, "Failed">>
         /\ \A x : (x \in Overviews!Samples("Pending") /\ x[1] = p)
                     <=> s1.pods[p].phase = "Pending" /\ x = <<p, PodItself, "Pending">>
         /\ \A x : (x \in Overviews!Samples("NotReady") /\ x[1] = p)
                     <=> ~s1.pods[p].ready /\ x = <<p, PodItself, "NotReady">>
<1>1. ASSUME NEW x
      PROVE  (x \in Overviews!Samples("waiting") /\ x[1] = p)
               <=> \E c \in PodContainers : Waits(p, c) /\ x = <<p, c, s1.pods[p].waiting[c]>>
  <2>1. ASSUME x \in Overviews!Samples("waiting"), x[1] = p
        PROVE  \E c \in PodContainers : Waits(p, c) /\ x = <<p, c, s1.pods[p].waiting[c]>>
    <3>1. PICK y \in (DOMAIN s1.pods) \X PodContainers :
            /\ x = <<y[1], y[2], s1.pods[y[1]].waiting[y[2]]>>
            /\ s1.pods[y[1]].waiting[y[2]] \notin Overviews!Starting
        BY <2>1, SamplesAre
    <3>2. y[1] = p /\ y[2] \in PodContainers
        BY <2>1, <3>1
    <3> QED BY <3>1, <3>2 DEF Waits
  <2>2. ASSUME NEW c \in PodContainers, Waits(p, c), x = <<p, c, s1.pods[p].waiting[c]>>
        PROVE  x \in Overviews!Samples("waiting") /\ x[1] = p
    <3>1. <<p, c>> \in (DOMAIN s1.pods) \X PodContainers
        OBVIOUS
    <3> QED BY <2>2, <3>1, SamplesAre DEF Waits
  <2> QED BY <2>1, <2>2
<1>2. ASSUME NEW x
      PROVE  (x \in Overviews!Samples("exit") /\ x[1] = p)
               <=> \E c \in PodContainers : Exits(p, c) /\ x = <<p, c, s1.pods[p].exit[c]>>
  <2>1. ASSUME x \in Overviews!Samples("exit"), x[1] = p
        PROVE  \E c \in PodContainers : Exits(p, c) /\ x = <<p, c, s1.pods[p].exit[c]>>
    <3>1. PICK y \in (DOMAIN s1.pods) \X PodContainers :
            /\ x = <<y[1], y[2], s1.pods[y[1]].exit[y[2]]>>
            /\ s1.pods[y[1]].exit[y[2]] \notin {Overviews!Unset, "Completed"}
        BY <2>1, SamplesAre
    <3>2. y[1] = p /\ y[2] \in PodContainers
        BY <2>1, <3>1
    <3> QED BY <3>1, <3>2 DEF Exits
  <2>2. ASSUME NEW c \in PodContainers, Exits(p, c), x = <<p, c, s1.pods[p].exit[c]>>
        PROVE  x \in Overviews!Samples("exit") /\ x[1] = p
    <3>1. <<p, c>> \in (DOMAIN s1.pods) \X PodContainers
        OBVIOUS
    <3> QED BY <2>2, <3>1, SamplesAre DEF Exits
  <2> QED BY <2>1, <2>2
<1>3. \A x : (x \in Overviews!Samples("Failed") /\ x[1] = p)
               <=> s1.pods[p].phase = "Failed" /\ x = <<p, PodItself, "Failed">>
    BY SamplesAre
<1>4. \A x : (x \in Overviews!Samples("Pending") /\ x[1] = p)
               <=> s1.pods[p].phase = "Pending" /\ x = <<p, PodItself, "Pending">>
    BY SamplesAre
<1>5. \A x : (x \in Overviews!Samples("NotReady") /\ x[1] = p)
               <=> ~s1.pods[p].ready /\ x = <<p, PodItself, "NotReady">>
    BY SamplesAre
<1> QED BY <1>1, <1>2, <1>3, <1>4, <1>5

\* A row that is written stays as it is, but for its exit.
LEMMA Written ==
  ASSUME s1 \in Overviewed, s2 = {}, NEW p, NEW r \in Rows, r.status # Overviews!Unset
  PROVE  /\ Overviews!Reads(p, r, "Failed") = r
         /\ Overviews!Reads(p, r, "Pending") = r
         /\ Overviews!Reads(p, r, "NotReady") = r
<1> SUFFICES ASSUME NEW q \in {"Failed", "Pending", "NotReady"} PROVE Overviews!Reads(p, r, q) = r
    OBVIOUS
<1> DEFINE M == {s \in Overviews!Samples(q) : s[1] = p}
           x == Overviews!Reads(p, r, q)
<1>1. Fits(q, p, r, M, x)
    BY ReadKeeps
<1> HIDE DEF x
<1>2. x = r
    BY <1>1 DEF Fits
<1> QED BY <1>2 DEF x

\* One that is not takes what a source says that names the pod.
LEMMA Unwritten ==
  ASSUME s1 \in Overviewed, s2 = {},
         NEW q \in {"waiting", "exit", "Failed", "Pending", "NotReady"}, NEW p,
         Overviews!NoRow \in Rows
  PROVE  IF \E s \in Overviews!Samples(q) : s[1] = p
         THEN \E s \in Overviews!Samples(q) :
                s[1] = p /\ Overviews!Reads(p, Overviews!NoRow, q) =
                             [status |-> s[3], container |-> s[2], exit |-> Overviews!Unset]
         ELSE Overviews!Reads(p, Overviews!NoRow, q) = Overviews!NoRow
<1> DEFINE M == {s \in Overviews!Samples(q) : s[1] = p}
           x == Overviews!Reads(p, Overviews!NoRow, q)
<1>1. Fits(q, p, Overviews!NoRow, M, x)
    BY ReadKeeps
<1> HIDE DEF x
<1>2. Overviews!NoRow.status = Overviews!Unset
    BY DEF Overviews!NoRow
<1>3. IF M = {} THEN x = Overviews!NoRow
      ELSE \E s \in M : x = [status |-> s[3], container |-> s[2], exit |-> Overviews!Unset]
    BY <1>1, <1>2 DEF Fits
<1> QED BY <1>3 DEF x

\* The row of a pod.
LEMMA RowIs ==
  ASSUME s1 \in Overviewed, s2 = {}, NEW p \in DOMAIN s1.pods
  PROVE  LET waits == {c \in PodContainers : Waits(p, c)}
             exits == {c \in PodContainers : Exits(p, c)}
             Own(q) == [status |-> q, container |-> PodItself, exit |-> Overviews!Unset]
         IN  IF waits # {}
             THEN \E c \in waits : Overviews!Row(p) =
                    [status |-> s1.pods[p].waiting[c], container |-> c,
                     exit |-> IF c \in exits THEN s1.pods[p].exit[c] ELSE Overviews!Unset]
             ELSE IF exits # {}
             THEN \E c \in exits : Overviews!Row(p) =
                    [status |-> s1.pods[p].exit[c], container |-> c, exit |-> Overviews!Unset]
             ELSE Overviews!Row(p) = IF s1.pods[p].phase = "Failed" THEN Own("Failed")
                                     ELSE IF s1.pods[p].phase = "Pending" THEN Own("Pending")
                                     ELSE IF ~s1.pods[p].ready THEN Own("NotReady")
                                     ELSE Overviews!NoRow
<1> DEFINE waits == {c \in PodContainers : Waits(p, c)}
           exits == {c \in PodContainers : Exits(p, c)}
           Own(q) == [status |-> q, container |-> PodItself, exit |-> Overviews!Unset]
<1>1. PICK r1 \in Rows, r2 \in Rows, r3 \in Rows, r4 \in Rows :
           /\ r1 = Overviews!Reads(p, Overviews!NoRow, "waiting")
           /\ r2 = Overviews!Reads(p, r1, "exit")
           /\ r3 = Overviews!Reads(p, r2, "Failed")
           /\ r4 = Overviews!Reads(p, r3, "Pending")
           /\ Overviews!Row(p) = Overviews!Reads(p, r4, "NotReady")
           /\ Overviews!NoRow \in Rows
    BY RowReads
<1>2. ASSUME NEW q \in {"waiting", "exit", "Failed", "Pending", "NotReady"}
      PROVE  IF \E s \in Overviews!Samples(q) : s[1] = p
             THEN \E s \in Overviews!Samples(q) :
                    s[1] = p /\ Overviews!Reads(p, Overviews!NoRow, q) =
                                 [status |-> s[3], container |-> s[2], exit |-> Overviews!Unset]
             ELSE Overviews!Reads(p, Overviews!NoRow, q) = Overviews!NoRow
    BY <1>1, Unwritten
<1>3. ASSUME r2.status # Overviews!Unset PROVE Overviews!Row(p) = r2
  <2>1. r3 = r2
      BY <1>1, <1>3, Written
  <2>2. r4 = r2
      BY <1>1, <1>3, <2>1, Written
  <2> QED BY <1>1, <1>3, <2>2, Written
<1>4. CASE waits # {}
  <2>1. PICK c \in waits : r1 = [status |-> s1.pods[p].waiting[c], container |-> c, exit |-> Overviews!Unset]
    <3>0. PICK c \in PodContainers : Waits(p, c)
        BY <1>4
    <3>1. LET s == <<p, c, s1.pods[p].waiting[c]>>
          IN  s \in Overviews!Samples("waiting") /\ s[1] = p
        BY <3>0, MineIs
    <3>2. PICK s \in Overviews!Samples("waiting") : s[1] = p /\ r1 =
                   [status |-> s[3], container |-> s[2], exit |-> Overviews!Unset]
        BY <1>1, <1>2, <3>1
    <3>3. PICK d \in PodContainers : Waits(p, d) /\ s = <<p, d, s1.pods[p].waiting[d]>>
        BY <3>2, MineIs
    <3> QED BY <3>2, <3>3
  <2>2. r1.status # Overviews!Unset
    <3>1. s1.pods[p].waiting[c] \notin Overviews!Starting
        BY DEF Waits
    <3>2. Overviews!Unset \in Overviews!Starting
        BY Zenon DEF Overviews!Starting
    <3> QED BY <2>1, <3>1, <3>2
  <2> DEFINE M == {s \in Overviews!Samples("exit") : s[1] = p}
  <2>3. Fits("exit", p, r1, M, r2)
      BY <1>1, ReadKeeps
  <2>4. (\E s \in M : s[2] = c) <=> c \in exits
    <3>1. ASSUME NEW s \in M, s[2] = c PROVE c \in exits
      <4>1. PICK d \in PodContainers : Exits(p, d) /\ s = <<p, d, s1.pods[p].exit[d]>>
          BY <3>1, MineIs
      <4> QED BY <3>1, <4>1
    <3>2. ASSUME c \in exits PROVE \E s \in M : s[2] = c
      <4>1. <<p, c, s1.pods[p].exit[c]>> \in M
          BY <3>2, MineIs
      <4> QED BY <4>1
    <3> QED BY <3>1, <3>2
  <2> HIDE DEF M
  <2>5. r2 = IF c \in exits THEN [r1 EXCEPT !.exit = s1.pods[p].exit[c]] ELSE r1
    <3>1. r1.exit = Overviews!Unset /\ r1.container = c
        BY <2>1
    <3> HIDE DEF exits
    <3> QED BY <2>2, <2>3, <2>4, <3>1 DEF Fits
  <2>6. r2 = [status |-> s1.pods[p].waiting[c], container |-> c,
              exit |-> IF c \in exits THEN s1.pods[p].exit[c] ELSE Overviews!Unset]
      BY <2>1, <2>5
  <2>7. Overviews!Row(p) = r2
    <3>1. r2.status = r1.status
        BY <2>1, <2>6
    <3> QED BY <1>3, <2>2, <3>1
  <2> QED BY <1>4, <2>6, <2>7
<1>5. ASSUME waits = {} PROVE r1 = Overviews!NoRow
  <2>1. ~\E s \in Overviews!Samples("waiting") : s[1] = p
      BY <1>5, MineIs
  <2> QED BY <1>1, <1>2, <2>1
<1>6. CASE waits = {} /\ exits # {}
  <2>1. PICK c \in exits : r2 = [status |-> s1.pods[p].exit[c], container |-> c, exit |-> Overviews!Unset]
    <3>0. PICK c \in PodContainers : Exits(p, c)
        BY <1>6
    <3>1. LET s == <<p, c, s1.pods[p].exit[c]>>
          IN  s \in Overviews!Samples("exit") /\ s[1] = p
        BY <3>0, MineIs
    <3>2. PICK s \in Overviews!Samples("exit") : s[1] = p /\ r2 =
                   [status |-> s[3], container |-> s[2], exit |-> Overviews!Unset]
        BY <1>1, <1>2, <1>5, <1>6, <3>1
    <3>3. PICK d \in PodContainers : Exits(p, d) /\ s = <<p, d, s1.pods[p].exit[d]>>
        BY <3>2, MineIs
    <3> QED BY <3>2, <3>3
  <2>2. r2.status # Overviews!Unset
      BY <2>1 DEF Exits
  <2> QED BY <1>3, <1>6, <2>1, <2>2
<1>7. CASE waits = {} /\ exits = {}
  <2>1. r2 = Overviews!NoRow
    <3>1. ~\E s \in Overviews!Samples("exit") : s[1] = p
        BY <1>7, MineIs
    <3> QED BY <1>1, <1>2, <1>5, <1>7, <3>1
  <2> DEFINE Holds(q) == CASE q = "NotReady" -> ~s1.pods[p].ready
                           [] OTHER -> s1.pods[p].phase = q
  <2>2. ASSUME NEW q \in {"Failed", "Pending", "NotReady"}
        PROVE  Overviews!Reads(p, Overviews!NoRow, q) = IF Holds(q) THEN Own(q) ELSE Overviews!NoRow
    <3>1. \A x : (x \in Overviews!Samples(q) /\ x[1] = p) <=> Holds(q) /\ x = <<p, PodItself, q>>
        BY MineIs
    <3> HIDE DEF Says
    <3>2. CASE Holds(q)
      <4>1. <<p, PodItself, q>> \in Overviews!Samples(q) /\ <<p, PodItself, q>>[1] = p
          BY <3>1, <3>2
      <4>2. PICK s \in Overviews!Samples(q) :
               s[1] = p /\ Overviews!Reads(p, Overviews!NoRow, q) =
                            [status |-> s[3], container |-> s[2], exit |-> Overviews!Unset]
          BY <1>2, <4>1
      <4>3. s = <<p, PodItself, q>>
          BY <3>1, <4>2
      <4> QED BY <3>2, <4>2, <4>3
    <3>3. CASE ~Holds(q)
      <4>1. ~\E s \in Overviews!Samples(q) : s[1] = p
          BY <3>1, <3>3
      <4> QED BY <1>2, <3>3, <4>1
    <3> QED BY <3>2, <3>3
  <2>3. /\ Overviews!Reads(p, Overviews!NoRow, "Failed") =
              IF s1.pods[p].phase = "Failed" THEN Own("Failed") ELSE Overviews!NoRow
        /\ Overviews!Reads(p, Overviews!NoRow, "Pending") =
              IF s1.pods[p].phase = "Pending" THEN Own("Pending") ELSE Overviews!NoRow
        /\ Overviews!Reads(p, Overviews!NoRow, "NotReady") =
              IF ~s1.pods[p].ready THEN Own("NotReady") ELSE Overviews!NoRow
      BY <2>2
  <2>4. Overviews!Unset # "Failed" /\ Overviews!Unset # "Pending"
      BY Zenon DEF Overviews!Unset
  <2>5. r3 = IF s1.pods[p].phase = "Failed" THEN Own("Failed") ELSE Overviews!NoRow
      BY <1>1, <2>1, <2>3
  <2>6. CASE s1.pods[p].phase = "Failed"
    <3>1. r3 = Own("Failed") /\ r3.status # Overviews!Unset
        BY <2>4, <2>5, <2>6
    <3>2. r4 = r3
        BY <1>1, <3>1, Written
    <3>3. Overviews!Row(p) = r3
        BY <1>1, <3>1, <3>2, Written
    <3> QED BY <1>7, <2>6, <3>1, <3>3
  <2>7. CASE s1.pods[p].phase = "Pending"
    <3>1. r3 = Overviews!NoRow
        BY <2>5, <2>7
    <3>2. r4 = Own("Pending") /\ r4.status # Overviews!Unset
        BY <1>1, <2>3, <2>4, <2>7, <3>1
    <3>3. Overviews!Row(p) = r4
        BY <1>1, <3>2, Written
    <3> QED BY <1>7, <2>7, <3>2, <3>3
  <2>8. CASE s1.pods[p].phase \notin {"Failed", "Pending"}
    <3>1. r3 = Overviews!NoRow
        BY <2>5, <2>8
    <3>2. r4 = Overviews!NoRow
        BY <1>1, <2>3, <2>8, <3>1
    <3>3. Overviews!Row(p) = IF ~s1.pods[p].ready THEN Own("NotReady") ELSE Overviews!NoRow
        BY <1>1, <2>3, <3>2
    <3> QED BY <1>7, <2>8, <3>3
  <2> QED BY <2>6, <2>7, <2>8
<1> QED BY <1>4, <1>6, <1>7

\* Of a pod without a container that fails, what is seen is what its row says.
LEMMA PodSeen ==
  ASSUME NEW p \in DOMAIN s1.pods, \A c \in PodContainers : ~Waits(p, c) /\ ~Exits(p, c)
  PROVE  LET q == IF s1.pods[p].phase = "Failed" THEN "Failed"
                  ELSE IF s1.pods[p].phase = "Pending" THEN "Pending"
                  ELSE IF ~s1.pods[p].ready THEN "NotReady" ELSE Overviews!Unset
             mine == {x \in AllSeen : x.pod = p}
         IN  /\ q = Overviews!Unset => mine = {}
             /\ q # Overviews!Unset => \E x \in mine : x.reason = q /\ x.exit = Overviews!Unset
             /\ \A x \in mine : x.container = PodItself
<1> DEFINE A == Overviews!Findings
           q == IF s1.pods[p].phase = "Failed" THEN "Failed"
                ELSE IF s1.pods[p].phase = "Pending" THEN "Pending"
                ELSE IF ~s1.pods[p].ready THEN "NotReady" ELSE Overviews!Unset
           k == IF s1.pods[p].phase = "Failed" THEN 3 ELSE IF s1.pods[p].phase = "Pending" THEN 4 ELSE 5
           mine == {x \in AllSeen : x.pod = p}
<1>0. PodItself \notin PodContainers
    BY MCSeenPods DEF Overviews!OverviewAssumption
<1>1. \A f : f \in A <=> Says(f)
    BY FindingsAre
<1>2. ASSUME NEW f \in A, f.pod = p
      PROVE  /\ f.rank > 2 /\ f.container = PodItself
             /\ s1.pods[p].phase = "Failed" \/ s1.pods[p].phase = "Pending" \/ ~s1.pods[p].ready
             /\ k <= f.rank /\ (f.rank = k => f.reason = q)
             /\ Seen(A, f) = f
  <2>1. f.rank # 1
      BY <1>1, <1>2 DEF Says, Waits
  <2>2. f.rank # 2
      BY <1>1, <1>2 DEF Says, Exits
  <2>3. f.rank \in 3..5 /\ f.container = PodItself
      BY <1>1, <2>1, <2>2 DEF Says
  <2>4. Seen(A, f) = f
      BY <1>1, <2>1, SeenIs DEF Beside
  <2>5. /\ f.rank = 3 => f.reason = "Failed" /\ s1.pods[p].phase = "Failed"
        /\ f.rank = 4 => f.reason = "Pending" /\ s1.pods[p].phase = "Pending"
        /\ f.rank = 5 => f.reason = "NotReady" /\ ~s1.pods[p].ready
      BY <1>1, <1>2 DEF Says
  <2>6. k <= f.rank /\ (f.rank = k => f.reason = q)
      BY <2>3, <2>5
  <2> QED BY <2>3, <2>4, <2>5, <2>6
<1>3. ASSUME NEW x \in mine PROVE x \in A /\ x \in Ahead(A) /\ x.container = PodItself
  <2>1. PICK f \in Ahead(A) : x = Seen(A, f)
      BY DEF AllSeen, Retained
  <2>2. f \in A /\ f.pod = p
      BY <1>1, <2>1, SeenIs DEF Ahead, Same
  <2> QED BY <1>2, <2>1, <2>2
<1>4. ASSUME q = Overviews!Unset PROVE mine = {}
  <2>1. Overviews!Unset # "Failed" /\ Overviews!Unset # "Pending" /\ Overviews!Unset # "NotReady"
      BY Zenon DEF Overviews!Unset
  <2>2. s1.pods[p].phase # "Failed" /\ s1.pods[p].phase # "Pending" /\ s1.pods[p].ready
      BY <1>4, <2>1
  <2> QED BY <1>2, <1>3, <2>2
<1>5. ASSUME q # Overviews!Unset
      PROVE  \E x \in mine : x.reason = q /\ x.exit = Overviews!Unset
  <2> DEFINE h == [pod |-> p, container |-> PodItself, reason |-> q, exit |-> Overviews!Unset, rank |-> k]
  <2>1. Says(h)
    <3>1. k \in 3..5 /\ h.pod \in DOMAIN s1.pods
        OBVIOUS
    <3>2. /\ k = 3 => q = "Failed" /\ s1.pods[p].phase = "Failed"
          /\ k = 4 => q = "Pending" /\ s1.pods[p].phase = "Pending"
          /\ k = 5 => q = "NotReady" /\ ~s1.pods[p].ready
        BY <1>5
    <3> HIDE DEF q, k
    <3> QED BY <3>1, <3>2 DEF Says
  <2>2. h \in A
      BY <1>1, <2>1
  <2>3. PICK f \in Ahead(A) : Same(h, f) /\ f.rank <= h.rank
    <3> HIDE DEF h
    <3> QED BY <1>1, <2>2, SomeAhead
  <2>4. f.pod = p /\ f \in A /\ f.rank <= k
      BY <2>3 DEF Same, Ahead
  <2>5. f.rank = k
    <3>1. f.rank \in 1..5 /\ k \in 3..5 /\ k <= f.rank
        BY <1>1, <1>2, <2>4 DEF Says
    <3> HIDE DEF k
    <3> QED BY <2>4, <3>1
  <2>6. f.reason = q /\ f.exit = Overviews!Unset
      BY <1>1, <1>2, <2>4, <2>5 DEF Says
  <2>7. f \in mine
      BY <1>2, <2>3, <2>4 DEF AllSeen, Retained
  <2> QED BY <2>6, <2>7
<1> HIDE DEF q, mine
<1>6. /\ q = Overviews!Unset => mine = {}
      /\ q # Overviews!Unset => \E x \in mine : x.reason = q /\ x.exit = Overviews!Unset
      /\ \A x \in mine : x.container = PodItself
    BY <1>3, <1>4, <1>5
<1> QED BY <1>6 DEF q, mine

\* A pod has a row when it has a finding, and one of these is the row.
LEMMA RowOfFinding ==
  ASSUME Overviews!IInv, Overviews!Whole, NEW p \in DOMAIN s1.pods
  PROVE  IF Overviews!Row(p).status # Overviews!Unset
         THEN \E f \in Overviews!Problems :
                /\ f.pod = p /\ f.container = Overviews!Row(p).container
                /\ f.reason = Overviews!Row(p).status /\ f.exit = Overviews!Row(p).exit
         ELSE ~\E f \in Overviews!Problems : f.pod = p
<1> DEFINE waits == {c \in PodContainers : Waits(p, c)}
           exits == {c \in PodContainers : Exits(p, c)}
           Own(q) == [status |-> q, container |-> PodItself, exit |-> Overviews!Unset]
<1>0. s1 \in Overviewed /\ s2 = {}
    BY DEF Overviews!IInv, Overviews!TypeOK, Overviews!Whole
<1>1. /\ waits # {} => \E c \in waits : Overviews!Row(p) =
           [status |-> s1.pods[p].waiting[c], container |-> c,
            exit |-> IF c \in exits THEN s1.pods[p].exit[c] ELSE Overviews!Unset]
      /\ waits = {} /\ exits # {} => \E c \in exits : Overviews!Row(p) =
           [status |-> s1.pods[p].exit[c], container |-> c, exit |-> Overviews!Unset]
      /\ waits = {} /\ exits = {} =>
           Overviews!Row(p) = IF s1.pods[p].phase = "Failed" THEN Own("Failed")
                              ELSE IF s1.pods[p].phase = "Pending" THEN Own("Pending")
                              ELSE IF ~s1.pods[p].ready THEN Own("NotReady")
                              ELSE Overviews!NoRow
    BY <1>0, RowIs
<1>2. \A x : x \in Overviews!Problems <=>
        /\ x \in AllSeen
        /\ x.container = PodItself => ~\E g \in AllSeen : g.pod = x.pod /\ g.container # PodItself
    BY ProblemsAre
<1>3. ASSUME NEW c \in PodContainers, Waits(p, c) \/ Exits(p, c)
      PROVE  Shows(p, c) \in Overviews!Problems /\ Shows(p, c).pod = p /\ Shows(p, c).container = c
  <2>1. Shows(p, c) \in AllSeen /\ Shows(p, c).container # PodItself
      BY <1>3, ContainersSeen
  <2> QED BY <1>2, <2>1 DEF Shows
<1>4. CASE waits # {}
  <2>1. PICK c \in waits : Overviews!Row(p) =
           [status |-> s1.pods[p].waiting[c], container |-> c,
            exit |-> IF c \in exits THEN s1.pods[p].exit[c] ELSE Overviews!Unset]
      BY <1>1, <1>4
  <2>2. /\ Shows(p, c) \in Overviews!Problems /\ Shows(p, c).pod = p /\ Shows(p, c).container = c
        /\ Shows(p, c).reason = s1.pods[p].waiting[c]
        /\ Shows(p, c).exit = IF c \in exits THEN s1.pods[p].exit[c] ELSE Overviews!Unset
      BY <1>3 DEF Shows
  <2>3. s1.pods[p].waiting[c] # Overviews!Unset
    <3>1. s1.pods[p].waiting[c] \notin Overviews!Starting
        BY DEF Waits
    <3>2. Overviews!Unset \in Overviews!Starting
        BY Zenon DEF Overviews!Starting
    <3> QED BY <3>1, <3>2
  <2> QED BY <2>1, <2>2, <2>3
<1>5. CASE waits = {} /\ exits # {}
  <2>1. PICK c \in exits : Overviews!Row(p) =
           [status |-> s1.pods[p].exit[c], container |-> c, exit |-> Overviews!Unset]
      BY <1>1, <1>5
  <2>2. /\ Shows(p, c) \in Overviews!Problems /\ Shows(p, c).pod = p /\ Shows(p, c).container = c
        /\ Shows(p, c).reason = s1.pods[p].exit[c]
        /\ Shows(p, c).exit = Overviews!Unset
      BY <1>3, <1>5 DEF Shows
  <2>3. s1.pods[p].exit[c] # Overviews!Unset
      BY DEF Exits
  <2> QED BY <2>1, <2>2, <2>3
<1>6. CASE waits = {} /\ exits = {}
  <2> DEFINE q == IF s1.pods[p].phase = "Failed" THEN "Failed"
                  ELSE IF s1.pods[p].phase = "Pending" THEN "Pending"
                  ELSE IF ~s1.pods[p].ready THEN "NotReady" ELSE Overviews!Unset
             mine == {x \in AllSeen : x.pod = p}
  <2>1. Overviews!Row(p) = Own(q)
    <3>1. Overviews!NoRow = Own(Overviews!Unset)
        BY DEF Overviews!NoRow
    <3> QED BY <1>1, <1>6, <3>1
  <2>2. /\ q = Overviews!Unset => mine = {}
        /\ q # Overviews!Unset => \E x \in mine : x.reason = q /\ x.exit = Overviews!Unset
        /\ \A x \in mine : x.container = PodItself
      BY <1>6, PodSeen
  <2> HIDE DEF q
  <2>3. \A x \in mine : x \in Overviews!Problems
      BY <1>2, <2>2
  <2>4. \A x \in Overviews!Problems : x.pod = p => x \in mine
      BY <1>2
  <2> QED BY <2>1, <2>2, <2>3, <2>4
<1> QED BY <1>4, <1>5, <1>6

\* The table is the list.
LEMMA ListIsTable == Overviews!IInv => Overviews!TableIsTheList
<1> SUFFICES ASSUME Overviews!IInv, Overviews!Whole
    PROVE /\ Overviews!Table = {f.pod : f \in Overviews!Problems}
          /\ \A p \in Overviews!Table : \E f \in Overviews!Problems :
                /\ f.pod = p /\ f.container = Overviews!Row(p).container
                /\ f.reason = Overviews!Row(p).status /\ f.exit = Overviews!Row(p).exit
    BY DEF Overviews!TableIsTheList
<1>1. \A p : p \in Overviews!Table <=> p \in DOMAIN s1.pods /\ Overviews!Row(p).status # Overviews!Unset
    BY DEF Overviews!Table, Overviews!Ids
<1>2. ASSUME NEW f \in Overviews!Problems PROVE f.pod \in DOMAIN s1.pods
  <2>1. f \in AllSeen
      BY ProblemsAre
  <2>2. PICK g \in Ahead(Overviews!Findings) : f = Seen(Overviews!Findings, g)
      BY <2>1 DEF AllSeen, Retained
  <2>3. Says(g)
      BY FindingsAre DEF Ahead
  <2>4. f.pod = g.pod
      BY <2>2, <2>3, SeenIs DEF Same
  <2> QED BY <2>3, <2>4 DEF Says
<1>3. \A p \in DOMAIN s1.pods :
         IF Overviews!Row(p).status # Overviews!Unset
         THEN \E f \in Overviews!Problems :
                /\ f.pod = p /\ f.container = Overviews!Row(p).container
                /\ f.reason = Overviews!Row(p).status /\ f.exit = Overviews!Row(p).exit
         ELSE ~\E f \in Overviews!Problems : f.pod = p
    BY RowOfFinding
<1> QED BY <1>1, <1>2, <1>3

\* All that the panels say at once.
LEMMA PanelsRest == Overviews!IInv => Overviews!PanelsAgree
BY OneEach, ListIsTable, TileCounts, CardsSum, VerdictRests
    DEF Overviews!PanelsAgree, Overviews!IInv

\* What the panels rest on is so at first.
LEMMA OverviewInit == Overviews!Init => Overviews!IInv
BY ListedInit DEF Overviews!Init, Overviews!TypeOK, Overviews!IInv

\* Every answer keeps it.
LEMMA OverviewStep ==
  ASSUME Overviews!IInv,
         NEW q \in {"waiting", "exit", "Failed", "Pending", "NotReady"}, Overviews!Collect(q)
  PROVE  Overviews!IInv'
<1>0. Overviews!TypeOK /\ Overviews!Listed
    BY DEF Overviews!IInv
<1> DEFINE samples == Overviews!Answers("list", q)
           told == [i \in DOMAIN samples |-> Overviews!Finding(samples[i], q)]
<1>1. s3' = s3 \ {q} /\ s4' = s4 \o told /\ s1' = s1 /\ s2' = s2
    BY DEF Overviews!Collect
<1>2. samples \in Seq(Overviews!Samples(q))
  <2>1. Overviews!SetToSeq(Overviews!Samples(q)) \in Seq(Overviews!Samples(q))
      BY <1>0, FiniteSamples, InARow DEF Overviews!TypeOK
  <2> QED BY <2>1 DEF Overviews!Answers
<1> HIDE DEF samples
<1>3. ASSUME NEW x \in Overviews!Samples(q)
      PROVE  Overviews!Finding(x, q) \in Overviews!Findings
  <2>1. PICK i \in 1..5 : q = Overviews!Sources[i]
      BY SourceNames
  <2> QED BY <2>1 DEF Overviews!Findings
<1>4. told \in Seq(Overviews!Findings)
  <2>1. \A i \in 1..Len(samples) : samples[i] \in Overviews!Samples(q)
      BY <1>2
  <2>2. DOMAIN samples = 1..Len(samples) /\ Len(samples) \in Nat
      BY <1>2
  <2>3. \A i \in 1..Len(samples) : told[i] \in Overviews!Findings
      BY <1>3, <2>1, <2>2
  <2>4. told \in [1..Len(samples) -> Overviews!Findings]
      BY <2>2, <2>3
  <2> QED BY <2>2, <2>4
<1> HIDE DEF told
<1>5. Overviews!Findings' = Overviews!Findings
  <2>1. \A x : Overviews!Samples(x)' = Overviews!Samples(x)
      BY <1>1 DEF Overviews!Samples, Overviews!OfContainers, Overviews!OfPods,
          Overviews!Ids
  <2> QED BY <2>1 DEF Overviews!Findings
<1>6. s4' \in Seq(Overviews!Findings)
    BY <1>0, <1>1, <1>4 DEF Overviews!TypeOK
<1>7. Overviews!TypeOK'
    BY <1>0, <1>1, <1>5, <1>6 DEF Overviews!TypeOK
<1>8. Overviews!Listed'
    BY <1>0, ListedStep
<1> QED BY <1>7, <1>8 DEF Overviews!IInv

\* What is at rest keeps it.
LEMMA OverviewRests == Overviews!IInv /\ UNCHANGED Overviews!vars => Overviews!IInv'
<1> SUFFICES ASSUME Overviews!IInv, UNCHANGED Overviews!vars PROVE Overviews!IInv'
    OBVIOUS
<1>1. s1' = s1 /\ s2' = s2 /\ s3' = s3 /\ s4' = s4
    BY DEF Overviews!vars
<1>2. \A x : Overviews!Samples(x)' = Overviews!Samples(x)
    BY <1>1 DEF Overviews!Samples, Overviews!OfContainers, Overviews!OfPods, Overviews!Ids
<1>3. Overviews!Findings' = Overviews!Findings
    BY <1>2 DEF Overviews!Findings
<1>4. Overviews!TypeOK'
    BY <1>1, <1>3 DEF Overviews!IInv, Overviews!TypeOK
<1> DEFINE Of(x) == {Overviews!Finding(s, x) : s \in Overviews!Samples(x)}
           asked == {x \in {Overviews!Sources[i] : i \in 1..5} \ s3 : <<"list", x>> \notin s2}
<1>5. \A x : (Of(x))' = Of(x)
    BY <1>2
<1>6. asked' = asked
    BY <1>1
<1> HIDE DEF Of, asked
<1>7. (UNION {Of(x) : x \in asked})' = UNION {Of(x) : x \in asked}
    BY <1>5, <1>6
<1>8. Overviews!Listed <=> {s4[i] : i \in DOMAIN s4} = UNION {Of(x) : x \in asked}
    BY DEF Overviews!Listed, Overviews!ToSet, Of, asked
<1>9. Overviews!Listed' <=> {s4'[i] : i \in DOMAIN s4'} = (UNION {Of(x) : x \in asked})'
    BY DEF Overviews!Listed, Overviews!ToSet, Of, asked
<1>10. Overviews!Listed'
    BY <1>1, <1>7, <1>8, <1>9 DEF Overviews!IInv
<1> QED BY <1>4, <1>10 DEF Overviews!IInv

-----------------------------------------------------------------------------
(* What a log store says (logsearch/sweep.go, cluster/logs_sweeper.go). *)

\* There are finitely many names and a namespace, and logs and rules are lists.
LEMMA FindingsBounds ==
  /\ FS!IsFiniteSet(LogPods) /\ LogPods \subseteq Nat /\ Spaces # {}
  /\ \A list \in PodLogs \cup StoredRules : Len(list) \in Nat /\ DOMAIN list = 1..Len(list)
BY MCFindings DEF Findings!FindingsAssumption, Findings!IsFiniteSet, FS!IsFiniteSet

\* Findings of different pods can be put in order, each in one place: the place
\* of a finding is the number of those that are louder.
LEMMA LoudestFirstIs ==
  ASSUME NEW found, FS!IsFiniteSet(found),
         \A f \in found : f.count \in Nat /\ f.pod \in Nat,
         \A f, g \in found : f.pod = g.pod => f = g
  PROVE  /\ FS!Cardinality(found) \in Nat
         /\ Findings!LoudestFirst(found) \in [1..FS!Cardinality(found) -> found]
         /\ \A i, j \in 1..FS!Cardinality(found) :
              i < j => Findings!Louder(Findings!LoudestFirst(found)[i], Findings!LoudestFirst(found)[j])
         /\ \A i, j \in 1..FS!Cardinality(found) :
              Findings!LoudestFirst(found)[i] = Findings!LoudestFirst(found)[j] => i = j
         /\ \A f \in found : \E i \in 1..FS!Cardinality(found) : Findings!LoudestFirst(found)[i] = f
<1> DEFINE n == FS!Cardinality(found)
           louder(f) == {h \in found : Findings!Louder(h, f)}
           place == [f \in found |-> FS!Cardinality(louder(f)) + 1]
<1>1. n \in Nat
    BY FS!FS_CardinalityType
<1>2. \A f, g \in found :
        /\ f # g => Findings!Louder(f, g) \/ Findings!Louder(g, f)
        /\ ~(Findings!Louder(f, g) /\ Findings!Louder(g, f))
    BY DEF Findings!Louder
<1>3. \A f, g, h \in found : Findings!Louder(f, g) /\ Findings!Louder(g, h) => Findings!Louder(f, h)
    BY DEF Findings!Louder
<1>4. ASSUME NEW f \in found
      PROVE  /\ FS!IsFiniteSet(louder(f)) /\ FS!Cardinality(louder(f)) \in Nat
             /\ FS!Cardinality(louder(f)) < n
  <2>1. louder(f) \in SUBSET found /\ f \notin louder(f)
      BY <1>2
  <2> HIDE DEF louder
  <2>2. FS!IsFiniteSet(louder(f)) /\ FS!Cardinality(louder(f)) <= n /\ FS!Cardinality(louder(f)) # n
      BY <2>1, FS!FS_Subset
  <2>3. FS!Cardinality(louder(f)) \in Nat
      BY <2>2, FS!FS_CardinalityType
  <2> HIDE DEF n
  <2> QED BY <1>1, <2>2, <2>3
<1>5. ASSUME NEW f \in found, NEW g \in found, Findings!Louder(f, g)
      PROVE  FS!Cardinality(louder(f)) < FS!Cardinality(louder(g))
  <2>1. louder(f) \in SUBSET louder(g) /\ f \in louder(g) /\ f \notin louder(f)
      BY <1>2, <1>3, <1>5
  <2>2. FS!IsFiniteSet(louder(g))
      BY <1>4
  <2>3. FS!Cardinality(louder(f)) \in Nat /\ FS!Cardinality(louder(g)) \in Nat
      BY <1>4
  <2> HIDE DEF louder
  <2>4. FS!Cardinality(louder(f)) <= FS!Cardinality(louder(g))
      BY <2>1, <2>2, FS!FS_Subset
  <2>5. FS!Cardinality(louder(f)) # FS!Cardinality(louder(g))
      BY <2>1, <2>2, FS!FS_Subset
  <2> QED BY <2>3, <2>4, <2>5
<1> HIDE DEF n, louder
<1>6. \A f \in found : place[f] \in 1..n
    BY <1>1, <1>4
<1>7. \A f, g \in found : place[f] < place[g] <=> Findings!Louder(f, g)
  <2>1. \A f, g \in found : Findings!Louder(f, g) => place[f] < place[g]
      BY <1>4, <1>5
  <2>2. \A f \in found : place[f] \in Nat
      BY <1>4
  <2> HIDE DEF place
  <2> QED BY <1>2, <2>1, <2>2
<1>8. place \in [found -> 1..n]
    BY <1>6
<1>9. \A f, g \in found : place[f] = place[g] => f = g
  <2>1. \A f \in found : place[f] \in Nat
      BY <1>4
  <2> HIDE DEF place
  <2> QED BY <1>2, <1>7, <2>1
<1> HIDE DEF place
<1>10. \A i \in 1..n : \E f \in found : place[f] = i
  <2>1. FS!IsFiniteSet(1..n) /\ FS!Cardinality(1..n) = n
      BY <1>1, FS!FS_Interval
  <2>2. place \in FS!Injection(found, 1..n)
      BY <1>8, <1>9 DEF FS!Injection, FS!IsInjective
  <2>3. place \in FS!Surjection(found, 1..n)
      BY <2>1, <2>2, FS!FS_Injection DEF n
  <2> QED BY <2>3 DEF FS!Surjection
<1> DEFINE r == [i \in 1..n |-> CHOOSE f \in found : place[f] = i]
<1>11. \A i \in 1..n : r[i] \in found /\ place[r[i]] = i
    BY <1>10
<1>12. r \in [1..n -> found] /\ DOMAIN r = 1..n
    BY <1>11
<1>13. \A i, j \in 1..n : i < j => Findings!Louder(r[i], r[j])
    BY <1>7, <1>11
<1> HIDE DEF r
<1> DEFINE s == Findings!LoudestFirst(found)
<1>14. s = CHOOSE x \in [1..n -> found] : \A i, j \in DOMAIN x : i < j => Findings!Louder(x[i], x[j])
    BY DEF Findings!LoudestFirst, n, Findings!Cardinality, FS!Cardinality
<1>15. s \in [1..n -> found] /\ \A i, j \in DOMAIN s : i < j => Findings!Louder(s[i], s[j])
    BY <1>12, <1>13, <1>14
<1> HIDE DEF s
<1>16. \A i, j \in 1..n : i < j => Findings!Louder(s[i], s[j])
    BY <1>15
<1>17. \A i, j \in 1..n : s[i] = s[j] => i = j
    BY <1>1, <1>2, <1>15, <1>16
<1>18. \A f \in found : \E i \in 1..n : s[i] = f
  <2>1. FS!IsFiniteSet(1..n) /\ FS!Cardinality(1..n) = n
      BY <1>1, FS!FS_Interval
  <2>2. s \in FS!Injection(1..n, found)
      BY <1>15, <1>17 DEF FS!Injection, FS!IsInjective
  <2>3. s \in FS!Surjection(1..n, found)
      BY <2>1, <2>2, FS!FS_Injection DEF n
  <2> QED BY <2>3 DEF FS!Surjection
<1> QED BY <1>1, <1>15, <1>16, <1>17, <1>18 DEF n, s

\* What was asked: logs and rules that are lists, one rule list of those stored.
LEMMA AskedIs ==
  ASSUME NEW in \in Findings!Asked
  PROVE  /\ in.stored \in StoredRules /\ in.minCount \in {0, 2} /\ in.logs \in [LogPods -> PodLogs]
         /\ in.holds \in Findings!Types /\ (in.types # {} => in.holds \in in.types)
         /\ DOMAIN Findings!Rules(in.stored) \subseteq Nat
<1>1. in \in Findings!Inputs /\ (in.types # {} => in.holds \in in.types)
    BY DEF Findings!Asked
<1>2. /\ in.stored \in StoredRules /\ in.minCount \in {0, 2} /\ in.logs \in [LogPods -> PodLogs]
      /\ in.holds \in Findings!Types
    BY <1>1 DEF Findings!Inputs
<1>3. DOMAIN Findings!Rules(in.stored) \subseteq Nat
  <2>1. CASE in.stored = <<>>
    <3>1. Findings!Rules(in.stored) = Findings!DefaultRules
        BY <2>1 DEF Findings!Rules
    <3>2. DOMAIN Findings!DefaultRules = 1..2
        BY DEF Findings!DefaultRules
    <3> QED BY <3>1, <3>2
  <2>2. CASE in.stored # <<>>
    <3>1. DOMAIN Findings!Rules(in.stored) \subseteq DOMAIN in.stored
        BY <2>2 DEF Findings!Rules, Findings!Restrict
    <3>2. Len(in.stored) \in Nat /\ DOMAIN in.stored = 1..Len(in.stored)
        BY <1>2, FindingsBounds
    <3> QED BY <3>1, <3>2
  <2> QED BY <2>1, <2>2
<1> QED BY <1>1, <1>2, <1>3

\* What is asked of indices that fit finds the lines of every one, also when
\* nobody could tell what they are.
LEMMA Agreeing ==
  ASSUME NEW in \in Findings!Asked, Findings!Fits(in.types)
  PROVE  Findings!Finds(in.holds) \in Findings!Clauses(Findings!Mapping(in.types))
<1>1. in.holds \in {"text", "keyword", "wildcard"} /\ (in.types # {} => in.holds \in in.types)
    BY AskedIs DEF Findings!Types
<1>2. /\ in.types \in {{}, {"text"}, {"keyword"}, {"keyword", "wildcard"}}
      /\ Findings!Finds(in.holds) = (IF in.holds = "text" THEN "phrase" ELSE "wildcard")
    BY DEF Findings!Fits, Findings!Finds
<1>3. CASE in.types = {}
  <2>1. Findings!Mapping(in.types) = Findings!Unread
      BY <1>3 DEF Findings!Mapping
  <2>2. Findings!Unread # "whole" /\ Findings!Unread # "analyzed"
      BY Zenon DEF Findings!Unread
  <2>3. Findings!Clauses(Findings!Unread) = {"phrase", "wildcard"}
      BY <2>2 DEF Findings!Clauses
  <2> QED BY <1>2, <2>1, <2>3
<1>4. CASE in.types = {"text"}
  <2>1. Findings!Mapping(in.types) = "analyzed" /\ in.holds = "text"
      BY <1>1, <1>4 DEF Findings!Mapping, Findings!analyzedTypes
  <2> QED BY <1>2, <2>1 DEF Findings!Clauses
<1>5. CASE in.types \in {{"keyword"}, {"keyword", "wildcard"}}
  <2>1. "keyword" \in in.types /\ "keyword" \notin Findings!analyzedTypes /\ "text" \notin in.types
      BY <1>5 DEF Findings!analyzedTypes
  <2>2. Findings!Mapping(in.types) = "whole" /\ in.holds # "text"
      BY <1>1, <2>1 DEF Findings!Mapping
  <2> QED BY <1>2, <2>2 DEF Findings!Clauses
<1> QED BY <1>2, <1>3, <1>4, <1>5

\* Then the question finds the lines that are wanted.
LEMMA MatchingIs ==
  ASSUME s1 \in Findings!Asked, Findings!Fits(s1.types), NEW p \in LogPods
  PROVE  /\ Findings!Matching(s1, p, Findings!Rules(s1.stored)) = Findings!Wanted(p)
         /\ FS!IsFiniteSet(Findings!Wanted(p)) /\ FS!Cardinality(Findings!Wanted(p)) \in Nat
<1>1. Findings!Finds(s1.holds) \in Findings!Clauses(Findings!Mapping(s1.types))
    BY Agreeing
<1>2. Findings!Matching(s1, p, Findings!Rules(s1.stored)) = Findings!Wanted(p)
    BY <1>1 DEF Findings!Matching, Findings!Wanted
<1>3. s1.logs[p] \in PodLogs
    BY AskedIs
<1>4. FS!IsFiniteSet(DOMAIN s1.logs[p])
  <2>1. Len(s1.logs[p]) \in Nat /\ DOMAIN s1.logs[p] = 1..Len(s1.logs[p])
      BY <1>3, FindingsBounds
  <2> QED BY <2>1, FS!FS_Interval
<1>5. Findings!Wanted(p) \in SUBSET DOMAIN s1.logs[p]
    BY DEF Findings!Wanted
<1>6. FS!IsFiniteSet(Findings!Wanted(p))
    BY <1>4, <1>5, FS!FS_Subset
<1> QED BY <1>2, <1>6, FS!FS_CardinalityType

\* The namespace a name is told by is one, and most of the lines are from it.
LEMMA HomeIs ==
  ASSUME s1 \in Findings!Asked, Findings!Fits(s1.types), NEW p \in LogPods
  PROVE  /\ Findings!Home(p) \in Spaces
         /\ \A n \in Spaces :
              FS!Cardinality(Findings!In(s1.logs[p], Findings!Wanted(p), n))
                <= FS!Cardinality(Findings!In(s1.logs[p], Findings!Wanted(p), Findings!Home(p)))
<1> DEFINE W == Findings!Wanted(p)
           c(n) == FS!Cardinality(Findings!In(s1.logs[p], W, n))
           size == FS!Cardinality(W)
           D == {size - c(n) : n \in Spaces}
<1>1. FS!IsFiniteSet(W) /\ size \in Nat
    BY MatchingIs
<1>2. \A n : Findings!In(s1.logs[p], W, n) \in SUBSET W
    BY DEF Findings!In
<1>3. ASSUME NEW n PROVE c(n) \in Nat /\ c(n) <= size
    BY <1>1, <1>2, FS!FS_Subset, FS!FS_CardinalityType
<1>4. Findings!Home(p) = CHOOSE n \in Spaces : \A m \in Spaces : c(m) <= c(n)
    BY DEF Findings!Home, Findings!Namespace, Findings!Cardinality, FS!Cardinality
<1> HIDE DEF W, c, size
<1>5. D \in SUBSET Nat /\ D # {}
    BY <1>1, <1>3, FindingsBounds
<1>6. PICK x \in D : \A y \in D : x <= y
    BY <1>5, Smallest
<1>7. PICK n \in Spaces : x = size - c(n)
    OBVIOUS
<1>8. ASSUME NEW m \in Spaces PROVE c(m) <= c(n)
    BY <1>1, <1>3, <1>6, <1>7
<1>9. \E k \in Spaces : \A m \in Spaces : c(m) <= c(k)
    BY <1>8
<1>10. Findings!Home(p) \in Spaces /\ \A m \in Spaces : c(m) <= c(Findings!Home(p))
    BY <1>4, <1>9
<1> QED BY <1>10 DEF c, W

\* What is found of a name.
Of(p) == Findings!Finding(s1, p, Findings!Rules(s1.stored))
Lasts(p) == FS!Cardinality({s1.logs[p][j].slice : j \in Findings!Wanted(p)}) >= 3

LEMMA FindingIs ==
  ASSUME s1 \in Findings!Asked, Findings!Fits(s1.types), NEW p \in LogPods,
         Findings!Wanted(p) # {}
  PROVE  /\ Of(p).pod = p /\ Of(p).ns = Findings!Home(p)
         /\ Of(p).sample = p /\ Of(p).count = FS!Cardinality(Findings!Wanted(p))
         /\ Of(p).severity \in {"error", "warning"} /\ (Of(p).severity = "error" <=> Lasts(p))
         /\ Findings!Explains(Of(p).rule, p)
         /\ Of(p) = [pod |-> p, ns |-> Of(p).ns, rule |-> Of(p).rule, count |-> Of(p).count,
                     severity |-> Of(p).severity, first |-> Of(p).first, last |-> Of(p).last,
                     sample |-> p]
<1> DEFINE rules == Findings!Rules(s1.stored)
           log == s1.logs[p]
           wanted == Findings!Wanted(p)
           slices == Findings!Slices(log, wanted)
           rule == Findings!WinningRule(log, wanted, rules)
<1>1. Of(p) = [pod |-> p, ns |-> Findings!Home(p), rule |-> rule,
               count |-> Findings!Cardinality(wanted),
               severity |-> Findings!SeverityOf(slices), first |-> Findings!Min(slices),
               last |-> Findings!Max(slices), sample |-> p]
    BY MatchingIs DEF Of, Findings!Finding, Findings!Home
<1>2. Findings!Cardinality(wanted) = FS!Cardinality(wanted)
    BY DEF Findings!Cardinality, FS!Cardinality
<1>3. Findings!SeverityOf(slices) = IF FS!Cardinality(slices) >= 3 THEN "error" ELSE "warning"
    BY DEF Findings!SeverityOf, Findings!SliceCount, Findings!Cardinality, FS!Cardinality
<1>4. slices = {s1.logs[p][j].slice : j \in wanted}
    BY DEF Findings!Slices
<1>5. /\ Findings!SeverityOf(slices) \in {"error", "warning"}
      /\ Findings!SeverityOf(slices) = "error" <=> Lasts(p)
  <2>1. Lasts(p) <=> FS!Cardinality(slices) >= 3
      BY <1>4 DEF Lasts
  <2> HIDE DEF slices
  <2> QED BY <1>3, <2>1
<1>6. Findings!Explains(rule, p)
  <2> DEFINE I == Findings!Matched(log, wanted, rules)
             i == Findings!Min(I)
  <2>0. DOMAIN rules \subseteq Nat
      BY AskedIs
  <2>1. wanted = {j \in DOMAIN log : \E k \in DOMAIN rules : log[j].kind \in rules[k].matches}
      BY DEF Findings!Wanted
  <2>2. I = {k \in DOMAIN rules : \E j \in wanted : log[j].kind \in rules[k].matches}
      BY DEF Findings!Matched
  <2>3. rule = rules[i].name
      BY DEF Findings!WinningRule
  <2>4. \A j \in DOMAIN log, k \in DOMAIN rules :
          log[j].kind \in rules[k].matches => j \in wanted /\ k \in I
      BY <2>1, <2>2
  <2>9. wanted # {}
      OBVIOUS
  <2> HIDE DEF wanted, I
  <2>5. I \in SUBSET Nat /\ I # {}
    <3>1. PICK j \in wanted : TRUE
        BY <2>9
    <3>2. PICK k \in DOMAIN rules : log[j].kind \in rules[k].matches
        BY <2>1, <3>1
    <3>3. k \in I
        BY <2>1, <2>4, <3>1, <3>2
    <3> QED BY <2>0, <2>2, <3>3
  <2>6. i \in I /\ \A k \in I : i <= k
      BY <2>5, Smallest DEF Findings!Min
  <2> HIDE DEF i
  <2>7. i \in DOMAIN rules /\ \E j \in DOMAIN log : log[j].kind \in rules[i].matches
      BY <2>1, <2>2, <2>6
  <2>8. ASSUME NEW k \in DOMAIN rules, NEW j \in DOMAIN log, k < i
        PROVE  log[j].kind \notin rules[k].matches
      BY <2>0, <2>4, <2>6, <2>7, <2>8
  <2> QED BY <2>3, <2>7, <2>8 DEF Findings!Explains
<1> HIDE DEF rule, wanted, slices
<1>7. /\ Of(p).pod = p /\ Of(p).ns = Findings!Home(p)
      /\ Of(p).sample = p /\ Of(p).count = FS!Cardinality(wanted)
      /\ Of(p).severity = Findings!SeverityOf(slices) /\ Of(p).rule = rule
      /\ Of(p).first = Findings!Min(slices) /\ Of(p).last = Findings!Max(slices)
    BY <1>1, <1>2
<1> QED BY <1>1, <1>2, <1>5, <1>6, <1>7 DEF wanted

\* The list of a sweep has what was found of each pod that is to be told, once,
\* the loudest first.
LEMMA SweepIs ==
  ASSUME s1 \in Findings!Asked, Findings!Fits(s1.types),
         NEW n, n = FS!Cardinality(Findings!Told), NEW list, list = Findings!Sweep(s1)
  PROVE  /\ n \in Nat /\ FS!IsFiniteSet(Findings!Told) /\ Findings!Told \subseteq LogPods
         /\ \A p \in Findings!Told : Findings!Wanted(p) # {}
         /\ list \in [1..n -> {Of(p) : p \in Findings!Told}]
         /\ \A i \in 1..n : list[i].pod \in Findings!Told /\ list[i] = Of(list[i].pod)
         /\ \A i, j \in 1..n : i < j => Findings!Louder(list[i], list[j])
         /\ \A i, j \in 1..n : list[i].pod = list[j].pod => i = j
         /\ \A p \in Findings!Told : \E i \in 1..n : list[i].pod = p
<1> DEFINE told == Findings!Told
           found == {Of(p) : p \in told}
<1>1. told \subseteq LogPods /\ \A p \in told : Findings!Wanted(p) # {}
    BY DEF Findings!Told
<1>2. FS!IsFiniteSet(told) /\ n \in Nat
    BY <1>1, FindingsBounds, FS!FS_Subset, FS!FS_CardinalityType
<1>3. Findings!Loud(s1) = told
  <2>1. \A p \in LogPods : Findings!Matching(s1, p, Findings!Rules(s1.stored)) = Findings!Wanted(p)
      BY MatchingIs
  <2> QED BY <2>1 DEF Findings!Loud, Findings!Told
<1>4. list = Findings!LoudestFirst(found)
    BY <1>3 DEF Findings!Sweep, Of
<1> HIDE DEF told
<1>5. \A p \in told : p \in Nat /\ Of(p).pod = p /\ Of(p).count \in Nat
    BY <1>1, FindingIs, MatchingIs, FindingsBounds
<1>6. FS!IsFiniteSet(found) /\ FS!Cardinality(found) = n
  <2> DEFINE f == [p \in told |-> Of(p)]
  <2>1. f \in [told -> found] /\ \A x \in found : \E p \in told : f[p] = x
      OBVIOUS
  <2>2. \A p, q \in told : f[p] = f[q] => p = q
      BY <1>5
  <2> HIDE DEF f, found
  <2>3. f \in FS!Surjection(told, found)
      BY <2>1 DEF FS!Surjection
  <2>4. f \in FS!Injection(told, found)
      BY <2>1, <2>2 DEF FS!Injection, FS!IsInjective
  <2> QED BY <1>2, <2>3, <2>4, FS!FS_Surjection DEF told
<1>7. \A x \in found : x.count \in Nat /\ x.pod \in Nat /\ x.pod \in told /\ x = Of(x.pod)
    BY <1>5
<1>8. \A x, y \in found : x.pod = y.pod => x = y
    BY <1>7
<1>9. \A p \in told : Of(p) \in found
    OBVIOUS
<1> HIDE DEF found
<1>10. /\ list \in [1..n -> found]
       /\ \A i, j \in 1..n : i < j => Findings!Louder(list[i], list[j])
       /\ \A i, j \in 1..n : list[i] = list[j] => i = j
       /\ \A x \in found : \E i \in 1..n : list[i] = x
    BY <1>4, <1>6, <1>7, <1>8, LoudestFirstIs
<1>11. \A i \in 1..n : list[i].pod \in told /\ list[i] = Of(list[i].pod)
    BY <1>7, <1>10
<1>12. \A i, j \in 1..n : list[i].pod = list[j].pod => i = j
    BY <1>10, <1>11
<1>13. \A p \in told : \E i \in 1..n : list[i].pod = p
    BY <1>5, <1>9, <1>10
<1> QED BY <1>1, <1>2, <1>10, <1>11, <1>12, <1>13 DEF told, found

\* The wanted lines of some pods, and those of one more.
LinesOf(M) == UNION {{p} \X Findings!Wanted(p) : p \in M}

LEMMA LinesAdd ==
  ASSUME s1 \in Findings!Asked, Findings!Fits(s1.types),
         NEW M \in SUBSET LogPods, NEW p \in LogPods \ M, FS!IsFiniteSet(LinesOf(M))
  PROVE  /\ FS!IsFiniteSet(LinesOf(M \cup {p})) /\ FS!Cardinality(LinesOf(M)) \in Nat
         /\ FS!Cardinality(LinesOf(M \cup {p}))
              = FS!Cardinality(LinesOf(M)) + FS!Cardinality(Findings!Wanted(p))
         /\ LinesOf({p}) = {p} \X Findings!Wanted(p)
         /\ FS!Cardinality(LinesOf({p})) = FS!Cardinality(Findings!Wanted(p))
<1> DEFINE W == Findings!Wanted(p)
           A == LinesOf(M)
           B == {p} \X W
<1>1. FS!IsFiniteSet(W) /\ FS!Cardinality(W) \in Nat
    BY MatchingIs
<1>2. LinesOf({p}) = B
    BY DEF LinesOf
<1>3. LinesOf(M \cup {p}) = A \cup B
  <2>1. \A l : l \in LinesOf(M \cup {p}) <=> \E q \in M \cup {p} : l \in {q} \X Findings!Wanted(q)
      BY DEF LinesOf
  <2>2. \A l : l \in A <=> \E q \in M : l \in {q} \X Findings!Wanted(q)
      BY DEF LinesOf
  <2> HIDE DEF A
  <2> QED BY <2>1, <2>2
<1>4. A \cap B = {}
  <2>1. \A l \in A : l[1] \in M
      BY DEF LinesOf
  <2>2. \A l \in B : l[1] = p
      OBVIOUS
  <2> QED BY <2>1, <2>2
<1> HIDE DEF W, A
<1>5. FS!IsFiniteSet(B) /\ FS!Cardinality(B) = FS!Cardinality(W)
  <2>1. FS!IsFiniteSet({p}) /\ FS!Cardinality({p}) = 1
      BY FS!FS_Singleton
  <2>2. FS!IsFiniteSet(B) /\ FS!Cardinality(B) = FS!Cardinality({p}) * FS!Cardinality(W)
      BY <1>1, <2>1, FS!FS_Product
  <2>3. FS!Cardinality(B) = 1 * FS!Cardinality(W)
      BY <2>1, <2>2
  <2> QED BY <1>1, <2>2, <2>3
<1> HIDE DEF B
<1>6. FS!IsFiniteSet(A) /\ FS!Cardinality(A) \in Nat
    BY FS!FS_CardinalityType DEF A
<1>7. FS!IsFiniteSet(A \cup B) /\ FS!Cardinality(A \cup B) = FS!Cardinality(A) + FS!Cardinality(B)
    BY <1>4, <1>5, <1>6, SideBySide
<1> QED BY <1>2, <1>3, <1>5, <1>6, <1>7 DEF A, W, B

\* What is gathered of a workload, as it grows: the pods M are in it.
Times == {Of(p).first : p \in Findings!Told} \cup {Of(p).last : p \in Findings!Told}
FindingSet == [pod : LogPods, ns : Spaces, rule : {Of(p).rule : p \in Findings!Told}, count : Nat,
               severity : {"error", "warning"}, first : Times, last : Times, sample : LogPods]
RolledSet == {Findings!Untold} \cup [finding : FindingSet, pods : Nat \ {0}]

Gathered(M, r) ==
  /\ FS!IsFiniteSet(M) /\ FS!IsFiniteSet(LinesOf(M))
  /\ r.pods = FS!Cardinality(M)
  /\ M = {} => r = Findings!Untold
  /\ M # {} => /\ r.finding.count = FS!Cardinality(LinesOf(M))
               /\ r.finding.severity = "error" <=> \E p \in M : Lasts(p)
               /\ r.finding.sample \in M
               /\ \A p \in M : FS!Cardinality(Findings!Wanted(p))
                                 <= FS!Cardinality(Findings!Wanted(r.finding.sample))

\* What one more pod makes of it.
LEMMA GatherShape ==
  ASSUME s1 \in Findings!Asked, Findings!Fits(s1.types),
         NEW p \in Findings!Told, NEW r \in RolledSet, NEW x, x = Findings!Gather(r, Of(p))
  PROVE  /\ x \in RolledSet
         /\ r.pods = 0 => x.pods = 1 /\ x.finding = Of(p)
         /\ r.pods # 0 => /\ x.pods = r.pods + 1 /\ r.finding.count \in Nat
                          /\ x.finding.count = r.finding.count + Of(p).count
                          /\ x.finding.severity = (IF Of(p).severity = "error" THEN "error"
                                                   ELSE r.finding.severity)
                          /\ x.finding.sample = r.finding.sample
<1> DEFINE f == Of(p)
<1>1. f \in FindingSet
  <2>1. p \in LogPods /\ Findings!Wanted(p) # {}
      BY DEF Findings!Told
  <2>2. f = [pod |-> p, ns |-> f.ns, rule |-> f.rule, count |-> f.count, severity |-> f.severity,
             first |-> f.first, last |-> f.last, sample |-> p]
      BY <2>1, FindingIs
  <2>3. f.rule \in {Of(q).rule : q \in Findings!Told} /\ f.first \in Times /\ f.last \in Times
      BY DEF Times
  <2>4. f.count \in Nat /\ f.severity \in {"error", "warning"} /\ f.ns \in Spaces
      BY <2>1, FindingIs, MatchingIs, HomeIs
  <2> HIDE DEF f
  <2> QED BY <2>1, <2>2, <2>3, <2>4 DEF FindingSet
<1>2. CASE r.pods = 0
  <2>1. x = [finding |-> f, pods |-> 1]
      BY <1>2 DEF Findings!Gather
  <2> HIDE DEF f
  <2>2. x \in RolledSet
      BY <1>1, <2>1 DEF RolledSet
  <2> QED BY <1>2, <2>1, <2>2 DEF f
<1>3. CASE r.pods # 0
  <2>1. r # Findings!Untold
      BY <1>3 DEF Findings!Untold
  <2>2. r \in [finding : FindingSet, pods : Nat \ {0}]
      BY <2>1 DEF RolledSet
  <2>3. r.finding \in FindingSet /\ r.pods \in Nat
      BY <2>2
  <2> DEFINE old == r.finding
             severity == IF f.severity = "error" THEN "error" ELSE old.severity
             first == IF f.first < old.first THEN f.first ELSE old.first
             last == IF f.last > old.last THEN f.last ELSE old.last
             new == [old EXCEPT !.count = @ + f.count, !.severity = severity,
                                !.first = first, !.last = last]
  <2>4. x = [pods |-> r.pods + 1, finding |-> new]
      BY <1>3 DEF Findings!Gather
  <2>5. /\ old.count \in Nat /\ old.severity \in {"error", "warning"} /\ old.first \in Times
        /\ old.last \in Times /\ f.first \in Times /\ f.last \in Times /\ f.count \in Nat
      BY <1>1, <2>3 DEF FindingSet
  <2>6. /\ old.count + f.count \in Nat /\ severity \in {"error", "warning"}
        /\ first \in Times /\ last \in Times
      BY <2>5
  <2> HIDE DEF f, first, last, severity
  <2>7. new \in FindingSet
      BY <2>3, <2>6 DEF FindingSet
  <2>8. new.count = old.count + f.count /\ new.severity = severity /\ new.sample = old.sample
      BY <2>3 DEF FindingSet
  <2> HIDE DEF new, old
  <2>9. x \in RolledSet
    <3>1. r.pods + 1 \in Nat \ {0}
        BY <2>3
    <3> QED BY <2>4, <2>7, <3>1 DEF RolledSet
  <2>10. x.pods = r.pods + 1 /\ x.finding = new
      BY <2>4
  <2> QED BY <1>3, <2>5, <2>8, <2>9, <2>10 DEF old, severity, f
<1> QED BY <1>2, <1>3

\* One more pod is gathered.
LEMMA GatherIs ==
  ASSUME s1 \in Findings!Asked, Findings!Fits(s1.types),
         NEW M \in SUBSET LogPods, NEW p \in Findings!Told, p \notin M,
         NEW r \in RolledSet, Gathered(M, r),
         M # {} => FS!Cardinality(Findings!Wanted(p))
                     <= FS!Cardinality(Findings!Wanted(r.finding.sample))
  PROVE  Gathered(M \cup {p}, Findings!Gather(r, Of(p)))
<1> DEFINE f == Of(p)
           x == Findings!Gather(r, f)
           c(q) == FS!Cardinality(Findings!Wanted(q))
           lines(m) == FS!Cardinality(LinesOf(m))
<1>1. p \in LogPods /\ Findings!Wanted(p) # {}
    BY DEF Findings!Told
<1>2. f.sample = p /\ f.count = c(p) /\ (f.severity = "error" <=> Lasts(p))
    BY <1>1, FindingIs
<1>3. /\ r.pods = 0 => x.pods = 1 /\ x.finding = f
      /\ r.pods # 0 => /\ x.pods = r.pods + 1 /\ x.finding.count = r.finding.count + f.count
                       /\ x.finding.severity = (IF f.severity = "error" THEN "error"
                                                ELSE r.finding.severity)
                       /\ x.finding.sample = r.finding.sample
    BY GatherShape
<1>4. /\ FS!IsFiniteSet(M) /\ FS!IsFiniteSet(LinesOf(M)) /\ r.pods = FS!Cardinality(M)
      /\ FS!Cardinality(M) \in Nat
    BY FS!FS_CardinalityType DEF Gathered
<1>5. FS!IsFiniteSet(M \cup {p}) /\ FS!Cardinality(M \cup {p}) = FS!Cardinality(M) + 1
    BY <1>4, FS!FS_AddElement
<1>6. /\ FS!IsFiniteSet(LinesOf(M \cup {p})) /\ lines(M) \in Nat
      /\ lines(M \cup {p}) = lines(M) + c(p) /\ lines({p}) = c(p)
    BY <1>1, <1>4, LinesAdd
<1> HIDE DEF f, x
<1>7. CASE M = {}
  <2>1. r.pods = 0
      BY <1>4, <1>7, FS!FS_EmptySet
  <2>2. M \cup {p} = {p} /\ FS!Cardinality(M \cup {p}) = 1
      BY <1>7, FS!FS_Singleton
  <2>3. x.pods = 1 /\ x.finding = f
      BY <1>3, <2>1
  <2>4. c(p) <= c(p)
      BY <1>1, MatchingIs
  <2> HIDE DEF c, lines
  <2>5. /\ x.finding.count = lines({p}) /\ (x.finding.severity = "error" <=> \E q \in {p} : Lasts(q))
        /\ x.finding.sample \in {p} /\ \A q \in {p} : c(q) <= c(x.finding.sample)
      BY <1>2, <1>6, <2>3, <2>4
  <2>6. Gathered({p}, x)
      BY <1>5, <1>6, <2>2, <2>3, <2>5 DEF Gathered, c, lines
  <2> QED BY <2>2, <2>6 DEF x, f
<1>8. CASE M # {}
  <2>1. /\ r.finding.count = lines(M) /\ (r.finding.severity = "error" <=> \E q \in M : Lasts(q))
        /\ r.finding.sample \in M /\ \A q \in M : c(q) <= c(r.finding.sample)
        /\ c(p) <= c(r.finding.sample)
      BY <1>8 DEF Gathered
  <2>2. r.pods # 0
      BY <1>4, <1>8, FS!FS_EmptySet
  <2>3. x.pods = FS!Cardinality(M \cup {p})
      BY <1>3, <1>4, <1>5, <2>2
  <2>4. x.finding.count = lines(M \cup {p})
      BY <1>2, <1>3, <1>6, <2>1, <2>2
  <2>5. x.finding.severity = "error" <=> \E q \in M \cup {p} : Lasts(q)
      BY <1>2, <1>3, <2>1, <2>2
  <2>6. /\ x.finding.sample \in M \cup {p}
        /\ \A q \in M \cup {p} : c(q) <= c(x.finding.sample)
      BY <1>3, <2>1, <2>2
  <2>7. Gathered(M \cup {p}, x)
      BY <1>5, <1>6, <2>3, <2>4, <2>5, <2>6 DEF Gathered
  <2> QED BY <2>7 DEF x, f
<1> QED BY <1>7, <1>8

\* What is gathered of a workload when the list has been gone through.
LEMMA RolledIs ==
  ASSUME s1 \in Findings!Asked, Findings!Fits(s1.types), NEW w \in Findings!Workloads
  PROVE  Gathered(Findings!Under(w), Findings!RollUp(s1, Findings!Sweep(s1))[w])
<1> DEFINE list == Findings!Sweep(s1)
           n == FS!Cardinality(Findings!Told)
           Adds(r, f) == IF w \in Findings!Owners(s1, f.ns, f.pod) THEN Findings!Gather(r, f) ELSE r
           M(k) == {p \in {list[i].pod : i \in 1..k} : w \in Findings!Owners(s1, Findings!Home(p), p)}
           Body(it) == [m \in SUBSET (1..n) |->
                          IF m = {} THEN Findings!Untold
                          ELSE Adds(it[m \ {Latest(m)}], list[Latest(m)])]
           iter == CHOOSE it : it = Body(it)
<1>1. /\ n \in Nat /\ Findings!Told \subseteq LogPods
      /\ list \in [1..n -> {Of(p) : p \in Findings!Told}]
      /\ \A i \in 1..n : list[i].pod \in Findings!Told /\ list[i] = Of(list[i].pod)
      /\ \A i, j \in 1..n : i < j => Findings!Louder(list[i], list[j])
      /\ \A i, j \in 1..n : list[i].pod = list[j].pod => i = j
      /\ \A p \in Findings!Told : \E i \in 1..n : list[i].pod = p
  <2> HIDE DEF n, list
  <2>1. n = FS!Cardinality(Findings!Told) /\ list = Findings!Sweep(s1)
      BY DEF n, list
  <2> QED BY <2>1, SweepIs
<1>2. DOMAIN list = 1..n
    BY <1>1
<1>3. Findings!RollUp(s1, list)[w] = iter[1..n]
    BY <1>2 DEF Findings!RollUp, Findings!FoldLeft, Findings!MapThenFoldSet,
        Findings!Max, Latest
<1> HIDE DEF list, n
<1>4. \A k \in 1..n, r \in RolledSet : Adds(r, list[k]) \in RolledSet
  <2>1. \A p \in Findings!Told, r \in RolledSet : Findings!Gather(r, Of(p)) \in RolledSet
      BY GatherShape
  <2> QED BY <1>1, <2>1
<1>5. Findings!Untold \in RolledSet
    BY DEF RolledSet
<1> HIDE DEF Adds
<1> DEFINE o == [y \in (1..n) \X RolledSet |-> Adds(y[2], list[y[1]])]
<1>6. o \in [(1..n) \X RolledSet -> RolledSet]
    BY <1>4
<1>7. \A k \in 1..n, r \in RolledSet : o[<<k, r>>] = Adds(r, list[k])
    OBVIOUS
<1> HIDE DEF o
<1>8. PICK g \in [SUBSET (1..n) -> RolledSet] : Folds(n, Findings!Untold, o, g)
    BY <1>1, <1>5, <1>6, FoldExists
<1>9. \A m \in SUBSET (1..n) : m # {} => Latest(m) \in 1..n /\ m \ {Latest(m)} \in SUBSET (1..n)
    BY <1>1, LatestIs
<1>10. g = Body(g)
  <2>1. \A m \in SUBSET (1..n) :
          g[m] = IF m = {} THEN Findings!Untold ELSE Adds(g[m \ {Latest(m)}], list[Latest(m)])
      BY <1>7, <1>8, <1>9 DEF Folds
  <2>2. g = [m \in SUBSET (1..n) |-> g[m]]
      BY <1>8
  <2> QED BY <2>1, <2>2
<1> HIDE DEF Body
<1>11. iter = Body(iter)
    BY <1>10
<1> HIDE DEF iter
<1>12. iter[{}] = Findings!Untold
  <2>1. {} \in SUBSET (1..n)
      OBVIOUS
  <2> QED BY <1>11, <2>1 DEF Body
<1>13. ASSUME NEW k \in 1..n PROVE iter[1..k] = Adds(iter[1..(k - 1)], list[k])
  <2>1. 1..k \in SUBSET (1..n) /\ 1..k # {} /\ k \in Nat \ {0}
      BY <1>1, UpTo
  <2>2. iter[1..k] = Adds(iter[(1..k) \ {Latest(1..k)}], list[Latest(1..k)])
      BY <1>11, <2>1 DEF Body
  <2>3. Latest(1..k) = k /\ (1..k) \ {k} = 1..(k - 1)
      BY <2>1, LatestOfAll
  <2> QED BY <2>2, <2>3
<1> DEFINE J == [k \in 0..n |-> {r \in RolledSet : Gathered(M(k), r)}]
<1>14. iter[{}] \in J[0]
  <2>1. M(0) = {} /\ 0 \in 0..n
    <3>1. 1..0 = {}
        OBVIOUS
    <3> QED BY <1>1, <3>1
  <2>2. LinesOf({}) = {}
      BY DEF LinesOf
  <2>3. FS!IsFiniteSet({}) /\ FS!Cardinality({}) = 0
      BY FS!FS_EmptySet
  <2>4. Findings!Untold.pods = 0
      BY DEF Findings!Untold
  <2>5. Gathered({}, Findings!Untold)
      BY <2>2, <2>3, <2>4 DEF Gathered
  <2> QED BY <1>5, <1>12, <2>1, <2>5
<1>15. ASSUME NEW k \in 1..n, iter[1..(k - 1)] \in J[k - 1] PROVE iter[1..k] \in J[k]
  <2> DEFINE r == iter[1..(k - 1)]
             p == list[k].pod
  <2>1. k \in 0..n /\ k - 1 \in 0..n /\ k \in Nat /\ k \in 1..k /\ 1..k = (1..(k - 1)) \cup {k}
      BY <1>1
  <2>2. r \in RolledSet /\ Gathered(M(k - 1), r)
      BY <1>15, <2>1
  <2>3. iter[1..k] = Adds(r, list[k])
      BY <1>13
  <2>4. p \in Findings!Told /\ list[k] = Of(p) /\ list[k].ns = Findings!Home(p)
    <3>1. p \in Findings!Told /\ list[k] = Of(p)
        BY <1>1
    <3>2. p \in LogPods /\ Findings!Wanted(p) # {}
        BY <3>1 DEF Findings!Told
    <3> QED BY <3>1, <3>2, FindingIs
  <2>5. M(k - 1) \in SUBSET LogPods /\ p \notin M(k - 1)
    <3>1. \A i \in 1..(k - 1) : i \in 1..n /\ i # k
        BY <1>1
    <3>2. ASSUME NEW q \in M(k - 1) PROVE q \in LogPods /\ q # p
      <4>1. PICK i \in 1..(k - 1) : list[i].pod = q
          OBVIOUS
      <4>2. i \in 1..n /\ i # k
          BY <3>1
      <4> QED BY <1>1, <4>1, <4>2
    <3> QED BY <3>2
  <2>6. M(k) = IF w \in Findings!Owners(s1, Findings!Home(p), p) THEN M(k - 1) \cup {p} ELSE M(k - 1)
      BY <2>1
  <2>7. ASSUME NEW q \in M(k - 1)
        PROVE  FS!Cardinality(Findings!Wanted(p)) <= FS!Cardinality(Findings!Wanted(q))
    <3>1. PICK i \in 1..(k - 1) : list[i].pod = q
        OBVIOUS
    <3>2. i \in 1..n /\ i < k
        BY <1>1
    <3>3. Findings!Louder(list[i], list[k])
        BY <1>1, <3>2
    <3>4. \A x \in Findings!Told : x \in LogPods /\ Findings!Wanted(x) # {}
        BY DEF Findings!Told
    <3>5. /\ Of(p).count = FS!Cardinality(Findings!Wanted(p))
          /\ FS!Cardinality(Findings!Wanted(p)) \in Nat
        BY <2>4, <3>4, FindingIs, MatchingIs
    <3>6. /\ list[i] = Of(q) /\ Of(q).count = FS!Cardinality(Findings!Wanted(q))
          /\ FS!Cardinality(Findings!Wanted(q)) \in Nat
        BY <1>1, <3>1, <3>2, <3>4, FindingIs, MatchingIs
    <3> QED BY <2>4, <3>3, <3>5, <3>6 DEF Findings!Louder
  <2>8. M(k - 1) # {} => r.finding.sample \in M(k - 1)
      BY <2>2 DEF Gathered
  <2> HIDE DEF M, r, p
  <2>9. CASE w \in Findings!Owners(s1, Findings!Home(p), p)
    <3>1. iter[1..k] = Findings!Gather(r, Of(p)) /\ M(k) = M(k - 1) \cup {p}
        BY <2>3, <2>4, <2>6, <2>9 DEF Adds, p
    <3>2. M(k - 1) # {} => FS!Cardinality(Findings!Wanted(p))
                             <= FS!Cardinality(Findings!Wanted(r.finding.sample))
        BY <2>7, <2>8
    <3>3. Gathered(M(k - 1) \cup {p}, Findings!Gather(r, Of(p)))
        BY <2>2, <2>4, <2>5, <3>2, GatherIs
    <3>4. Findings!Gather(r, Of(p)) \in RolledSet
        BY <2>2, <2>4, GatherShape
    <3> QED BY <2>1, <3>1, <3>3, <3>4
  <2>10. CASE w \notin Findings!Owners(s1, Findings!Home(p), p)
    <3>1. iter[1..k] = r /\ M(k) = M(k - 1)
        BY <2>3, <2>4, <2>6, <2>10 DEF Adds, p
    <3> QED BY <2>1, <2>2, <3>1
  <2> QED BY <2>9, <2>10
<1>16. iter[1..n] \in J[n]
  <2> HIDE DEF J
  <2> QED BY <1>1, <1>14, <1>15, FoldReaches
<1>17. Gathered(M(n), iter[1..n])
    BY <1>1, <1>16
<1>18. M(n) = Findings!Under(w)
  <2>1. {list[i].pod : i \in 1..n} = Findings!Told
      BY <1>1
  <2> QED BY <2>1 DEF Findings!Under
<1> QED BY <1>3, <1>17, <1>18 DEF list, n

\* What a sweep concludes is what is to be told.
LEMMA FindingsRest == Findings!IInv => Findings!FindingsTell
<1> SUFFICES ASSUME Findings!IInv, s2.done, Findings!Fits(s1.types)
             PROVE  Findings!FindingsTell
    BY DEF Findings!FindingsTell
<1> DEFINE list == Findings!Sweep(s1)
           n == FS!Cardinality(Findings!Told)
<1>1. s1 \in Findings!Asked /\ s2 = Findings!Concluded(s1) /\ Findings!Fits(s1.types)
  <2>1. s2 # Findings!Pending
      BY DEF Findings!Pending
  <2> QED BY <2>1 DEF Findings!IInv
<1>2. s2.pods = list /\ s2.workloads = Findings!RollUp(s1, list)
    BY <1>1 DEF Findings!Concluded
<1>3. /\ n \in Nat /\ list \in [1..n -> {Of(p) : p \in Findings!Told}]
      /\ \A p \in Findings!Told : p \in LogPods /\ Findings!Wanted(p) # {}
      /\ \A i \in 1..n : list[i].pod \in Findings!Told /\ list[i] = Of(list[i].pod)
      /\ \A p \in Findings!Told : \E i \in 1..n : list[i].pod = p
  <2> HIDE DEF n, list
  <2>1. n = FS!Cardinality(Findings!Told) /\ list = Findings!Sweep(s1)
      BY DEF n, list
  <2> QED BY <1>1, <2>1, SweepIs
<1>4. \A w \in Findings!Workloads : Gathered(Findings!Under(w), s2.workloads[w])
    BY <1>1, <1>2, RolledIs
<1> HIDE DEF list, n
<1>5. DOMAIN s2.pods = 1..n /\ Len(s2.pods) = n
    BY <1>2, <1>3
<1>6. {s2.pods[i].pod : i \in DOMAIN s2.pods} = Findings!Told
    BY <1>2, <1>3, <1>5
<1> DEFINE Most(p, ns) ==
      /\ ns \in Spaces
      /\ \A m \in Spaces : FS!Cardinality(Findings!In(s1.logs[p], Findings!Wanted(p), m))
                            <= FS!Cardinality(Findings!In(s1.logs[p], Findings!Wanted(p), ns))
<1>7. ASSUME NEW i \in DOMAIN s2.pods
      PROVE  /\ s2.pods[i].count = FS!Cardinality(Findings!Wanted(s2.pods[i].pod))
             /\ Findings!Explains(s2.pods[i].rule, s2.pods[i].pod)
             /\ Most(s2.pods[i].pod, s2.pods[i].ns)
  <2>1. s2.pods[i].pod \in LogPods /\ Findings!Wanted(s2.pods[i].pod) # {}
        /\ s2.pods[i] = Of(s2.pods[i].pod)
      BY <1>2, <1>3, <1>5
  <2>2. \A p \in LogPods : Findings!Wanted(p) # {} =>
          /\ Of(p).count = FS!Cardinality(Findings!Wanted(p)) /\ Findings!Explains(Of(p).rule, p)
          /\ Of(p).ns = Findings!Home(p)
      BY <1>1, FindingIs
  <2>3. \A p \in LogPods : Most(p, Findings!Home(p))
      BY <1>1, HomeIs
  <2> HIDE DEF Most
  <2> QED BY <2>1, <2>2, <2>3
<1>8. ASSUME NEW w \in Findings!Workloads
      PROVE  /\ s2.workloads[w].pods = FS!Cardinality(Findings!Under(w))
             /\ Findings!Under(w) # {} =>
                  /\ s2.workloads[w].finding.count = FS!Cardinality(LinesOf(Findings!Under(w)))
                  /\ s2.workloads[w].finding.severity = "error" <=>
                       \E p \in Findings!Under(w) : Lasts(p)
                  /\ \A p \in Findings!Under(w) : FS!Cardinality(Findings!Wanted(p))
                       <= FS!Cardinality(Findings!Wanted(s2.workloads[w].finding.sample))
    BY <1>4 DEF Gathered
<1>9. n = Findings!Cardinality(Findings!Told)
    BY DEF n, Findings!Cardinality, FS!Cardinality
<1>10. \A m : Findings!Cardinality(m) = FS!Cardinality(m)
    BY DEF Findings!Cardinality, FS!Cardinality
<1> QED BY <1>5, <1>6, <1>7, <1>8, <1>9, <1>10 DEF Findings!FindingsTell, LinesOf, Lasts

\* The invariant of a sweep's conclusion holds at first.
LEMMA FindingsInit == Findings!Init => Findings!IInv
BY DEF Findings!Init, Findings!IInv

\* It is drawn once, and stays.
LEMMA FindingsStep ==
  Findings!IInv /\ [Findings!Next]_<<s1, s2>> => Findings!IInv'
<1> SUFFICES ASSUME Findings!IInv, Findings!Next \/ UNCHANGED <<s1, s2>>
             PROVE  Findings!IInv'
    OBVIOUS
<1>1. CASE Findings!Judge
  <2>1. s1' = s1 /\ s2' = Findings!Concluded(s1)
      BY <1>1 DEF Findings!Judge
  <2>2. s2' \in {Findings!Pending, Findings!Concluded(s1')}
      BY <2>1
  <2> QED BY <2>1, <2>2 DEF Findings!IInv
<1>2. CASE UNCHANGED <<s1, s2>>
    BY <1>2 DEF Findings!IInv
<1> QED BY <1>1, <1>2 DEF Findings!Next
=============================================================================
