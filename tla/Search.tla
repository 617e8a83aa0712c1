------------------------------- MODULE Search --------------------------------
(***************************************************************************)
(* One search by name over every cluster the reader may see: each cluster  *)
(* is asked for each kind, a list of the informer cache or one page of the *)
(* API server's; the rows that match are ranked and cut to a screenful,    *)
(* and the clusters that could not be asked are named.                     *)
(* (src/server/internal/cluster: search.go, resources.go;                  *)
(*  src/server/internal/httpapi/search_handlers.go)                        *)
(***************************************************************************)
EXTENDS Integers, Sequences, FiniteSets, FiniteSetsExt

CONSTANTS Clusters, Kinds,
          HotKinds,   \* the kinds an informer cache is kept for
          Lists,      \* the objects of one kind in one cluster, as the API server orders them
          PerKind,    \* perKindSearchLimit
          Limit       \* defaultSearchLimit

VARIABLES input,      \* cluster -> what its row says and how each kind answers
          answer      \* <<>> or <<a SearchResult>>

\* How the name of an object meets the needle, how many bytes it is longer (one
\* found by another field may be shorter), and the mark on its row.
Matches == {"exact", "prefix", "inside", "field", "none"}
Object == [match : Matches, extra : Int, severity : {"error", "warn", ""}]
SearchAssumption ==
  /\ HotKinds \subseteq Kinds /\ Lists \subseteq Seq(Object)
  /\ PerKind \in Nat \ {0} /\ Limit \in Nat \ {0}
  /\ IsFiniteSet(Clusters) /\ IsFiniteSet(Kinds)

\* What List comes back with for one kind: a list, from the cache or not; an
\* error which says that the kind is not there or not allowed; or any other.
Answered(cached, objects) == [fault |-> "", cached |-> cached, objects |-> objects]
Failed(fault) == [fault |-> fault, cached |-> FALSE, objects |-> <<>>]
KindAnswers(k) ==
  {Answered(FALSE, objects) : objects \in Lists}
    \cup (IF k \in HotKinds THEN {Answered(TRUE, objects) : objects \in Lists} ELSE {})
    \cup {Failed(fault) : fault \in {"not here", "no answer"}}

Asked == [usable : {TRUE}, kinds : {f \in [Kinds -> UNION {KindAnswers(k) : k \in Kinds}] :
                                      \A k \in Kinds : f[k] \in KindAnswers(k)}]
NotUsable == [usable |-> FALSE]

Init ==
  /\ input \in [Clusters -> Asked \cup {NotUsable}]
  /\ answer = <<>>

-----------------------------------------------------------------------------
(* Listing one kind of one cluster. *)

\* List: the whole cache, or the page the API server cuts.
Rows(a) ==
  {i \in DOMAIN a.objects : a.cached \/ i <= PerKind}

\* finishList, matchesSearch: rows whose name or fields hold the needle are kept.
Matching(a) == {i \in Rows(a) : a.objects[i].match # "none"}

\* isClusterLevelFailure: errors that are a normal answer of "none" are not.
ClusterLevel(a) == a.fault = "no answer"

-----------------------------------------------------------------------------
(* One cluster. *)

\* scoreHit, with what a name as short as the needle is worth.
Score(object) ==
  (CASE object.match = "exact" -> 100 [] object.match = "prefix" -> 60
     [] object.match = "inside" -> 30 [] OTHER -> 0)
    + (IF object.extra < 20 THEN 20 - object.extra ELSE 0)
    + (CASE object.severity = "error" -> 25 [] object.severity = "warn" -> 12 [] OTHER -> 0)

HitsOf(c) ==
  UNION {{[cluster |-> c, kind |-> k, at |-> i] : i \in Matching(input[c].kinds[k])} : k \in Kinds}
Scored(hit) == Score(input[hit.cluster].kinds[hit.kind].objects[hit.at])

\* Mutant: a cluster with any failure gives its hits and no complaint.
NoAnswerFrom_Silent(c) == FALSE

\* searchCluster: no hit at all, and a kind failed for want of the cluster.
NoAnswerFrom(c) ==
  HitsOf(c) = {} /\ \E k \in Kinds : ClusterLevel(input[c].kinds[k])

-----------------------------------------------------------------------------
(* All of them. *)

Unreachable == {c \in Clusters : ~input[c].usable \/ NoAnswerFrom(c)}
AllHits == UNION {HitsOf(c) : c \in Clusters \ Unreachable}

\* Search: the best are shown; of equal ones the order is that of the names,
\* then of arrival, which is anybody's.
Answers ==
  {[hits |-> best, unreachable |-> Unreachable, truncated |-> Cardinality(AllHits) > Limit] :
     best \in {b \in UNION {kSubset(n, AllHits) : n \in {Min({Limit, Cardinality(AllHits)})}} :
                 \A shown \in b, left \in AllHits \ b : Scored(left) <= Scored(shown)}}

SearchAll ==
  /\ answer = <<>>
  /\ \E a \in Answers : answer' = <<a>>
  /\ UNCHANGED input

Next == SearchAll
Spec == Init /\ [][Next]_<<input, answer>>

-----------------------------------------------------------------------------
(* Properties. *)

TypeOK ==
  /\ input \in [Clusters -> Asked \cup {NotUsable}]
  /\ answer = <<>> \/ answer[1].hits \subseteq AllHits

\* The hits an answer leaves out although they were read.
LeftOut(c) == {h \in HitsOf(c) : h \notin answer[1].hits}

\* No cluster drops out of an answer: it is named as unreachable, or what was
\* read of it is shown, or the answer says it was cut and nothing shown is worse
\* than what is missing; and a cluster of which nothing was read is never passed
\* off as one that holds nothing.
SearchAccounts ==
  answer # <<>> =>
    \A c \in Clusters \ answer[1].unreachable :
      /\ input[c].usable
      /\ LeftOut(c) # {} => answer[1].truncated
      /\ \A h \in LeftOut(c), shown \in answer[1].hits : Scored(h) <= Scored(shown)
      /\ (\A k \in Kinds : input[c].kinds[k].fault # "") =>
           \A k \in Kinds : input[c].kinds[k].fault = "not here"

\* "A search that quietly returns fewer results because a cluster is down is a
\* search that lies: the reader concludes the object does not exist", so the
\* needle is "asked of the API server rather than filtered here"
\* (search.go:38, 164): an object whose kind was listed is shown, or the answer
\* says it was cut.
ListedIsFound ==
  answer # <<>> /\ ~answer[1].truncated =>
    \A c \in Clusters \ answer[1].unreachable, k \in Kinds :
      \A i \in DOMAIN input[c].kinds[k].objects :
        input[c].kinds[k].objects[i].match # "none" =>
          [cluster |-> c, kind |-> k, at |-> i] \in answer[1].hits

-----------------------------------------------------------------------------
(* What is kept. *)

IInv == TypeOK /\ SearchAccounts
=============================================================================
