----------------------------- MODULE ApplyWrites -----------------------------
(***************************************************************************)
(* Writes to a cluster: the gates of a write and the apply of a manifest   *)
(* of several documents.  Each document is authorised by itself, with the  *)
(* row and the grant read for it, then the object is read and sent with    *)
(* the version that makes the API server refuse a lost update.             *)
(* (src/server/internal/httpapi/write_handlers.go,                         *)
(*  src/server/internal/cluster: write_guard.go, write.go)                 *)
(***************************************************************************)
EXTENDS Naturals, FiniteSets

CONSTANTS Requests,    \* apply requests ever made
          Objects,     \* the objects a manifest may hold, one document for each
          NoVersion,   \* a manifest written by hand names no version
          Nobody,      \* no row read
          MaxVersion,  \* bound: versions of an object
          MaxChanges   \* bound: changes of the lock and of the grants, dropped calls

WritesAssumption ==
  IsFiniteSet(Objects) /\ MaxVersion \in Nat \ {0} /\ MaxChanges \in Nat

VARIABLES lock,        \* clusters.read_only
          level,       \* the caller's grant: "none", "read" or "write"
          review,      \* what the API server says to a SelfSubjectAccessReview
          version,     \* object -> its resourceVersion, 0 when it does not exist
          request,     \* request -> [step, dry, left, doc, carry, row, current]
          late,        \* history: request -> documents written since the lock was set
          clobbered,   \* history: a change nobody saw was overwritten
          changes

vars == <<lock, level, review, version, request, late, clobbered, changes>>

Fresh == [step |-> "none", dry |-> FALSE, left |-> {}, doc |-> Nobody,
          carry |-> [o \in Objects |-> NoVersion], row |-> Nobody, current |-> 0]

Steps == {"none", "edit", "document", "gates", "get", "send", "over"}
Rows == [lock : BOOLEAN, level : {"none", "read", "write"}]

TypeOK ==
  /\ lock \in BOOLEAN /\ review \in BOOLEAN
  /\ level \in {"none", "read", "write"}
  /\ version \in [Objects -> 0..MaxVersion]
  /\ request \in [Requests -> [step : Steps, dry : BOOLEAN, left : SUBSET Objects,
                               doc : Objects \cup {Nobody},
                               carry : [Objects -> 1..MaxVersion \cup {NoVersion}],
                               row : Rows \cup {Nobody}, current : 0..MaxVersion]]
  /\ late \in [Requests -> 0..Cardinality(Objects)]
  /\ clobbered \in BOOLEAN
  /\ changes \in 0..MaxChanges

Init ==
  /\ lock = FALSE /\ review = TRUE
  /\ level \in {"read", "write"}
  /\ version \in [Objects -> {0, 1}]
  /\ request = [r \in Requests |-> Fresh]
  /\ late = [r \in Requests |-> 0]
  /\ clobbered = FALSE
  /\ changes = 0

Goes(r, next) == request' = [request EXCEPT ![r] = next]
Changes == changes < MaxChanges /\ changes' = changes + 1

-----------------------------------------------------------------------------
(* The caller. *)

\* Some of the objects are opened for editing: their text carries a version.
Open(r, seen) ==
  /\ request[r].step = "none"
  /\ \A o \in seen : version[o] > 0
  /\ Goes(r, [Fresh EXCEPT !.step = "edit",
                           !.carry = [o \in Objects |-> IF o \in seen THEN version[o] ELSE NoVersion]])
  /\ UNCHANGED <<lock, level, review, version, late, clobbered, changes>>

\* applyObject, a dry run or not, with a document for each object of docs.
Submit(r, docs, dry) ==
  /\ request[r].step = "edit"
  /\ docs # {}
  /\ Goes(r, [request[r] EXCEPT !.step = "document", !.left = docs, !.dry = dry])
  /\ UNCHANGED <<lock, level, review, version, late, clobbered, changes>>

-----------------------------------------------------------------------------
(* authoriseWrite. *)

\* Mutant: the manifest is authorised once, before its first document.
Authorise_Once(r, o) ==
  /\ request[r].step = "document"
  /\ o \in request[r].left
  /\ Goes(r, [request[r] EXCEPT !.step = "gates", !.doc = o,
                                !.row = IF @ # Nobody THEN @ ELSE [lock |-> lock, level |-> level]])
  /\ UNCHANGED <<lock, level, review, version, late, clobbered, changes>>

\* resolveCluster and mayWriteToCluster: the row and the grant of now.
Authorise(r, o) ==
  /\ request[r].step = "document"
  /\ o \in request[r].left
  /\ Goes(r, [request[r] EXCEPT !.step = "gates", !.doc = o,
                                !.row = [lock |-> lock, level |-> level]])
  /\ UNCHANGED <<lock, level, review, version, late, clobbered, changes>>

\* CheckWrite: the grant, the lock, and what the cluster says.
MayWrite(row) == row.level = "write" /\ ~row.lock

\* One refusal ends the request, whatever was written before it.
Gates(r) ==
  /\ request[r].step = "gates"
  /\ Goes(r, [request[r] EXCEPT !.step = IF MayWrite(request[r].row) /\ review THEN "get" ELSE "over"])
  /\ UNCHANGED <<lock, level, review, version, late, clobbered, changes>>

-----------------------------------------------------------------------------
(* Service.Apply. *)

Done(r) == LET left == request[r].left \ {request[r].doc}
           IN  [request[r] EXCEPT !.step = IF left = {} THEN "over" ELSE "document", !.left = left]

Get(r) ==
  /\ request[r].step = "get"
  /\ Goes(r, [request[r] EXCEPT !.step = "send", !.current = version[request[r].doc]])
  /\ UNCHANGED <<lock, level, review, version, late, clobbered, changes>>

\* The object could not be read, or the call was refused: the document's own
\* error, and the next document is tried.
Fails(r) ==
  /\ request[r].step \in {"get", "send"}
  /\ Changes
  /\ Goes(r, Done(r))
  /\ UNCHANGED <<lock, level, review, version, late, clobbered>>

\* Mutant: the version just read is sent whatever the text carries.
Version_Read(q) == q.current

\* The version an update is sent with: the one the text carries, if any.
Version(q) == IF q.carry[q.doc] = NoVersion THEN q.current ELSE q.carry[q.doc]

\* The API server takes a create of what does not exist, and an update of the
\* version that is stored.
Accepts(q) == IF q.current = 0 THEN version[q.doc] = 0
              ELSE version[q.doc] > 0 /\ version[q.doc] = Version(q)

Send(r) ==
  LET q == request[r]
  IN  /\ q.step = "send"
      /\ IF Accepts(q) /\ ~q.dry
         THEN /\ version[q.doc] < MaxVersion
              /\ version' = [version EXCEPT ![q.doc] = @ + 1]
              /\ late' = IF lock THEN [late EXCEPT ![r] = @ + 1] ELSE late
              /\ clobbered' = \/ clobbered
                              \/ q.carry[q.doc] \notin {NoVersion, version[q.doc]} /\ version[q.doc] > 0
         ELSE UNCHANGED <<version, late, clobbered>>
      /\ Goes(r, Done(r))
      /\ UNCHANGED <<lock, level, review, changes>>

-----------------------------------------------------------------------------
(* Everybody else. *)

\* UpdateSettings sets or lifts the lock.
Lock ==
  /\ Changes
  /\ lock' = ~lock
  /\ late' = [r \in Requests |-> 0]
  /\ UNCHANGED <<level, review, version, request, clobbered>>

\* SetGrant and RemoveGrant.
Grant(l) ==
  /\ Changes
  /\ l # level
  /\ level' = l
  /\ UNCHANGED <<lock, review, version, request, late, clobbered>>

\* The cluster's own roles change.
Roles ==
  /\ Changes
  /\ review' = ~review
  /\ UNCHANGED <<lock, level, version, request, late, clobbered>>

\* A controller, or another person, writes an object.
Other(o) ==
  /\ version[o] \in 1..(MaxVersion - 1)
  /\ version' = [version EXCEPT ![o] = @ + 1]
  /\ UNCHANGED <<lock, level, review, request, late, clobbered, changes>>

Next ==
  \/ Lock \/ Roles
  \/ \E l \in {"none", "read", "write"} : Grant(l)
  \/ \E o \in Objects : Other(o)
  \/ \E r \in Requests :
       \/ Gates(r) \/ Get(r) \/ Fails(r) \/ Send(r)
       \/ \E o \in Objects : Authorise(r, o)
       \/ \E seen \in SUBSET Objects : Open(r, seen)
       \/ \E docs \in SUBSET Objects, dry \in BOOLEAN : Submit(r, docs, dry)

Spec == Init /\ [][Next]_vars

-----------------------------------------------------------------------------
(* Properties. *)

\* The lock "exists for the window where a cluster must not change"
\* (write_guard.go:76-78).  A request past the gate when it is set writes the
\* document it was authorised for and no other, however many its manifest has.
LockStopsAtOne == \A r \in Requests : late[r] <= 1

\* A text that carries the version it was read at never overwrites a change
\* its author did not see (write.go:73-77).
NothingClobbered == ~clobbered

-----------------------------------------------------------------------------
(* What makes the properties inductive. *)

\* A request past its authorisation has a document in hand.
InHand ==
  \A r \in Requests : request[r].step \in {"gates", "get", "send"} =>
     request[r].doc \in Objects /\ request[r].row \in Rows

\* One that has written under the lock has no write before it: its next
\* document is authorised with the row that shows the lock.
Stopped ==
  \A r \in Requests : late[r] # 0 =>
     /\ lock
     /\ request[r].step \notin {"get", "send"}
     /\ request[r].step = "gates" => request[r].row.lock

IInv == TypeOK /\ InHand /\ Stopped /\ LockStopsAtOne /\ NothingClobbered
=============================================================================
