--------------------------- MODULE BackgroundProofs ---------------------------
(***************************************************************************)
(* Proofs about what runs behind the requests, for every value of the      *)
(* constants: the audit shipper, the informer pool, the port-forwards and  *)
(* the tunnel, each by its inductive invariant, and then all of it side by *)
(* side as the model checker runs it: a step of one part leaves the        *)
(* others as they are.                                                     *)
(*                                                                         *)
(* The shipper's invariant has three parts.  Books says where the worker   *)
(* and Close are, what the batch then holds, and that every event is in    *)
(* one place; Order, that the batch and then the queue are in the order of *)
(* the offers; Copied, what the sink may have seen of them.  With Order a  *)
(* delivery that ends settles a run of the oldest pending events, which is *)
(* what AuditDelivery promises.  The invariants of the other parts are     *)
(* stated in their modules, over the variables s1 .. s11 that they share.  *)
(***************************************************************************)
EXTENDS MCBackground, TLAPS, SequenceTheorems, FiniteSetTheorems

-----------------------------------------------------------------------------
(* The shipper. *)

\* Where the worker and Close are, and what the batch then holds.  A delivery
\* holds a batch that is not empty, the select loop one that is not full; the
\* worker returns only once Close has begun, and empty-handed unless it was
\* cut off.
Places ==
    /\ closed <=> closer # "open"
    /\ stopped => closer \in {"stopping", "closed"}
    /\ pc \in {"send", "sleep"} => batch # <<>>
    /\ pc \in {"select", "returned"} => Len(batch) < BatchSize
    /\ pc = "returned" => closed
    /\ closer = "closed" => pc = "returned"
    /\ CloseFlushes

Books == TypeOK /\ Places /\ Conservation /\ RetryLedger

\* The batch and then the queue hold events in the order in which they were
\* offered.
Order ==
    /\ \A i, j \in 1 .. Len(queue) : i < j => queue[i] < queue[j]
    /\ \A i, j \in 1 .. Len(batch) : i < j => batch[i] < batch[j]
    /\ \A i \in 1 .. Len(batch), j \in 1 .. Len(queue) : batch[i] < queue[j]
    /\ \A i \in 1 .. Len(queue) : queue[i] <= offered
    /\ \A i \in 1 .. Len(batch) : batch[i] <= offered

\* The sink has seen nothing of what is still to come or queued, and of the
\* batch what the attempts so far may have left.
Copied ==
    /\ pc \in {"select", "returned"} => attempt = 0
    /\ \A e \in Event : e > offered => copies[e] = 0
    /\ \A i \in 1 .. Len(queue) : copies[queue[i]] = 0
    /\ \A i \in 1 .. Len(batch) : copies[batch[i]] <= attempt
    /\ BoundedCopies

IInv == Books /\ Order /\ Copied

\* The increments Store adds keep the history well typed.
LEMMA StoreType ==
    ASSUME copies \in [Event -> Nat], NEW S, Store(S)
    PROVE  copies' \in [Event -> Nat]
BY DEF Store

\* Only the empty sequence has length zero.
LEMMA LenFacts ==
    ASSUME NEW S, NEW s \in Seq(S)
    PROVE  /\ Len(s) \in Nat
           /\ s # <<>> => Len(s) >= 1
           /\ s = <<>> => Len(s) = 0
BY EmptySeq, LenProperties

\* The bounds, as the arithmetic below uses them.
LEMMA Bounds ==
    /\ QueueSize \in Nat /\ QueueSize >= 1
    /\ BatchSize \in Nat /\ BatchSize >= 1
    /\ MaxTries \in Nat /\ MaxTries >= 1 /\ 0 \in 0 .. MaxTries - 1
    /\ MaxOffered \in Nat
BY ShipperAssumption

\* The books are in order at the start, ...
LEMMA InitBooks == Init => Books
<1> SUFFICES ASSUME Init PROVE Books
    OBVIOUS
<1> USE Bounds DEF Init
<1>1. <<>> \in Seq(Event) /\ Len(<<>>) = 0
    BY EmptySeq
<1>2. copies \in [Event -> Nat] /\ offered \in 0..MaxOffered
    OBVIOUS
<1>3. TypeOK
  <2>1. queue \in Seq(Event) /\ Len(queue) <= QueueSize
    BY <1>1
  <2>2. batch \in Seq(Event) /\ Len(batch) <= BatchSize
    BY <1>1
  <2> QED BY <1>2, <2>1, <2>2 DEF TypeOK
<1>4. Places /\ Conservation /\ RetryLedger
    BY <1>1 DEF Places, CloseFlushes, Conservation, RetryLedger
<1> QED BY <1>3, <1>4 DEF Books

\* ... and every step keeps them.
LEMMA NextBooks == Books /\ [Next]_vars => Books'
<1> SUFFICES ASSUME Books, [Next]_vars PROVE Books'
    OBVIOUS
<1> USE Bounds
<1>a. /\ Len(queue) \in Nat /\ Len(batch) \in Nat
      /\ batch # <<>> => Len(batch) >= 1
      /\ Len(<<>>) = 0 /\ <<>> \in Seq(Event)
    BY LenFacts, EmptySeq DEF Books, TypeOK
<1>1. CASE EnqueueAccept
    <2>1. offered' \in Event
        BY <1>1 DEF EnqueueAccept, Books, TypeOK, Event
    <2>2. queue' \in Seq(Event) /\ Len(queue') = Len(queue) + 1
        BY <1>1, <2>1, AppendProperties DEF EnqueueAccept, Books, TypeOK
    <2>3. TypeOK'
        BY <1>1, <2>1, <2>2 DEF EnqueueAccept, Books, TypeOK, counters
    <2>4. Places'
        BY <1>1 DEF EnqueueAccept, Books, Places, CloseFlushes
    <2>5. Conservation' /\ RetryLedger'
        BY <1>1, <1>a, <2>2
        DEF EnqueueAccept, Books, TypeOK, Conservation, RetryLedger, counters
    <2> QED BY <2>3, <2>4, <2>5 DEF Books
<1>2. CASE EnqueueDrop
    <2>1. TypeOK'
        BY <1>2 DEF EnqueueDrop, Books, TypeOK
    <2>2. Places'
        BY <1>2 DEF EnqueueDrop, Books, Places, CloseFlushes
    <2>3. Conservation' /\ RetryLedger'
        BY <1>2, <1>a DEF EnqueueDrop, Books, TypeOK, Conservation, RetryLedger
    <2> QED BY <2>1, <2>2, <2>3 DEF Books
<1>3. CASE EnqueueOnClosed
    BY <1>3 DEF EnqueueOnClosed, Books, TypeOK, Places, CloseFlushes,
                Conservation, RetryLedger, counters
<1>4. CASE Receive
    <2>1. /\ Head(queue) \in Event
          /\ queue' \in Seq(Event) /\ Len(queue') = Len(queue) - 1
        BY <1>4, HeadTailProperties DEF Receive, Books, TypeOK
    <2>2. /\ batch' \in Seq(Event) /\ Len(batch') = Len(batch) + 1
          /\ batch' # <<>>
        BY <1>4, <2>1, AppendProperties DEF Receive, Books, TypeOK
    <2>3. Len(batch) < BatchSize
        BY <1>4 DEF Receive, Books, Places
    <2>a. /\ pc' \in {"select", "send"} /\ attempt' \in 0 .. MaxTries - 1
          /\ pc' = "select" => Len(batch') < BatchSize
        BY <1>4, <2>2 DEF Receive, StartDelivery, Books, TypeOK
    <2>4. TypeOK'
        BY <1>4, <1>a, <2>1, <2>2, <2>3, <2>a DEF Receive, Books, TypeOK, counters
    <2>5. Places'
        BY <1>4, <2>2, <2>a DEF Receive, Books, Places, CloseFlushes
    <2>6. Conservation' /\ RetryLedger'
        BY <1>4, <1>a, <2>1, <2>2
        DEF Receive, Books, TypeOK, Conservation, RetryLedger, counters
    <2> QED BY <2>4, <2>5, <2>6 DEF Books
<1>5. CASE ReceiveClosed
    BY <1>5 DEF ReceiveClosed, StartDelivery, Books, TypeOK, Places,
                CloseFlushes, Conservation, RetryLedger, counters
<1>6. CASE BatchTimer
    BY <1>6 DEF BatchTimer, StartDelivery, Books, TypeOK, Places, CloseFlushes,
                Conservation, RetryLedger, counters
<1>7. CASE ContextDone
    BY <1>7 DEF ContextDone, Books, TypeOK, Places, CloseFlushes,
                Conservation, RetryLedger, counters
<1>8. CASE SendOk
    <2>1. copies' \in [Event -> Nat]
        BY <1>8, StoreType DEF SendOk, Books, TypeOK
    <2>a. sent' \in Nat
        BY <1>8, <1>a DEF SendOk, Books, TypeOK
    <2>2. TypeOK'
        BY <1>8, <1>a, <2>1, <2>a DEF SendOk, EndDelivery, Books, TypeOK
    <2>3. Places'
        BY <1>8, <1>a DEF SendOk, EndDelivery, Books, TypeOK, Places, CloseFlushes
    <2>4. Conservation' /\ RetryLedger'
        BY <1>8, <1>a
        DEF SendOk, EndDelivery, Books, TypeOK, Conservation, RetryLedger
    <2> QED BY <2>2, <2>3, <2>4 DEF Books
<1>9. CASE SendError
    <2>1. copies' \in [Event -> Nat]
        BY <1>9, StoreType DEF SendError, Books, TypeOK
    <2>2. Len(batch) >= 1
        BY <1>9, <1>a DEF SendError, Books, Places
    <2>a. /\ failed' \in Nat /\ retries' \in Nat /\ dropped' \in Nat
          /\ attempt' \in 0 .. MaxTries - 1 /\ pc' \in {"select", "sleep"}
          /\ batch' \in Seq(Event) /\ Len(batch') <= BatchSize
      <3>1. CASE attempt + 1 < MaxTries
        BY <1>9, <3>1 DEF SendError, Books, TypeOK
      <3>2. CASE ~(attempt + 1 < MaxTries)
        BY <1>9, <1>a, <3>2 DEF SendError, CountLoss, EndDelivery, Books, TypeOK
      <3> QED BY <3>1, <3>2
    <2>3. TypeOK'
        BY <1>9, <2>1, <2>a DEF SendError, Books, TypeOK
    <2>4. Places'
        BY <1>9, <1>a
        DEF SendError, CountLoss, EndDelivery, Books, TypeOK, Places, CloseFlushes
    <2>5. CASE attempt + 1 < MaxTries
        BY <1>9, <1>a, <2>2, <2>3, <2>4, <2>5
        DEF SendError, Books, TypeOK, Conservation, RetryLedger
    <2>6. CASE ~(attempt + 1 < MaxTries)
        BY <1>9, <1>a, <2>2, <2>3, <2>4, <2>6
        DEF SendError, CountLoss, EndDelivery, Books, TypeOK, Conservation,
            RetryLedger
    <2> QED BY <2>5, <2>6
<1>10. CASE SleepOver
    BY <1>10 DEF SleepOver, Books, TypeOK, Places, CloseFlushes,
                 Conservation, RetryLedger, counters
<1>11. CASE SleepCancelled
    <2>1. TypeOK'
        BY <1>11, <1>a DEF SleepCancelled, CountLoss, EndDelivery, Books, TypeOK
    <2>2. Places'
        BY <1>11, <1>a
        DEF SleepCancelled, CountLoss, EndDelivery, Books, TypeOK, Places, CloseFlushes
    <2>3. Conservation' /\ RetryLedger'
        BY <1>11, <1>a
        DEF SleepCancelled, CountLoss, EndDelivery, Books, TypeOK, Conservation,
            RetryLedger
    <2> QED BY <2>1, <2>2, <2>3 DEF Books
<1>12. CASE CloseStart
    BY <1>12 DEF CloseStart, Books, TypeOK, Places, CloseFlushes,
                 Conservation, RetryLedger, counters
<1>13. CASE CloseDeadline
    BY <1>13 DEF CloseDeadline, Books, TypeOK, Places, CloseFlushes,
                 Conservation, RetryLedger, counters
<1>14. CASE CloseReturn
    BY <1>14 DEF CloseReturn, Books, TypeOK, Places, CloseFlushes,
                 Conservation, RetryLedger, counters
<1>15. CASE UNCHANGED vars
    BY <1>15 DEF vars, Books, TypeOK, Places, CloseFlushes,
                 Conservation, RetryLedger, counters
<1> QED
    BY <1>1, <1>2, <1>3, <1>4, <1>5, <1>6, <1>7, <1>8, <1>9, <1>10, <1>11,
       <1>12, <1>13, <1>14, <1>15
    DEF Next, Enqueue, Worker

\* What Append, Tail and the empty sequence do to the places of a sequence.
LEMMA QueueFacts ==
    ASSUME Books
    PROVE  /\ queue \in Seq(Event) /\ batch \in Seq(Event)
           /\ Len(queue) \in Nat /\ Len(batch) \in Nat
           /\ \A i \in 1 .. Len(queue) : queue[i] \in Event
           /\ \A i \in 1 .. Len(batch) : batch[i] \in Event
           /\ Range(queue) = {queue[i] : i \in 1 .. Len(queue)}
           /\ Range(batch) = {batch[i] : i \in 1 .. Len(batch)}
           /\ Len(<<>>) = 0
BY LenProperties, ElementOfSeq, RangeEquality, EmptySeq DEF Books, TypeOK

\* The event that is accepted goes to the end of the queue.
LEMMA AcceptFacts ==
    ASSUME Books, EnqueueAccept
    PROVE  /\ offered \in Nat /\ offered' = offered + 1 /\ offered' \in Event
           /\ Len(queue') = Len(queue) + 1
           /\ \A i \in 1 .. Len(queue) : queue'[i] = queue[i]
           /\ queue'[Len(queue) + 1] = offered'
<1>1. offered' \in Event /\ offered \in Nat
    BY Bounds DEF EnqueueAccept, Books, TypeOK, Event
<1> QED BY <1>1, AppendProperties DEF EnqueueAccept, Books, TypeOK

\* The head of the queue goes to the end of the batch.
LEMMA ReceiveFacts ==
    ASSUME Books, Receive
    PROVE  /\ Len(queue) >= 1
           /\ Len(queue') = Len(queue) - 1 /\ Len(batch') = Len(batch) + 1
           /\ \A i \in 1 .. Len(queue') : queue'[i] = queue[i + 1]
           /\ \A i \in 1 .. Len(batch) : batch'[i] = batch[i]
           /\ batch'[Len(batch) + 1] = queue[1]
<1>1. queue \in Seq(Event) /\ queue # <<>> /\ batch \in Seq(Event)
    BY DEF Receive, Books, TypeOK
<1>2. Head(queue) \in Event /\ Head(queue) = queue[1] /\ Len(queue) >= 1
    BY <1>1, HeadTailProperties, LenFacts
<1>3. /\ Len(queue') = Len(queue) - 1
      /\ \A i \in 1 .. Len(queue') : queue'[i] = queue[i + 1]
    BY <1>1, HeadTailProperties DEF Receive
<1>4. /\ Len(batch') = Len(batch) + 1
      /\ \A i \in 1 .. Len(batch) : batch'[i] = batch[i]
      /\ batch'[Len(batch) + 1] = queue[1]
    BY <1>1, <1>2, AppendProperties DEF Receive
<1> QED BY <1>2, <1>3, <1>4

\* Queue, batch and offered change in these ways only.
Moves ==
    \/ EnqueueAccept
    \/ Receive
    \/ batch' = <<>> /\ UNCHANGED <<queue, offered>>
    \/ offered' \in {offered, offered + 1} /\ UNCHANGED <<queue, batch>>

\* Every step is one of them.
LEMMA StepMoves ==
    ASSUME [Next]_vars PROVE Moves
BY DEF Moves, Next, vars, Enqueue, EnqueueDrop, EnqueueOnClosed, Worker, ReceiveClosed,
       StartDelivery, BatchTimer, ContextDone, SendOk, EndDelivery, SendError, CountLoss,
       SleepOver, SleepCancelled, CloseStart, CloseDeadline, CloseReturn

\* Every step keeps the order.
LEMMA OrderStep ==
    ASSUME Books, Order, [Next]_vars
    PROVE  Order'
<1>o. /\ offered \in Nat
      /\ Len(queue) \in Nat /\ \A i \in 1 .. Len(queue) : queue[i] \in Nat
      /\ Len(batch) \in Nat /\ \A i \in 1 .. Len(batch) : batch[i] \in Nat
    BY QueueFacts, Bounds DEF Books, TypeOK, Event
<1>1. CASE EnqueueAccept
    <2> DEFINE n == Len(queue) + 1
    <2>1. /\ batch' = batch /\ offered' = offered + 1 /\ Len(queue') = n
          /\ queue'[n] = offered'
          /\ \A i \in 1 .. Len(queue) : queue'[i] = queue[i]
        BY <1>1, AcceptFacts DEF EnqueueAccept
    <2>2. \A i \in 1 .. n : i = n \/ (i \in 1 .. Len(queue) /\ i # n)
        BY <1>o
    <2>3. \A i \in 1 .. Len(queue) : i < n /\ i \in 1 .. n /\ n \in Int
        BY <1>o
    <2> HIDE DEF n
    <2>4. \A i, j \in 1 .. Len(queue') : i < j => queue'[i] < queue'[j]
        BY <2>1, <2>2, <2>3, <1>o DEF Order
    <2>5. \A i \in 1 .. Len(batch'), j \in 1 .. Len(queue') : batch'[i] < queue'[j]
        BY <2>1, <2>2, <1>o DEF Order
    <2>6. /\ \A i \in 1 .. Len(queue') : queue'[i] <= offered'
          /\ \A i \in 1 .. Len(batch') : batch'[i] <= offered'
      <3>1. \A i \in 1 .. Len(batch') : batch'[i] <= offered'
        BY <2>1, <1>o DEF Order
      <3>2. \A i \in 1 .. Len(queue) : queue'[i] <= offered'
        BY <2>1, <1>o DEF Order
      <3>3. offered' \in Nat /\ queue'[n] <= offered'
        BY <2>1, <1>o
      <3> QED BY <3>1, <3>2, <3>3, <2>1, <2>2
    <2>7. \A i, j \in 1 .. Len(batch') : i < j => batch'[i] < batch'[j]
        BY <2>1 DEF Order
    <2> QED BY <2>4, <2>5, <2>6, <2>7 DEF Order
<1>2. CASE Receive
    <2> DEFINE n == Len(batch) + 1
    <2>1. /\ offered' = offered /\ Len(batch') = n /\ batch'[n] = queue[1]
          /\ \A i \in 1 .. Len(batch) : batch'[i] = batch[i]
          /\ \A i \in 1 .. Len(queue') : queue'[i] = queue[i + 1]
        BY <1>2, ReceiveFacts DEF Receive
    <2>a. Len(queue) >= 1 /\ Len(queue') = Len(queue) - 1
        BY <1>2, ReceiveFacts
    <2>b. /\ 1 \in 1 .. Len(queue)
          /\ \A i \in 1 .. Len(queue') : i + 1 \in 1 .. Len(queue) /\ 1 < i + 1
          /\ \A i, j \in 1 .. Len(queue') : i < j => i + 1 < j + 1
        BY <2>a, <1>o
    <2>2. \A i \in 1 .. n : i = n \/ (i \in 1 .. Len(batch) /\ i # n)
        BY <1>o
    <2>c. \A i \in 1 .. Len(batch) : i < n /\ i \in 1 .. n /\ n \in Int
        BY <1>o
    <2> HIDE DEF n
    <2>3. \A i, j \in 1 .. Len(queue') : i < j => queue'[i] < queue'[j]
        BY <2>1, <2>b DEF Order
    <2>4. \A i, j \in 1 .. Len(batch') : i < j => batch'[i] < batch'[j]
        BY <2>1, <2>2, <2>b, <2>c, <1>o DEF Order
    <2>5. \A i \in 1 .. Len(batch'), j \in 1 .. Len(queue') : batch'[i] < queue'[j]
        BY <2>1, <2>2, <2>b, <1>o DEF Order
    <2>6. /\ \A i \in 1 .. Len(queue') : queue'[i] <= offered'
          /\ \A i \in 1 .. Len(batch') : batch'[i] <= offered'
        BY <2>1, <2>2, <2>b, <1>o DEF Order
    <2> QED BY <2>3, <2>4, <2>5, <2>6 DEF Order
<1>3. CASE batch' = <<>> /\ UNCHANGED <<queue, offered>>
    BY <1>3, QueueFacts DEF Order
<1>4. CASE offered' \in {offered, offered + 1} /\ UNCHANGED <<queue, batch>>
    BY <1>4, <1>o DEF Order
<1> QED BY <1>1, <1>2, <1>3, <1>4, StepMoves DEF Moves

\* An attempt adds one copy at most, and of the batch only.
LEMMA StoreFacts ==
    ASSUME Books, Order, NEW S \in SUBSET Range(batch), Store(S)
    PROVE  /\ \A e \in Event :
                 \/ copies'[e] = copies[e]
                 \/ copies'[e] = copies[e] + 1 /\ \E i \in 1 .. Len(batch) : e = batch[i]
           /\ \A i \in 1 .. Len(queue) : copies'[queue[i]] = copies[queue[i]]
           /\ \A e \in Event : e > offered => copies'[e] = copies[e]
<1>o. /\ offered \in Nat /\ \A e \in Event : e \in Nat
      /\ \A i \in 1 .. Len(queue) : queue[i] \in Event
      /\ \A i \in 1 .. Len(batch) : batch[i] \in Event
    BY QueueFacts, Bounds DEF Books, TypeOK, Event
<1>1. \A e \in Event :
          \/ copies'[e] = copies[e]
          \/ copies'[e] = copies[e] + 1 /\ \E i \in 1 .. Len(batch) : e = batch[i]
    BY QueueFacts DEF Store, Books, TypeOK
<1>2. \A i \in 1 .. Len(queue), j \in 1 .. Len(batch) : queue[i] # batch[j]
    BY <1>o DEF Order
<1>3. \A e \in Event, j \in 1 .. Len(batch) : e > offered => e # batch[j]
    BY <1>o DEF Order
<1> QED BY <1>o, <1>1, <1>2, <1>3

\* Every step keeps count of the copies.
LEMMA CopiedStep ==
    ASSUME Books, Order, Copied, [Next]_vars
    PROVE  Copied'
<1>t. /\ offered \in Nat /\ attempt \in 0 .. MaxTries - 1 /\ MaxTries \in Nat
      /\ Len(queue) \in Nat /\ Len(batch) \in Nat /\ Len(<<>>) = 0
      /\ \A e \in Event : e \in Nat /\ copies[e] \in Nat
      /\ \A i \in 1 .. Len(queue) : queue[i] \in Event
      /\ \A i \in 1 .. Len(batch) : batch[i] \in Event
    BY QueueFacts, Bounds DEF Books, TypeOK, Event
<1>1. CASE EnqueueAccept
    <2>1. UNCHANGED <<batch, pc, attempt, copies>>
        BY <1>1 DEF EnqueueAccept
    <2>2. /\ offered' = offered + 1 /\ offered' \in Event
          /\ \A i \in 1 .. Len(queue') : \/ queue'[i] = offered'
                                         \/ i \in 1 .. Len(queue) /\ queue'[i] = queue[i]
        BY <1>1, <1>t, AcceptFacts
    <2> QED BY <2>1, <2>2, <1>t DEF Copied, BoundedCopies
<1>2. CASE Receive
    <2>1. attempt = 0 /\ attempt' = 0 /\ UNCHANGED <<offered, copies>>
        BY <1>2 DEF Receive, StartDelivery, Copied
    <2>2. /\ \A i \in 1 .. Len(queue') : i + 1 \in 1 .. Len(queue)
          /\ \A i \in 1 .. Len(queue') : queue'[i] = queue[i + 1]
          /\ 1 \in 1 .. Len(queue)
          /\ \A i \in 1 .. Len(batch') : \/ batch'[i] = queue[1]
                                         \/ i \in 1 .. Len(batch) /\ batch'[i] = batch[i]
        BY <1>2, <1>t, ReceiveFacts
    <2>3. \A i \in 1 .. Len(queue') : copies'[queue'[i]] = 0
        BY <2>1, <2>2 DEF Copied
    <2>4. \A i \in 1 .. Len(batch') : copies'[batch'[i]] <= attempt'
        BY <2>1, <2>2, <1>t DEF Copied
    <2> QED BY <2>1, <2>3, <2>4 DEF Copied, BoundedCopies
<1>3. CASE SendOk
    <2>1. /\ Store(Range(batch)) /\ batch' = <<>> /\ attempt' = 0
          /\ UNCHANGED <<queue, offered>>
        BY <1>3 DEF SendOk, EndDelivery
    <2>2. /\ \A e \in Event :
                \/ copies'[e] = copies[e]
                \/ copies'[e] = copies[e] + 1 /\ \E i \in 1 .. Len(batch) : e = batch[i]
          /\ \A i \in 1 .. Len(queue) : copies'[queue[i]] = copies[queue[i]]
          /\ \A e \in Event : e > offered => copies'[e] = copies[e]
        BY <2>1, StoreFacts
    <2>3. BoundedCopies'
        BY <2>2, <1>t DEF Copied, BoundedCopies
    <2> QED BY <2>1, <2>2, <2>3, <1>t DEF Copied
<1>4. CASE SendError
    <2>1. PICK S \in SUBSET Range(batch) : Store(S)
        BY <1>4 DEF SendError
    <2>2. /\ \A e \in Event :
                \/ copies'[e] = copies[e]
                \/ copies'[e] = copies[e] + 1 /\ \E i \in 1 .. Len(batch) : e = batch[i]
          /\ \A i \in 1 .. Len(queue) : copies'[queue[i]] = copies[queue[i]]
          /\ \A e \in Event : e > offered => copies'[e] = copies[e]
        BY <2>1, StoreFacts
    <2>3. BoundedCopies' /\ UNCHANGED <<queue, offered>>
        BY <1>4, <2>2, <1>t DEF SendError, Copied, BoundedCopies
    <2>4. CASE attempt + 1 < MaxTries
        <3>1. attempt' = attempt + 1 /\ pc' = "sleep" /\ batch' = batch
            BY <1>4, <2>4 DEF SendError
        <3>2. \A i \in 1 .. Len(batch) : copies'[batch[i]] <= attempt'
            BY <2>2, <3>1, <1>t DEF Copied
        <3> QED BY <2>2, <2>3, <3>1, <3>2, <1>t DEF Copied
    <2>5. CASE ~(attempt + 1 < MaxTries)
        <3>1. attempt' = 0 /\ batch' = <<>>
            BY <1>4, <2>5 DEF SendError, CountLoss, EndDelivery
        <3> QED BY <2>2, <2>3, <3>1, <1>t DEF Copied
    <2> QED BY <2>4, <2>5
<1>5. CASE /\ UNCHANGED <<queue, copies>>
           /\ offered' \in {offered, offered + 1}
           /\ \/ batch' = <<>> /\ attempt' = 0
              \/ batch' = batch /\ attempt' = 0 /\ attempt = 0
              \/ batch' = batch /\ attempt' = attempt /\ (pc' = pc \/ pc' = "send")
    BY <1>5, <1>t DEF Copied, BoundedCopies
<1>6. EnqueueDrop \/ EnqueueOnClosed \/ CloseStart \/ CloseDeadline \/ CloseReturn
      \/ UNCHANGED vars
        => /\ UNCHANGED <<queue, copies, batch, attempt, pc>>
           /\ offered' \in {offered, offered + 1}
    BY DEF vars, EnqueueDrop, EnqueueOnClosed, CloseStart, CloseDeadline, CloseReturn
<1>7. ReceiveClosed \/ BatchTimer \/ ContextDone \/ SleepOver \/ SleepCancelled
        => /\ UNCHANGED <<queue, copies, offered>>
           /\ \/ batch' = <<>> /\ attempt' = 0
              \/ batch' = batch /\ attempt' = 0 /\ attempt = 0
              \/ batch' = batch /\ attempt' = attempt /\ pc' = "send"
    BY DEF ReceiveClosed, StartDelivery, BatchTimer, ContextDone, SleepOver,
        SleepCancelled,
           CountLoss, EndDelivery, Copied
<1> QED BY <1>1, <1>2, <1>3, <1>4, <1>5, <1>6, <1>7 DEF Next, Enqueue, Worker

\* The inductive invariant of the shipper.
LEMMA InitIInv == Init => IInv
<1> SUFFICES ASSUME Init PROVE IInv
    OBVIOUS
<1>1. Books
    BY InitBooks
<1>2. Len(queue) = 0 /\ Len(batch) = 0
    BY EmptySeq DEF Init
<1> QED BY <1>1, <1>2, Bounds DEF Init, IInv, Order, Copied, BoundedCopies

\* Every step keeps it.
LEMMA NextIInv == IInv /\ [Next]_vars => IInv'
BY NextBooks, OrderStep, CopiedStep DEF IInv

\* The inductive invariant holds throughout every behaviour of the shipper.
THEOREM ShipperInvariant == Spec => []IInv
<1> QED BY InitIInv, NextIInv, PTL DEF Spec

\* Type correctness: the queue and the batch stay within their bounds.
THEOREM ShipperTypeOK == Spec => []TypeOK
<1>1. IInv => TypeOK
    BY DEF IInv, Books
<1> QED BY <1>1, ShipperInvariant, PTL

\* No event is lost from, or counted twice in, the shipper's books: what was
\* offered is sent, dropped, queued or in the batch, whatever the sink does.
THEOREM ShipperConservation == Spec => []Conservation
<1>1. IInv => Conservation
    BY DEF IInv, Books
<1> QED BY <1>1, ShipperInvariant, PTL

\* Every failed attempt is followed by a counted retry or by counted drops.
THEOREM ShipperRetryLedger == Spec => []RetryLedger
<1>1. IInv => RetryLedger
    BY DEF IInv, Books
<1> QED BY <1>1, ShipperInvariant, PTL

\* A close that was not cut off leaves the queue and the batch empty.
THEOREM ShipperCloseFlushes == Spec => []CloseFlushes
<1>1. IInv => CloseFlushes
    BY DEF IInv, Books, Places
<1> QED BY <1>1, ShipperInvariant, PTL

\* A cut-off close leaves fewer events uncounted than one queue and one batch.
THEOREM ShipperLossBounded == Spec => []LossBounded
<1>1. IInv => LossBounded
    BY Bounds, LenFacts
    DEF IInv, Books, TypeOK, Places, Conservation, LossBounded
<1> QED BY <1>1, ShipperInvariant, PTL

\* Both at once: what a close leaves behind is bounded, and is nothing unless
\* its deadline cut it off.
THEOREM ShipperClosing == Spec => []ClosingAccounts
<1>1. CloseFlushes /\ LossBounded => ClosingAccounts
    BY DEF ClosingAccounts
<1> QED BY <1>1, ShipperCloseFlushes, ShipperLossBounded, PTL

\* A record reaches the sink at most once per try: a batch is never delivered
\* again after its delivery ended (Shipper.deliver).
THEOREM ShipperBoundedCopies == Spec => []BoundedCopies
<1>1. IInv => BoundedCopies
    BY DEF IInv, Copied
<1> QED BY <1>1, ShipperInvariant, PTL

-----------------------------------------------------------------------------
(* The shipper implements AuditDelivery. *)

\* Two events of the batch are different, so there are as many as it is long.
LEMMA BatchCounts ==
    ASSUME IInv
    PROVE  Cardinality(Range(batch)) = Len(batch)
<1>0. batch \in Seq(Range(batch))
    BY QueueFacts, SeqOfRange DEF IInv
<1>1. /\ Len(batch) \in Nat /\ Range(batch) = {batch[i] : i \in 1 .. Len(batch)}
      /\ batch \in [1 .. Len(batch) -> Range(batch)]
      /\ \A i \in 1 .. Len(batch) : batch[i] \in Nat
  <2>1. \A i \in 1 .. Len(batch) : batch[i] \in Nat
    BY QueueFacts, Bounds DEF IInv, Event
  <2>2. batch \in [1 .. Len(batch) -> Range(batch)]
    BY <1>0, LenProperties
  <2> QED BY <2>1, <2>2, QueueFacts DEF IInv
<1>2. \A i, j \in 1 .. Len(batch) : batch[i] = batch[j] => i = j
  <2> SUFFICES ASSUME NEW i \in 1 .. Len(batch), NEW j \in 1 .. Len(batch), i # j
               PROVE  batch[i] # batch[j]
    OBVIOUS
  <2>1. i < j \/ j < i
    BY <1>1
  <2> QED BY <2>1, <1>1 DEF IInv, Order
<1>3. batch \in Bijection(1 .. Len(batch), Range(batch))
    BY <1>1, <1>2 DEF Bijection, Injection, Surjection, IsInjective
<1>4. IsFiniteSet(1 .. Len(batch)) /\ Cardinality(1 .. Len(batch)) = Len(batch)
    BY <1>1, FS_Interval
<1> QED BY <1>3, <1>4, FS_Bijection DEF ExistsBijection

\* The abstract module counts in the same way.
LEMMA SameCount == \A S : Delivery!Cardinality(S) = Cardinality(S)
BY DEF Delivery!Cardinality, Cardinality

\* What is pending, and how the steps of the shipper change it.
Pending == Range(queue) \cup Range(batch)

\* The batch is older than the queue, and a delivery is of something.
LEMMA PendingFacts ==
    ASSUME IInv
    PROVE  /\ Range(queue) \subseteq Nat /\ Range(batch) \subseteq Nat
           /\ \A e \in Range(batch), f \in Range(queue) : e < f
           /\ batch # <<>> => Range(batch) # {}
           /\ Range(<<>>) = {}
<1>1. batch # <<>> => 1 \in 1 .. Len(batch)
    BY LenFacts, QueueFacts DEF IInv
<1>2. Range(<<>>) = {}
    BY DEF Range
<1>3. /\ \A i \in 1 .. Len(queue) : queue[i] \in Nat
      /\ \A i \in 1 .. Len(batch) : batch[i] \in Nat
    BY QueueFacts, Bounds DEF IInv, Event
<1>4. /\ Range(queue) = {queue[i] : i \in 1 .. Len(queue)}
      /\ Range(batch) = {batch[i] : i \in 1 .. Len(batch)}
    BY QueueFacts DEF IInv
<1> QED BY <1>1, <1>2, <1>3, <1>4 DEF IInv, Order

\* An accepted event is pending from then on.
LEMMA PendingAccepted ==
    ASSUME IInv, EnqueueAccept
    PROVE  Pending' = Pending \cup {offered'}
<1>1. /\ queue' \in Seq(Event) /\ batch' = batch /\ Len(queue) \in Nat
      /\ Len(queue') = Len(queue) + 1 /\ queue'[Len(queue) + 1] = offered'
      /\ \A i \in 1 .. Len(queue) : queue'[i] = queue[i]
    BY AcceptFacts, QueueFacts, AppendProperties DEF IInv, Books, TypeOK, EnqueueAccept
<1>2. Range(queue') = {queue'[i] : i \in 1 .. Len(queue')}
    BY <1>1, RangeEquality
<1>3. 1 .. Len(queue') = (1 .. Len(queue)) \cup {Len(queue) + 1}
    BY <1>1
<1>4. Range(queue') = {queue[i] : i \in 1 .. Len(queue)} \cup {offered'}
    BY <1>1, <1>2, <1>3
<1> QED BY <1>1, <1>4, QueueFacts DEF Pending, IInv

\* The worker takes an event into its batch, where it is pending still.
LEMMA PendingReceived ==
    ASSUME IInv, Receive
    PROVE  Pending' = Pending
<1>0. /\ queue \in Seq(Event) /\ queue # <<>> /\ batch \in Seq(Event)
      /\ Len(queue) \in Nat /\ Len(batch) \in Nat
      /\ queue' = Tail(queue) /\ batch' = Append(batch, Head(queue))
    BY QueueFacts DEF IInv, Books, TypeOK, Receive
<1>1. queue' \in Seq(Event) /\ batch' \in Seq(Event)
    BY <1>0, HeadTailProperties, AppendProperties
<1>2. /\ Len(queue) >= 1
      /\ Len(queue') = Len(queue) - 1 /\ Len(batch') = Len(batch) + 1
      /\ \A i \in 1 .. Len(queue') : queue'[i] = queue[i + 1]
      /\ \A i \in 1 .. Len(batch) : batch'[i] = batch[i]
      /\ batch'[Len(batch) + 1] = queue[1]
    BY ReceiveFacts DEF IInv
<1>3. /\ Range(queue') = {queue'[i] : i \in 1 .. Len(queue')}
      /\ Range(batch') = {batch'[i] : i \in 1 .. Len(batch')}
    BY <1>1, RangeEquality
<1>4. 1 .. Len(batch') = (1 .. Len(batch)) \cup {Len(batch) + 1}
    BY <1>0, <1>2
<1>5. Range(batch') = {batch[i] : i \in 1 .. Len(batch)} \cup {queue[1]}
    BY <1>2, <1>3, <1>4
<1>6. {queue[i] : i \in 1 .. Len(queue)} =
            {queue[1]} \cup {queue[i + 1] : i \in 1 .. Len(queue')}
  <2>1. \A i \in 1 .. Len(queue) : i = 1 \/ \E j \in 1 .. Len(queue') : i = j + 1
    <3> TAKE i \in 1 .. Len(queue)
    <3> SUFFICES ASSUME i # 1 PROVE i - 1 \in 1 .. Len(queue') /\ i = (i - 1) + 1
        OBVIOUS
    <3> QED BY <1>0, <1>2
  <2>2. \A j \in 1 .. Len(queue') : j + 1 \in 1 .. Len(queue)
    BY <1>0, <1>2
  <2>3. 1 \in 1 .. Len(queue)
    BY <1>0, <1>2
  <2> QED BY <2>1, <2>2, <2>3
<1>7. {queue'[i] : i \in 1 .. Len(queue')} = {queue[i + 1] : i \in 1 .. Len(queue')}
    BY <1>2
<1> QED BY <1>3, <1>5, <1>6, <1>7, QueueFacts DEF Pending, IInv

\* A delivery that ends settles the oldest events, all of its batch.
LEMMA DeliverySettles ==
    ASSUME IInv, pc \in {"send", "sleep"}, EndDelivery,
           UNCHANGED <<queue, offered, closer>>,
           \/ sent' = sent + Len(batch) /\ UNCHANGED dropped
           \/ dropped' = dropped + Len(batch) /\ UNCHANGED sent
    PROVE  Delivery!Settle
<1> DEFINE S == Range(batch)
<1>1. batch # <<>> /\ closer # "closed"
    BY DEF IInv, Books, Places
<1>2. S # {} /\ S \subseteq Pending
    BY <1>1, PendingFacts DEF Pending
<1>3. \A e \in S, f \in Pending \ S : e < f
    BY PendingFacts DEF Pending
<1>4. S \in Delivery!OldestRuns
    BY <1>2, <1>3 DEF Delivery!OldestRuns, Pending
<1>5. Pending' = Pending \ S
  <2>1. Range(queue) \cap S = {}
    BY PendingFacts
  <2>2. Pending' = Range(queue)
    BY PendingFacts DEF EndDelivery, Pending
  <2> QED BY <2>1, <2>2 DEF Pending
<1>6. Delivery!Cardinality(S) = Len(batch)
    BY BatchCounts, SameCount
<1> HIDE DEF S
<1> QED BY <1>1, <1>4, <1>5, <1>6 DEF Delivery!Settle, Pending

\* Every step of the shipper is a step of the abstract delivery, or none of it.
LEMMA DeliveryStep ==
    ASSUME IInv, [Next]_vars
    PROVE  [Delivery!Next]_Delivery!vars
<1> DEFINE Still == UNCHANGED <<offered, Pending, sent, dropped, closer>>
<1>0. Still => UNCHANGED Delivery!vars
    BY DEF Delivery!vars, Pending
<1>1. CASE EnqueueAccept
    <2>1. closer = "open" /\ UNCHANGED <<sent, dropped, closer>> /\ offered' = offered + 1
        BY <1>1 DEF EnqueueAccept, counters, IInv, Books, Places
    <2> QED BY <1>1, <2>1, PendingAccepted DEF Delivery!Next, Delivery!Offer, Pending
<1>2. CASE EnqueueDrop
    <2>1. closer = "open" /\ UNCHANGED <<Pending, sent, closer>>
        BY <1>2 DEF EnqueueDrop, Pending, IInv, Books, Places
    <2> QED BY <1>2, <2>1 DEF EnqueueDrop, Delivery!Next, Delivery!Offer, Pending
<1>3. CASE Receive
    <2>1. UNCHANGED <<offered, sent, dropped, closer>>
        BY <1>3 DEF Receive, counters
    <2> QED BY <1>0, <1>3, <2>1, PendingReceived
<1>4. CASE SendOk
    <2>1. Delivery!Settle
        BY <1>4, DeliverySettles DEF SendOk
    <2> QED BY <2>1 DEF Delivery!Next
<1>5. CASE SendError
    <2>1. CASE attempt + 1 < MaxTries
        BY <1>0, <1>5, <2>1 DEF SendError, Pending
    <2>2. CASE ~(attempt + 1 < MaxTries)
        <3>1. Delivery!Settle
            BY <1>5, <2>2, DeliverySettles DEF SendError, CountLoss
        <3> QED BY <3>1 DEF Delivery!Next
    <2> QED BY <2>1, <2>2
<1>6. CASE SleepCancelled
    <2>1. Delivery!Settle
        BY <1>6, DeliverySettles DEF SleepCancelled, CountLoss
    <2> QED BY <2>1 DEF Delivery!Next
<1>7. CASE CloseStart
    <2>1. UNCHANGED <<offered, Pending, sent, dropped>>
        BY <1>7 DEF CloseStart, counters, Pending
    <2> QED BY <1>7, <2>1 DEF CloseStart, Delivery!Next, Delivery!Close, Pending
<1>8. CASE CloseDeadline
    <2>1. UNCHANGED <<offered, Pending, sent, dropped>>
        BY <1>8 DEF CloseDeadline, counters, Pending
    <2> QED BY <1>8, <2>1 DEF CloseDeadline, Delivery!Next, Delivery!Expire, Pending
<1>9. CASE CloseReturn
    <2>1. UNCHANGED <<offered, Pending, sent, dropped>>
        BY <1>9 DEF CloseReturn, counters, Pending
    <2>2. closer = "draining" => Pending = {}
        <3>1. closer = "draining" => queue = <<>> /\ batch = <<>>
            BY <1>9 DEF CloseReturn, IInv, Books, Places, CloseFlushes
        <3> QED BY <3>1, PendingFacts DEF Pending
    <2> QED BY <1>9, <2>1, <2>2 DEF CloseReturn, Delivery!Next, Delivery!Finish, Pending
<1>10. CASE EnqueueOnClosed \/ ReceiveClosed \/ BatchTimer \/ ContextDone \/ SleepOver
            \/ UNCHANGED vars
    BY <1>0, <1>10 DEF EnqueueOnClosed, ReceiveClosed, BatchTimer, ContextDone, SleepOver,
                      StartDelivery, counters, vars, Pending
<1> QED
    BY <1>1, <1>2, <1>3, <1>4, <1>5, <1>6, <1>7, <1>8, <1>9, <1>10
        DEF Next, Enqueue, Worker

\* The queue, the batches, the retries and the timers implement the abstract
\* delivery step by step: accepted events settle in the order of their offers,
\* and a close that was not cut off leaves none pending (Shipper.run, deliver and
\* Close).  That they do settle is the fairness of AuditDelivery.
THEOREM ShipperDelivers == Spec => Delivery!Init /\ [][Delivery!Next]_Delivery!vars
<1>1. Init => Delivery!Init
    BY DEF Init, Delivery!Init, Range
<1>2. IInv /\ [Next]_vars => [Delivery!Next]_Delivery!vars
    BY DeliveryStep
<1> QED BY <1>1, <1>2, ShipperInvariant, PTL DEF Spec

-----------------------------------------------------------------------------
(* The tunnel. *)

\* Nothing has moved at the start.
LEMMA TunnelInit == Tunnels!Init => Tunnels!IInv
BY MCTunnel
DEF Tunnels!Init, Tunnels!Still, Tunnels!TunnelAssumption, Tunnels!IInv, Tunnels!TypeOK,
    Tunnels!Flow, Tunnels!Stages, Tunnels!Copying, Tunnels!Settled

\* Every step of the client, the pod and the goroutines keeps the invariant.
LEMMA TunnelStep ==
    ASSUME Tunnels!IInv, [Tunnels!Next]_(Tunnels!vars)
    PROVE  Tunnels!IInv'
<1> USE MCTunnel DEF Tunnels!TunnelAssumption, Tunnels!IInv, Tunnels!TypeOK, Tunnels!Flow,
        Tunnels!Stages, Tunnels!Copying, Tunnels!Settled, Tunnels!vars, Tunnels!ends,
        Tunnels!copies
<1>1. CASE Tunnels!ClientSends
    BY <1>1 DEF Tunnels!ClientSends
<1>2. CASE Tunnels!HalfCloses
    BY <1>2 DEF Tunnels!HalfCloses
<1>3. CASE Tunnels!Leaves
    BY <1>3 DEF Tunnels!Leaves
<1>4. CASE Tunnels!PodSends
    BY <1>4 DEF Tunnels!PodSends
<1>5. CASE Tunnels!Refuses
    BY <1>5 DEF Tunnels!Refuses
<1>6. CASE Tunnels!PodCloses
    BY <1>6 DEF Tunnels!PodCloses
<1>7. CASE Tunnels!DialOk
    BY <1>7 DEF Tunnels!DialOk
<1>8. CASE Tunnels!DialFails
    BY <1>8 DEF Tunnels!DialFails
<1>9. CASE Tunnels!UpReads
    BY <1>9 DEF Tunnels!UpReads
<1>10. CASE Tunnels!UpEnds
    BY <1>10 DEF Tunnels!UpEnds
<1>11. CASE Tunnels!UpWrites
    BY <1>11 DEF Tunnels!UpWrites
<1>12. CASE Tunnels!UpFails
    BY <1>12 DEF Tunnels!UpFails
<1>13. CASE Tunnels!DownReads
    BY <1>13 DEF Tunnels!DownReads
<1>14. CASE Tunnels!DownEnds
    BY <1>14 DEF Tunnels!DownEnds
<1>15. CASE Tunnels!DownWrites
    BY <1>15 DEF Tunnels!DownWrites
<1>16. CASE Tunnels!DownFails
    BY <1>16 DEF Tunnels!DownFails
<1>17. CASE Tunnels!WatchRefusal
    BY <1>17 DEF Tunnels!WatchRefusal
<1>18. CASE Tunnels!WatchEnds
    BY <1>18 DEF Tunnels!WatchEnds
<1>19. CASE Tunnels!PipeEnds
    BY <1>19 DEF Tunnels!PipeEnds, Tunnels!Finish
<1>20. CASE Tunnels!SelectRefused
    BY <1>20 DEF Tunnels!SelectRefused, Tunnels!Finish
<1>21. CASE Tunnels!SelectAllowed
    BY <1>21 DEF Tunnels!SelectAllowed
<1>22. CASE Tunnels!SelectDone
    BY <1>22 DEF Tunnels!SelectDone, Tunnels!Finish
<1>23. CASE UNCHANGED Tunnels!vars
    BY <1>23
<1> QED BY <1>1, <1>2, <1>3, <1>4, <1>5, <1>6, <1>7, <1>8, <1>9, <1>10, <1>11, <1>12,
           <1>13, <1>14, <1>15, <1>16, <1>17, <1>18, <1>19, <1>20, <1>21, <1>22, <1>23
    DEF Tunnels!Next

-----------------------------------------------------------------------------
(* The port-forwards. *)

\* Nobody has a port at the start.
LEMMA ForwardInit == Forward!Init => Forward!IInv
BY MCPortRange
DEF Forward!PortRangeAssumption, Forward!Init, Forward!IInv, Forward!TypeOK,
    Forward!Ports,
    Forward!Hunting, Forward!Alone, Forward!Held

\* Every step of a session and every call of the registry keeps the invariant.
LEMMA ForwardStep ==
    ASSUME Forward!IInv, [Forward!Next]_(Forward!vars)
    PROVE  Forward!IInv'
<1> USE MCPortRange DEF Forward!PortRangeAssumption, Forward!IInv, Forward!TypeOK,
        Forward!Ports, Forward!Hunting, Forward!Alone, Forward!Held, Forward!Open,
        Forward!vars, Forward!hunt, Forward!sockets
<1>1. ASSUME NEW f \in Forwards, Forward!Start(f) PROVE Forward!IInv'
  <2>1. UNCHANGED <<s4, s5, s6, s7>> /\ s1[f] = "none"
    BY <1>1 DEF Forward!Start
  <2> DEFINE Begins(a, b, p) == /\ s1' = [s1 EXCEPT ![f] = p]
                               /\ s2' = [s2 EXCEPT ![f] = a] /\ s3' = [s3 EXCEPT ![f] = b]
                               /\ a <= b + 1 /\ (p = "hunt" => a >= From)
  <2>2. PICK a \in 0 .. To + 1, b \in 0 .. To, p \in {"hunt", "ready"} : Begins(a, b, p)
    <3>1. CASE /\ s1' = [s1 EXCEPT ![f] = "hunt"]
               /\ s2' = [s2 EXCEPT ![f] = From] /\ s3' = [s3 EXCEPT ![f] = To]
      <4>1. Begins(From, To, "hunt") /\ From \in 0 .. To + 1 /\ To \in 0 .. To
        BY <3>1
      <4> QED BY <4>1
    <3>2. ASSUME NEW p \in From .. To, s1' = [s1 EXCEPT ![f] = "hunt"],
                 s2' = [s2 EXCEPT ![f] = p], s3' = [s3 EXCEPT ![f] = p]
          PROVE  \E a \in 0 .. To + 1, b \in 0 .. To, h \in {"hunt", "ready"} :
                    Begins(a, b, h)
      <4>1. Begins(p, p, "hunt") /\ p \in 0 .. To + 1 /\ p \in 0 .. To
        BY <3>2
      <4> QED BY <4>1
    <3>3. CASE s1' = [s1 EXCEPT ![f] = "ready"] /\ UNCHANGED <<s2, s3>>
      <4>1. Begins(s2[f], s3[f], "ready") /\ s2[f] \in 0 .. To + 1 /\ s3[f] \in 0 .. To
        BY <3>3
      <4> QED BY <4>1
    <3> QED BY <1>1, <3>1, <3>2, <3>3 DEF Forward!Start
  <2>3. Forward!TypeOK'
    BY <2>1, <2>2
  <2>4. Forward!Hunting' /\ Forward!Alone' /\ Forward!Held'
    BY <2>1, <2>2
  <2> QED BY <2>3, <2>4
<1>2. ASSUME NEW f \in Forwards, Forward!Listen(f) PROVE Forward!IInv'
    BY <1>2 DEF Forward!Listen, Forward!EndHunt
<1>3. ASSUME NEW f \in Forwards, Forward!ListenBusy(f) PROVE Forward!IInv'
    BY <1>3 DEF Forward!ListenBusy
<1>4. ASSUME NEW f \in Forwards, Forward!HuntFails(f) PROVE Forward!IInv'
    BY <1>4 DEF Forward!HuntFails, Forward!EndHunt
<1>5. ASSUME NEW f \in Forwards, Forward!Add(f) PROVE Forward!IInv'
    BY <1>5 DEF Forward!Add, Forward!Expired
<1>6. ASSUME NEW f \in Forwards, Forward!Get(f) PROVE Forward!IInv'
    BY <1>6 DEF Forward!Get, Forward!CloseAll, Forward!Expired
<1>7. ASSUME NEW f \in Forwards, Forward!Remove(f) PROVE Forward!IInv'
    BY <1>7 DEF Forward!Remove, Forward!CloseAll
<1>8. ASSUME NEW f \in Forwards, Forward!Age(f) PROVE Forward!IInv'
    BY <1>8 DEF Forward!Age
<1>9. ASSUME NEW f \in Forwards, Forward!Accept(f) PROVE Forward!IInv'
    BY <1>9 DEF Forward!Accept
<1>10. ASSUME NEW f \in Forwards, Forward!DialOk(f) PROVE Forward!IInv'
    BY <1>10 DEF Forward!DialOk
<1>11. ASSUME NEW f \in Forwards, Forward!Hangup(f) PROVE Forward!IInv'
    BY <1>11 DEF Forward!Hangup
<1>12. CASE Forward!List
    BY <1>12 DEF Forward!List, Forward!CloseAll, Forward!Expired
<1>13. CASE UNCHANGED Forward!vars
    BY <1>13
<1> HIDE MCPortRange DEF Forward!IInv
<1> QED BY <1>1, <1>2, <1>3, <1>4, <1>5, <1>6, <1>7, <1>8, <1>9, <1>10, <1>11, <1>12,
        <1>13
    DEF Forward!Next, Forward!Forward

-----------------------------------------------------------------------------
(* The informer pool. *)

\* No entry is made at the start, and every process is idle.
LEMMA PoolInit == Pool!Init => Pool!IInv
BY MCPool
DEF Pool!InformerPoolAssumption, Pool!Init, Pool!IInv, Pool!TypeOK, Pool!Entry, Pool!Ids,
    Pool!Processes, Pool!Reaper, Pool!Unused, Pool!NoCluster, Pool!Stations, Pool!Places,
    Pool!WillStop, Pool!Mapped, Pool!OldCredentialGoes

\* What the steps write into an entry leaves it an entry.
LEMMA EntryUpdates ==
    ASSUME NEW r \in Pool!Entry, NEW b \in BOOLEAN
    PROVE  /\ [r EXCEPT !.idle = b] \in Pool!Entry
           /\ [r EXCEPT !.started = b] \in Pool!Entry
           /\ [r EXCEPT !.warming = b] \in Pool!Entry
           /\ [r EXCEPT !.synced = b] \in Pool!Entry
           /\ r.stops \in {0, 1}
           /\ r.stops = 0 => [r EXCEPT !.stops = @ + 1] \in Pool!Entry
BY DEF Pool!Entry

\* Steps that set a mark on entries that were made, and nothing else of the pool:
\* whose an entry is, its credential and its stops stay.
Marks ==
    /\ UNCHANGED <<s2, s3>>
    /\ s4' \in [Pool!Ids -> Pool!Entry]
    /\ \A e \in Pool!Ids :
        /\ s4'[e].of = s4[e].of
        /\ s4'[e].version = s4[e].version
        /\ s4'[e].stops = s4[e].stops
        /\ s4'[e].late = s4[e].late
        /\ e > s3 => s4'[e] = s4[e]

\* The marks of one entry.
LEMMA MarkOne ==
    ASSUME Pool!IInv, NEW e \in 1 .. s3, NEW b \in BOOLEAN, UNCHANGED <<s2, s3>>,
           \/ s4' = [s4 EXCEPT ![e].idle = b]
           \/ s4' = [s4 EXCEPT ![e].started = b]
           \/ s4' = [s4 EXCEPT ![e].warming = b]
           \/ s4' = [s4 EXCEPT ![e].synced = b]
    PROVE  Marks
<1>1. e \in Pool!Ids /\ s3 \in Nat /\ s4 \in [Pool!Ids -> Pool!Entry]
    BY MCPool DEF Pool!InformerPoolAssumption, Pool!Ids, Pool!IInv, Pool!TypeOK
<1>2. s4' \in [Pool!Ids -> Pool!Entry]
  <2>1. s4[e] \in Pool!Entry
    BY <1>1
  <2>2. s4'[e] \in Pool!Entry
    BY <1>1, <2>1, EntryUpdates
  <2>3. s4' = [s4 EXCEPT ![e] = s4'[e]]
    BY <1>1
  <2> QED BY <1>1, <2>2, <2>3
<1>3. \A i \in Pool!Ids :
        /\ s4'[i].of = s4[i].of
        /\ s4'[i].version = s4[i].version
        /\ s4'[i].stops = s4[i].stops
        /\ s4'[i].late = s4[i].late
    BY <1>1 DEF Pool!Entry
<1>4. \A i \in Pool!Ids : i > s3 => s4'[i] = s4[i]
    BY <1>1
<1> QED BY <1>2, <1>3, <1>4 DEF Marks

\* Steps after which the same processes are about to stop the same entries, ...
SameStoppers ==
    \A p \in Pool!Processes : \A e \in 1 .. s3 :
        Pool!WillStop(p, e)' <=> Pool!WillStop(p, e)

\* ... and steps that change no credential and end no release.
SamePending ==
    /\ UNCHANGED s1
    /\ \A c \in Clusters : Pool!ReleasePending(c) => Pool!ReleasePending(c)'

\* Marks leave the accounts as they are, if the stoppers stay.
LEMMA MarksPlaces ==
    ASSUME Pool!IInv, Marks \/ UNCHANGED <<s2, s3, s4>>, SameStoppers
    PROVE  Pool!Places'
<1>0. /\ s3' = s3 /\ s2' = s2
      /\ \A e \in Pool!Ids :
            /\ s4'[e].of = s4[e].of
            /\ s4'[e].stops = s4[e].stops
            /\ e > s3 => s4'[e] = s4[e]
    BY DEF Marks
<1>1. \A e \in 1 .. s3 : e \in Pool!Ids
    BY MCPool DEF Pool!InformerPoolAssumption, Pool!IInv, Pool!TypeOK, Pool!Ids
<1>2. \A e \in Pool!Ids : Pool!Mapped(e)' <=> Pool!Mapped(e)
    BY <1>0 DEF Pool!Mapped
<1>3. /\ Pool!Places /\ Pool!Processes' = Pool!Processes /\ Pool!Ids' = Pool!Ids
      /\ Pool!Unused' = Pool!Unused
    BY DEF Pool!IInv, Pool!Processes, Pool!Ids, Pool!Unused, Pool!NoCluster, Pool!Reaper
<1> QED BY <1>0, <1>1, <1>2, <1>3 DEF SameStoppers, Pool!Places

\* And they leave the credentials as they are.
LEMMA MarksCredentials ==
    ASSUME Pool!IInv, Marks \/ UNCHANGED <<s2, s3, s4>>, SamePending
    PROVE  Pool!OldCredentialGoes'
<1>1. \A c \in Clusters : s2[c] # 0 => s2[c] \in Pool!Ids
    BY MCPool DEF Pool!InformerPoolAssumption, Pool!IInv, Pool!TypeOK, Pool!Ids
<1> QED BY <1>1 DEF Marks, SamePending, Pool!IInv, Pool!OldCredentialGoes

\* Every step keeps the types and the stations.
LEMMA PoolMarks ==
    ASSUME Pool!IInv
    PROVE  /\ \A v \in Viewers :
                 Pool!WarmHit(v) \/ Pool!WarmStart(v) \/ Pool!WarmEnd(v) => Marks
           /\ \A v \in Viewers : Pool!Cached(v) => Marks \/ UNCHANGED <<s2, s3, s4>>
           /\ \A e \in Pool!Ids : Pool!InformersSync(e) => Marks
           /\ \A c \in Clusters : Pool!Age(c) => Marks
<1> USE MCPool DEF Pool!InformerPoolAssumption, Pool!IInv, Pool!Ids, Pool!Processes,
        Pool!Reaper, Pool!NoCluster, Pool!pool, Pool!viewers, Pool!vars
<1>1. ASSUME NEW v \in Viewers, Pool!WarmHit(v) PROVE Marks
  <2>1. s2[s6[v]] \in 1 .. s3
    BY <1>1 DEF Pool!Stations, Pool!TypeOK, Pool!WarmHit, Pool!Touch, Pool!Goto
  <2> HIDE DEF Pool!IInv
  <2> QED BY <1>1, <2>1, MarkOne DEF Pool!WarmHit, Pool!Touch, Pool!Goto
<1>2. ASSUME NEW v \in Viewers, Pool!WarmStart(v) PROVE Marks
  <2>1. s8[v] \in 1 .. s3
    BY <1>2 DEF Pool!Stations, Pool!TypeOK, Pool!WarmStart, Pool!Goto
  <2> HIDE DEF Pool!IInv
  <2> QED BY <1>2, <2>1, MarkOne DEF Pool!WarmStart, Pool!Goto
<1>3. ASSUME NEW v \in Viewers, Pool!WarmEnd(v) PROVE Marks
  <2>1. s8[v] \in 1 .. s3
    BY <1>3 DEF Pool!Stations, Pool!TypeOK, Pool!WarmEnd, Pool!Goto
  <2> HIDE DEF Pool!IInv
  <2> QED BY <1>3, <2>1, MarkOne DEF Pool!WarmEnd, Pool!Goto
<1>4. ASSUME NEW v \in Viewers, Pool!Cached(v) PROVE Marks \/ UNCHANGED <<s2, s3, s4>>
  <2>1. CASE s2[s6[v]] # 0
    <3>1. s2[s6[v]] \in 1 .. s3
      BY <1>4, <2>1 DEF Pool!Stations, Pool!TypeOK, Pool!Cached, Pool!Touch, Pool!Goto
    <3> HIDE DEF Pool!IInv
    <3> QED BY <1>4, <2>1, <3>1, MarkOne DEF Pool!Cached, Pool!Touch, Pool!Goto
  <2>2. CASE s2[s6[v]] = 0
    BY <1>4, <2>2 DEF Pool!Cached, Pool!Touch, Pool!Goto
  <2> QED BY <2>1, <2>2
<1>5. ASSUME NEW e \in Pool!Ids, Pool!InformersSync(e) PROVE Marks
  <2>1. e \in 1 .. s3
    BY <1>5 DEF Pool!Places, Pool!Unused, Pool!TypeOK, Pool!InformersSync, Pool!Running
  <2> HIDE DEF Pool!IInv
  <2> QED BY <1>5, <2>1, MarkOne DEF Pool!InformersSync, Pool!Running
<1>6. ASSUME NEW c \in Clusters, Pool!Age(c) PROVE Marks
  <2>1. s2[c] \in 1 .. s3
    BY <1>6 DEF Pool!TypeOK, Pool!Age
  <2> HIDE DEF Pool!IInv
  <2> QED BY <1>6, <2>1, MarkOne DEF Pool!Age
<1> QED BY <1>1, <1>2, <1>3, <1>4, <1>5, <1>6

\* Every step keeps the types.
LEMMA PoolTypes ==
    ASSUME Pool!IInv, [Pool!Next]_(Pool!vars)
    PROVE  Pool!TypeOK' /\ Pool!Stations'
<1> USE MCPool DEF Pool!InformerPoolAssumption, Pool!IInv, Pool!Ids, Pool!Processes,
        Pool!Reaper, Pool!NoCluster, Pool!pool, Pool!viewers, Pool!vars
<1>0. Pool!TypeOK /\ Pool!Stations /\ Pool!Places
    OBVIOUS
<1>c. \A c \in Clusters : s2[c] # 0 => s2[c] \in Pool!Ids
    BY DEF Pool!TypeOK
<1> HIDE DEF Pool!IInv
<1> USE DEF Pool!TypeOK, Pool!Stations
<1>1. ASSUME NEW v \in Viewers, Pool!Load(v) PROVE Pool!TypeOK' /\ Pool!Stations'
    BY <1>1, <1>0 DEF Pool!Load, Pool!Goto
<1>2. ASSUME NEW v \in Viewers, Pool!WarmHit(v) PROVE Pool!TypeOK' /\ Pool!Stations'
  <2>1. Marks \/ UNCHANGED <<s2, s3, s4>>
    BY <1>2, PoolMarks
  <2>2. /\ s2' = s2 /\ s3' = s3 /\ s4' \in [Pool!Ids -> Pool!Entry]
        /\ \A e \in Pool!Ids : s4'[e].of = s4[e].of
    BY <1>0, <2>1 DEF Marks
  <2>3. \A c \in Clusters : s2'[c] # 0 => s4'[s2'[c]].of = c
    BY <1>0, <1>c, <2>2
  <2>4. Pool!TypeOK'
    BY <1>2, <1>0, <2>2, <2>3 DEF Pool!WarmHit, Pool!Touch, Pool!Goto
  <2>5. Pool!Stations'
    BY <1>2, <1>0 DEF Pool!WarmHit, Pool!Touch, Pool!Goto
  <2> HIDE DEF Pool!TypeOK, Pool!Stations
  <2> QED BY <2>4, <2>5
<1>3. ASSUME NEW v \in Viewers, Pool!WarmMiss(v) PROVE Pool!TypeOK' /\ Pool!Stations'
  <2>1. /\ s3 + 1 \in Pool!Ids /\ s3' = s3 + 1
        /\ s6[v] \in Clusters /\ s7[v] \in 0 .. MaxVersion
    BY <1>3, <1>0 DEF Pool!WarmMiss, Pool!Goto, Pool!Unused
  <2>2. s4'[s3 + 1] \in Pool!Entry /\ s4'[s3 + 1].of = s6[v]
    BY <1>3, <1>0, <2>1 DEF Pool!WarmMiss, Pool!Goto, Pool!Unused, Pool!Entry
  <2>3. /\ s4' \in [Pool!Ids -> Pool!Entry]
        /\ \A e \in Pool!Ids : e # s3 + 1 => s4'[e] = s4[e]
    BY <1>3, <1>0, <2>1, <2>2 DEF Pool!WarmMiss, Pool!Goto, Pool!Unused
  <2>4. Pool!TypeOK'
    BY <1>3, <1>0, <2>1, <2>2, <2>3 DEF Pool!WarmMiss, Pool!Goto
  <2>5. Pool!Stations'
    BY <1>3, <1>0, <2>1 DEF Pool!WarmMiss, Pool!Goto
  <2> HIDE DEF Pool!TypeOK, Pool!Stations
  <2> QED BY <2>4, <2>5
<1>4. ASSUME NEW v \in Viewers, Pool!WarmStart(v) PROVE Pool!TypeOK' /\ Pool!Stations'
  <2>1. Marks \/ UNCHANGED <<s2, s3, s4>>
    BY <1>4, PoolMarks
  <2>2. /\ s2' = s2 /\ s3' = s3 /\ s4' \in [Pool!Ids -> Pool!Entry]
        /\ \A e \in Pool!Ids : s4'[e].of = s4[e].of
    BY <1>0, <2>1 DEF Marks
  <2>3. \A c \in Clusters : s2'[c] # 0 => s4'[s2'[c]].of = c
    BY <1>0, <1>c, <2>2
  <2>4. Pool!TypeOK'
    BY <1>4, <1>0, <2>2, <2>3 DEF Pool!WarmStart, Pool!Goto
  <2>5. Pool!Stations'
    BY <1>4, <1>0 DEF Pool!WarmStart, Pool!Goto
  <2> HIDE DEF Pool!TypeOK, Pool!Stations
  <2> QED BY <2>4, <2>5
<1>5. ASSUME NEW v \in Viewers, Pool!WarmEnd(v) PROVE Pool!TypeOK' /\ Pool!Stations'
  <2>1. Marks \/ UNCHANGED <<s2, s3, s4>>
    BY <1>5, PoolMarks
  <2>2. /\ s2' = s2 /\ s3' = s3 /\ s4' \in [Pool!Ids -> Pool!Entry]
        /\ \A e \in Pool!Ids : s4'[e].of = s4[e].of
    BY <1>0, <2>1 DEF Marks
  <2>3. \A c \in Clusters : s2'[c] # 0 => s4'[s2'[c]].of = c
    BY <1>0, <1>c, <2>2
  <2>4. Pool!TypeOK'
    BY <1>5, <1>0, <2>2, <2>3 DEF Pool!WarmEnd, Pool!Goto
  <2>5. Pool!Stations'
    BY <1>5, <1>0 DEF Pool!WarmEnd, Pool!Goto
  <2> HIDE DEF Pool!TypeOK, Pool!Stations
  <2> QED BY <2>4, <2>5
<1>6. ASSUME NEW v \in Viewers, Pool!Cached(v) PROVE Pool!TypeOK' /\ Pool!Stations'
  <2>1. Marks \/ UNCHANGED <<s2, s3, s4>>
    BY <1>6, PoolMarks
  <2>2. /\ s2' = s2 /\ s3' = s3 /\ s4' \in [Pool!Ids -> Pool!Entry]
        /\ \A e \in Pool!Ids : s4'[e].of = s4[e].of
    BY <1>0, <2>1 DEF Marks
  <2>3. \A c \in Clusters : s2'[c] # 0 => s4'[s2'[c]].of = c
    BY <1>0, <1>c, <2>2
  <2>4. Pool!TypeOK'
    BY <1>6, <1>0, <2>2, <2>3 DEF Pool!Cached, Pool!Touch, Pool!Goto
  <2>5. Pool!Stations'
    BY <1>6, <1>0 DEF Pool!Cached, Pool!Touch, Pool!Goto
  <2> HIDE DEF Pool!TypeOK, Pool!Stations
  <2> QED BY <2>4, <2>5
<1>7. ASSUME NEW a \in Admins, Pool!Replace(a) PROVE Pool!TypeOK' /\ Pool!Stations'
    BY <1>7, <1>0 DEF Pool!Replace, Pool!Goto
<1>8. ASSUME NEW a \in Admins, Pool!Release(a) PROVE Pool!TypeOK' /\ Pool!Stations'
    BY <1>8, <1>0 DEF Pool!Release, Pool!Unpublish, Pool!Goto
<1>9. ASSUME NEW p \in Admins \cup {Pool!Reaper}, Pool!StopEntry(p)
      PROVE  Pool!TypeOK' /\ Pool!Stations'
  <2>1. CASE s8[p] = 0
    BY <1>9, <1>0, <2>1 DEF Pool!StopEntry, Pool!Goto
  <2>2. CASE s8[p] # 0
    <3>1. s8[p] \in 1 .. s3 /\ s8[p] \in Pool!Ids
      BY <1>9, <1>0, <2>2 DEF Pool!StopEntry, Pool!Goto
    <3>2. s4[s8[p]].stops = 0
      BY <1>9, <1>0, <3>1 DEF Pool!StopEntry, Pool!Goto, Pool!Places, Pool!WillStop
    <3>3. s4'[s8[p]] \in Pool!Entry
      BY <1>9, <1>0, <2>2, <3>1, <3>2, EntryUpdates DEF Pool!StopEntry, Pool!Goto
    <3>4. s4'[s8[p]].of = s4[s8[p]].of
      BY <1>9, <1>0, <2>2, <3>1 DEF Pool!StopEntry, Pool!Goto, Pool!Entry
    <3>5. s4' = [s4 EXCEPT ![s8[p]] = s4'[s8[p]]]
      BY <1>9, <1>0, <2>2, <3>1 DEF Pool!StopEntry, Pool!Goto
    <3>6. /\ s4' \in [Pool!Ids -> Pool!Entry]
          /\ \A e \in Pool!Ids : s4'[e].of = s4[e].of
      BY <1>0, <3>1, <3>3, <3>4, <3>5
    <3> QED BY <1>9, <1>0, <1>c, <3>6 DEF Pool!StopEntry, Pool!Goto
  <2> QED BY <2>1, <2>2
<1>10. ASSUME NEW e \in Pool!Ids, Pool!InformersSync(e)
       PROVE  Pool!TypeOK' /\ Pool!Stations'
  <2>1. Marks \/ UNCHANGED <<s2, s3, s4>>
    BY <1>10, PoolMarks
  <2>2. /\ s2' = s2 /\ s3' = s3 /\ s4' \in [Pool!Ids -> Pool!Entry]
        /\ \A i \in Pool!Ids : s4'[i].of = s4[i].of
    BY <1>0, <2>1 DEF Marks
  <2>3. \A c \in Clusters : s2'[c] # 0 => s4'[s2'[c]].of = c
    BY <1>0, <1>c, <2>2
  <2>4. Pool!TypeOK'
    BY <1>10, <1>0, <2>2, <2>3 DEF Pool!InformersSync, Pool!Running
  <2>5. Pool!Stations'
    BY <1>10, <1>0 DEF Pool!InformersSync, Pool!Running
  <2> HIDE DEF Pool!TypeOK, Pool!Stations
  <2> QED BY <2>4, <2>5
<1>11. ASSUME NEW c \in Clusters, Pool!Age(c) PROVE Pool!TypeOK' /\ Pool!Stations'
  <2>1. Marks \/ UNCHANGED <<s2, s3, s4>>
    BY <1>11, PoolMarks
  <2>2. /\ s2' = s2 /\ s3' = s3 /\ s4' \in [Pool!Ids -> Pool!Entry]
        /\ \A e \in Pool!Ids : s4'[e].of = s4[e].of
    BY <1>0, <2>1 DEF Marks
  <2>3. \A d \in Clusters : s2'[d] # 0 => s4'[s2'[d]].of = d
    BY <1>0, <1>c, <2>2
  <2>4. Pool!TypeOK'
    BY <1>11, <1>0, <2>2, <2>3 DEF Pool!Age
  <2>5. Pool!Stations'
    BY <1>11, <1>0 DEF Pool!Age
  <2> HIDE DEF Pool!TypeOK, Pool!Stations
  <2> QED BY <2>4, <2>5
<1>12. ASSUME Pool!ReapTick PROVE Pool!TypeOK' /\ Pool!Stations'
    BY <1>12, <1>0 DEF Pool!ReapTick
<1>13. ASSUME Pool!ReapRelease PROVE Pool!TypeOK' /\ Pool!Stations'
    BY <1>13, <1>0 DEF Pool!ReapRelease, Pool!Unpublish, Pool!Goto
<1>14. CASE UNCHANGED Pool!vars
    BY <1>14, <1>0
<1> HIDE DEF Pool!TypeOK, Pool!Stations
<1> QED BY <1>1, <1>2, <1>3, <1>4, <1>5, <1>6, <1>7, <1>8, <1>9, <1>10, <1>11, <1>12,
        <1>13, <1>14
    DEF Pool!Next, Pool!Viewer

\* Every step leaves each entry in one place.
LEMMA PoolPlaces ==
    ASSUME Pool!IInv, [Pool!Next]_(Pool!vars)
    PROVE  Pool!Places'
<1> USE MCPool DEF Pool!InformerPoolAssumption, Pool!IInv, Pool!Ids, Pool!Processes,
        Pool!Reaper, Pool!NoCluster, Pool!pool, Pool!viewers, Pool!vars
<1>0. Pool!TypeOK /\ Pool!Stations /\ Pool!Places /\ Pool!OldCredentialGoes
    OBVIOUS
<1> HIDE DEF Pool!IInv
<1>1. ASSUME NEW v \in Viewers, Pool!Load(v) PROVE Pool!Places'
  <2>1. Marks \/ UNCHANGED <<s2, s3, s4>>
    BY <1>1, PoolMarks DEF Pool!Load, Pool!Goto
  <2>2. SameStoppers
    BY <1>1, <1>0 DEF SameStoppers, Pool!Load, Pool!Goto, Pool!WillStop, Pool!TypeOK
  <2> QED BY <2>1, <2>2, MarksPlaces
<1>2. ASSUME NEW v \in Viewers, Pool!WarmHit(v) PROVE Pool!Places'
  <2>1. Marks \/ UNCHANGED <<s2, s3, s4>>
    BY <1>2, PoolMarks DEF Pool!WarmHit, Pool!Touch, Pool!Goto
  <2>2. SameStoppers
    BY <1>2, <1>0 DEF SameStoppers, Pool!WarmHit, Pool!Touch, Pool!Goto, Pool!WillStop,
        Pool!TypeOK
  <2> QED BY <2>1, <2>2, MarksPlaces
<1>3. ASSUME NEW v \in Viewers, Pool!WarmMiss(v) PROVE Pool!Places'
  <2>0. PICK new : new = s3 + 1
    OBVIOUS
  <2>1. /\ new \in Pool!Ids /\ s3' = new /\ s6[v] \in Clusters /\ s2[s6[v]] = 0
        /\ s3 \in Nat /\ new \notin 1 .. s3 /\ new # 0
        /\ 1 .. s3' = (1 .. s3) \cup {new}
        /\ \A e \in 1 .. s3 : e \in Pool!Ids /\ e # new /\ e # 0
        /\ \A e \in Pool!Ids : e > s3' => e > s3 /\ e # new
    BY <1>3, <1>0, <2>0 DEF Pool!WarmMiss, Pool!Goto, Pool!TypeOK, Pool!Stations
  <2>2. /\ s4'[new].of = s6[v] /\ s4'[new].stops = 0
        /\ s4'[new].version = s7[v] /\ (s4'[new].late <=> s7[v] # s1[s6[v]])
        /\ \A e \in Pool!Ids : e # new => s4'[e] = s4[e]
    BY <1>3, <1>0, <2>0, <2>1 DEF Pool!WarmMiss, Pool!Unused, Pool!TypeOK
  <2>3. s2'[s6[v]] = new /\ \A c \in Clusters : c # s6[v] => s2'[c] = s2[c]
    BY <1>3, <1>0, <2>0, <2>1 DEF Pool!WarmMiss, Pool!TypeOK
  <2>4. SameStoppers
    BY <1>3, <1>0 DEF SameStoppers, Pool!WarmMiss, Pool!Goto, Pool!Unused,
        Pool!WillStop, Pool!TypeOK
  <2>5. \A p \in Pool!Processes : ~Pool!WillStop(p, new)'
    <3>1. \A p \in Pool!Processes : s8[p] # new
      BY <1>0, <2>1 DEF Pool!TypeOK
    <3>2. s5'[v] # "stop" /\ \A p \in Pool!Processes : p # v => s8'[p] = s8[p]
      BY <1>3, <1>0 DEF Pool!WarmMiss, Pool!Goto, Pool!TypeOK
    <3> QED BY <3>1, <3>2 DEF Pool!WillStop
  <2>6. \A e \in 1 .. s3 : Pool!Mapped(e)' <=> Pool!Mapped(e)
    BY <1>0, <2>1, <2>2, <2>3 DEF Pool!Mapped, Pool!Places
  <2>7. Pool!Mapped(new)'
    BY <2>2, <2>3 DEF Pool!Mapped
  <2>8. \A e \in Pool!Ids : e > s3' => s4'[e] = Pool!Unused
    BY <1>0, <2>1, <2>2 DEF Pool!Places
  <2>9. ASSUME NEW e \in 1 .. s3'
        PROVE  /\ s4'[e].of \in Clusters
               /\ \A p \in Pool!Processes : Pool!WillStop(p, e)' =>
                     /\ s4'[e].stops = 0 /\ ~Pool!Mapped(e)'
                     /\ \A q \in Pool!Processes : Pool!WillStop(q, e)' => q = p
               /\ Pool!Mapped(e)' => s4'[e].stops = 0
               /\ s4'[e].stops = 0 /\ ~Pool!Mapped(e)' =>
                     \E p \in Pool!Processes : Pool!WillStop(p, e)'
    <3>1. CASE e = new
      BY <3>1, <2>1, <2>2, <2>5, <2>7
    <3>2. CASE e \in 1 .. s3
      BY <3>2, <1>0, <2>1, <2>2, <2>4, <2>6 DEF SameStoppers, Pool!Places
    <3> QED BY <2>1, <2>9, <3>1, <3>2
  <2> QED BY <2>8, <2>9 DEF Pool!Places, Pool!Unused
<1>4. ASSUME NEW v \in Viewers, Pool!WarmStart(v) PROVE Pool!Places'
  <2>1. Marks \/ UNCHANGED <<s2, s3, s4>>
    BY <1>4, PoolMarks DEF Pool!WarmStart, Pool!Goto
  <2>2. SameStoppers
    BY <1>4, <1>0 DEF SameStoppers, Pool!WarmStart, Pool!Goto, Pool!WillStop, Pool!TypeOK
  <2> QED BY <2>1, <2>2, MarksPlaces
<1>5. ASSUME NEW v \in Viewers, Pool!WarmEnd(v) PROVE Pool!Places'
  <2>1. Marks \/ UNCHANGED <<s2, s3, s4>>
    BY <1>5, PoolMarks DEF Pool!WarmEnd, Pool!Goto
  <2>2. SameStoppers
    BY <1>5, <1>0 DEF SameStoppers, Pool!WarmEnd, Pool!Goto, Pool!WillStop, Pool!TypeOK
  <2> QED BY <2>1, <2>2, MarksPlaces
<1>6. ASSUME NEW v \in Viewers, Pool!Cached(v) PROVE Pool!Places'
  <2>1. Marks \/ UNCHANGED <<s2, s3, s4>>
    BY <1>6, PoolMarks DEF Pool!Cached, Pool!Touch, Pool!Goto
  <2>2. SameStoppers
    BY <1>6, <1>0 DEF SameStoppers, Pool!Cached, Pool!Touch, Pool!Goto, Pool!WillStop,
        Pool!TypeOK
  <2> QED BY <2>1, <2>2, MarksPlaces
<1>7. ASSUME NEW a \in Admins, Pool!Replace(a) PROVE Pool!Places'
  <2>1. Marks \/ UNCHANGED <<s2, s3, s4>>
    BY <1>7, PoolMarks DEF Pool!Replace, Pool!Goto
  <2>2. SameStoppers
    BY <1>7, <1>0 DEF SameStoppers, Pool!Replace, Pool!Goto, Pool!WillStop, Pool!TypeOK
  <2> QED BY <2>1, <2>2, MarksPlaces
<1>8. ASSUME NEW a \in Admins, Pool!Release(a) PROVE Pool!Places'
  <2> DEFINE c == s5[a]
  <2>1. /\ c \in Clusters /\ a \in Pool!Processes /\ UNCHANGED <<s3, s4>>
        /\ s2' = [s2 EXCEPT ![c] = 0] /\ s8' = [s8 EXCEPT ![a] = s2[c]]
        /\ s5[a] # "stop" /\ s5' = [s5 EXCEPT ![a] = "stop"]
    BY <1>8, <1>0 DEF Pool!Release, Pool!Unpublish, Pool!Goto, Pool!TypeOK
  <2> DEFINE Labels == {"idle", "warm", "start", "sync", "cached", "stop"} \cup Clusters
  <2>t. /\ s3 \in Nat /\ s5 \in [Pool!Processes -> Labels]
        /\ s8 \in [Pool!Processes -> 0 .. s3] /\ s2 \in [Clusters -> 0 .. s3]
        /\ \A d \in Clusters : s2[d] # 0 => s4[s2[d]].of = d
    BY <1>0 DEF Pool!TypeOK
  <2> HIDE DEF c, Pool!Processes
  <2>2. \A q \in Pool!Processes : \A e \in 1 .. s3 :
            Pool!WillStop(q, e)' <=> IF q = a THEN e = s2[c] ELSE Pool!WillStop(q, e)
    BY <2>1, <2>t DEF Pool!WillStop
  <2>3. \A e \in 1 .. s3 : ~Pool!WillStop(a, e)
    BY <2>1 DEF Pool!WillStop
  <2>4. \A e \in 1 .. s3 : Pool!Mapped(e)' <=> Pool!Mapped(e) /\ e # s2[c]
    BY <1>0, <2>1, <2>t DEF Pool!Mapped, Pool!Places
  <2>5. \A e \in 1 .. s3 : e = s2[c] => Pool!Mapped(e)
    BY <2>1, <2>t DEF Pool!Mapped
  <2>6. ASSUME NEW e \in 1 .. s3
        PROVE  /\ s4[e].of \in Clusters
               /\ \A q \in Pool!Processes : Pool!WillStop(q, e)' =>
                     /\ s4[e].stops = 0 /\ ~Pool!Mapped(e)'
                     /\ \A r \in Pool!Processes : Pool!WillStop(r, e)' => r = q
               /\ Pool!Mapped(e)' => s4[e].stops = 0
               /\ s4[e].stops = 0 /\ ~Pool!Mapped(e)' =>
                     \E q \in Pool!Processes : Pool!WillStop(q, e)'
    <3>1. CASE e = s2[c]
      BY <3>1, <1>0, <2>1, <2>2, <2>4, <2>5 DEF Pool!Places
    <3>2. CASE e # s2[c]
      BY <3>2, <1>0, <2>1, <2>2, <2>3, <2>4 DEF Pool!Places
    <3> QED BY <3>1, <3>2
  <2>7. \A e \in Pool!Ids : e > s3' => s4'[e] = Pool!Unused'
    BY <1>0, <2>1 DEF Pool!Places, Pool!Unused
  <2> QED BY <2>1, <2>6, <2>7 DEF Pool!Places, Pool!Processes
<1>9. ASSUME NEW p \in Admins \cup {Pool!Reaper}, Pool!StopEntry(p) PROVE Pool!Places'
    BY <1>9, <1>0 DEF Pool!StopEntry, Pool!Goto, Pool!Places, Pool!WillStop,
        Pool!Mapped, Pool!TypeOK, Pool!Stations
<1>10. ASSUME NEW e \in Pool!Ids, Pool!InformersSync(e) PROVE Pool!Places'
  <2>1. Marks \/ UNCHANGED <<s2, s3, s4>>
    BY <1>10, PoolMarks DEF Pool!InformersSync, Pool!Running
  <2>2. SameStoppers
    BY <1>10, <1>0 DEF SameStoppers, Pool!InformersSync, Pool!Running, Pool!WillStop,
        Pool!TypeOK
  <2> QED BY <2>1, <2>2, MarksPlaces
<1>11. ASSUME NEW c \in Clusters, Pool!Age(c) PROVE Pool!Places'
  <2>1. Marks \/ UNCHANGED <<s2, s3, s4>>
    BY <1>11, PoolMarks DEF Pool!Age
  <2>2. SameStoppers
    BY <1>11, <1>0 DEF SameStoppers, Pool!Age, Pool!WillStop, Pool!TypeOK
  <2> QED BY <2>1, <2>2, MarksPlaces
<1>12. ASSUME Pool!ReapTick PROVE Pool!Places'
  <2>1. Marks \/ UNCHANGED <<s2, s3, s4>>
    BY <1>12, PoolMarks DEF Pool!ReapTick
  <2>2. SameStoppers
    BY <1>12, <1>0 DEF SameStoppers, Pool!ReapTick, Pool!WillStop, Pool!TypeOK
  <2> QED BY <2>1, <2>2, MarksPlaces
<1>13. ASSUME Pool!ReapRelease PROVE Pool!Places'
  <2>0. PICK c \in s9 : Pool!Unpublish(Pool!Reaper, c)
    BY <1>13 DEF Pool!ReapRelease
  <2>1. /\ c \in Clusters /\ Pool!Reaper \in Pool!Processes /\ UNCHANGED <<s3, s4>>
        /\ s2' = [s2 EXCEPT ![c] = 0] /\ s8' = [s8 EXCEPT ![Pool!Reaper] = s2[c]]
        /\ s5[Pool!Reaper] # "stop" /\ s5' = [s5 EXCEPT ![Pool!Reaper] = "stop"]
    BY <1>13, <2>0, <1>0 DEF Pool!ReapRelease, Pool!Unpublish, Pool!Goto, Pool!TypeOK
  <2> DEFINE Labels == {"idle", "warm", "start", "sync", "cached", "stop"} \cup Clusters
  <2>t. /\ s3 \in Nat /\ s5 \in [Pool!Processes -> Labels]
        /\ s8 \in [Pool!Processes -> 0 .. s3] /\ s2 \in [Clusters -> 0 .. s3]
        /\ \A d \in Clusters : s2[d] # 0 => s4[s2[d]].of = d
    BY <1>0 DEF Pool!TypeOK
  <2> HIDE DEF Pool!Processes
  <2>2. \A q \in Pool!Processes : \A e \in 1 .. s3 :
            Pool!WillStop(q, e)' <=>
                IF q = Pool!Reaper THEN e = s2[c] ELSE Pool!WillStop(q, e)
    BY <2>1, <2>t DEF Pool!WillStop
  <2>3. \A e \in 1 .. s3 : ~Pool!WillStop(Pool!Reaper, e)
    BY <2>1 DEF Pool!WillStop
  <2>4. \A e \in 1 .. s3 : Pool!Mapped(e)' <=> Pool!Mapped(e) /\ e # s2[c]
    BY <1>0, <2>1, <2>t DEF Pool!Mapped, Pool!Places
  <2>5. \A e \in 1 .. s3 : e = s2[c] => Pool!Mapped(e)
    BY <2>1, <2>t DEF Pool!Mapped
  <2>6. ASSUME NEW e \in 1 .. s3
        PROVE  /\ s4[e].of \in Clusters
               /\ \A q \in Pool!Processes : Pool!WillStop(q, e)' =>
                     /\ s4[e].stops = 0 /\ ~Pool!Mapped(e)'
                     /\ \A r \in Pool!Processes : Pool!WillStop(r, e)' => r = q
               /\ Pool!Mapped(e)' => s4[e].stops = 0
               /\ s4[e].stops = 0 /\ ~Pool!Mapped(e)' =>
                     \E q \in Pool!Processes : Pool!WillStop(q, e)'
    <3>1. CASE e = s2[c]
      BY <3>1, <1>0, <2>1, <2>2, <2>4, <2>5 DEF Pool!Places
    <3>2. CASE e # s2[c]
      BY <3>2, <1>0, <2>1, <2>2, <2>3, <2>4 DEF Pool!Places
    <3> QED BY <3>1, <3>2
  <2>7. \A e \in Pool!Ids : e > s3' => s4'[e] = Pool!Unused'
    BY <1>0, <2>1 DEF Pool!Places, Pool!Unused
  <2> QED BY <2>1, <2>6, <2>7 DEF Pool!Places, Pool!Processes
<1>14. CASE UNCHANGED Pool!vars
    BY <1>14, <1>0 DEF Pool!Places, Pool!WillStop, Pool!Mapped
<1> QED BY <1>1, <1>2, <1>3, <1>4, <1>5, <1>6, <1>7, <1>8, <1>9, <1>10, <1>11, <1>12,
        <1>13, <1>14
    DEF Pool!Next, Pool!Viewer

\* Every step keeps the promise about old credentials.
LEMMA PoolCredentials ==
    ASSUME Pool!IInv, [Pool!Next]_(Pool!vars)
    PROVE  Pool!OldCredentialGoes'
<1> USE MCPool DEF Pool!InformerPoolAssumption, Pool!IInv, Pool!Ids, Pool!Processes,
        Pool!Reaper, Pool!NoCluster, Pool!pool, Pool!viewers, Pool!vars
<1>0. Pool!TypeOK /\ Pool!Stations /\ Pool!Places /\ Pool!OldCredentialGoes
    OBVIOUS
<1> HIDE DEF Pool!IInv
<1>1. ASSUME NEW v \in Viewers, Pool!Load(v) PROVE Pool!OldCredentialGoes'
  <2>1. Marks \/ UNCHANGED <<s2, s3, s4>>
    BY <1>1, PoolMarks DEF Pool!Load, Pool!Goto
  <2>2. SamePending
    BY <1>1, <1>0 DEF SamePending, Pool!Load, Pool!Goto, Pool!ReleasePending, Pool!TypeOK
  <2> QED BY <2>1, <2>2, MarksCredentials
<1>2. ASSUME NEW v \in Viewers, Pool!WarmHit(v) PROVE Pool!OldCredentialGoes'
  <2>1. Marks \/ UNCHANGED <<s2, s3, s4>>
    BY <1>2, PoolMarks DEF Pool!WarmHit, Pool!Touch, Pool!Goto
  <2>2. SamePending
    BY <1>2, <1>0 DEF SamePending, Pool!WarmHit, Pool!Touch, Pool!Goto,
        Pool!ReleasePending,
        Pool!TypeOK
  <2> QED BY <2>1, <2>2, MarksCredentials
<1>3. ASSUME NEW v \in Viewers, Pool!WarmMiss(v) PROVE Pool!OldCredentialGoes'
  <2>0. PICK new : new = s3 + 1
    OBVIOUS
  <2>1. /\ new \in Pool!Ids /\ s3' = new /\ s6[v] \in Clusters /\ s2[s6[v]] = 0
        /\ s3 \in Nat /\ new \notin 1 .. s3 /\ new # 0
        /\ 1 .. s3' = (1 .. s3) \cup {new}
        /\ \A e \in 1 .. s3 : e \in Pool!Ids /\ e # new /\ e # 0
        /\ \A e \in Pool!Ids : e > s3' => e > s3 /\ e # new
    BY <1>3, <1>0, <2>0 DEF Pool!WarmMiss, Pool!Goto, Pool!TypeOK, Pool!Stations
  <2>2. /\ s4'[new].of = s6[v] /\ s4'[new].stops = 0
        /\ s4'[new].version = s7[v] /\ (s4'[new].late <=> s7[v] # s1[s6[v]])
        /\ \A e \in Pool!Ids : e # new => s4'[e] = s4[e]
    BY <1>3, <1>0, <2>0, <2>1 DEF Pool!WarmMiss, Pool!Unused, Pool!TypeOK
  <2>3. s2'[s6[v]] = new /\ \A c \in Clusters : c # s6[v] => s2'[c] = s2[c]
    BY <1>3, <1>0, <2>0, <2>1 DEF Pool!WarmMiss, Pool!TypeOK
  <2>4. \A c \in Clusters : s2[c] # 0 => s2[c] \in 1 .. s3
    BY <1>0, <2>1 DEF Pool!TypeOK
  <2>5. SamePending
    BY <1>3, <1>0 DEF SamePending, Pool!WarmMiss, Pool!Goto, Pool!Unused,
        Pool!ReleasePending,
        Pool!TypeOK
  <2>6. ASSUME NEW c \in Clusters, s2'[c] # 0, s4'[s2'[c]].version # s1'[c]
        PROVE  Pool!ReleasePending(c)' \/ s4'[s2'[c]].late
    <3>1. CASE c = s6[v]
      BY <2>2, <2>3, <2>5, <2>6, <3>1 DEF SamePending
    <3>2. CASE c # s6[v]
      BY <1>0, <2>1, <2>2, <2>3, <2>4, <2>5, <2>6, <3>2
      DEF SamePending, Pool!OldCredentialGoes
    <3> QED BY <3>1, <3>2
  <2> QED BY <2>6 DEF Pool!OldCredentialGoes
<1>4. ASSUME NEW v \in Viewers, Pool!WarmStart(v) PROVE Pool!OldCredentialGoes'
  <2>1. Marks \/ UNCHANGED <<s2, s3, s4>>
    BY <1>4, PoolMarks DEF Pool!WarmStart, Pool!Goto
  <2>2. SamePending
    BY <1>4, <1>0 DEF SamePending, Pool!WarmStart, Pool!Goto, Pool!ReleasePending,
        Pool!TypeOK
  <2> QED BY <2>1, <2>2, MarksCredentials
<1>5. ASSUME NEW v \in Viewers, Pool!WarmEnd(v) PROVE Pool!OldCredentialGoes'
  <2>1. Marks \/ UNCHANGED <<s2, s3, s4>>
    BY <1>5, PoolMarks DEF Pool!WarmEnd, Pool!Goto
  <2>2. SamePending
    BY <1>5, <1>0 DEF SamePending, Pool!WarmEnd, Pool!Goto, Pool!ReleasePending,
        Pool!TypeOK
  <2> QED BY <2>1, <2>2, MarksCredentials
<1>6. ASSUME NEW v \in Viewers, Pool!Cached(v) PROVE Pool!OldCredentialGoes'
  <2>1. Marks \/ UNCHANGED <<s2, s3, s4>>
    BY <1>6, PoolMarks DEF Pool!Cached, Pool!Touch, Pool!Goto
  <2>2. SamePending
    BY <1>6, <1>0 DEF SamePending, Pool!Cached, Pool!Touch, Pool!Goto,
        Pool!ReleasePending, Pool!TypeOK
  <2> QED BY <2>1, <2>2, MarksCredentials
<1>7. ASSUME NEW a \in Admins, Pool!Replace(a) PROVE Pool!OldCredentialGoes'
    BY <1>7, <1>0 DEF Pool!Replace, Pool!Goto, Pool!OldCredentialGoes,
        Pool!ReleasePending, Pool!Mapped, Pool!TypeOK, Pool!Stations
<1>8. ASSUME NEW a \in Admins, Pool!Release(a) PROVE Pool!OldCredentialGoes'
    BY <1>8, <1>0 DEF Pool!Release, Pool!Unpublish, Pool!Goto, Pool!OldCredentialGoes,
        Pool!ReleasePending, Pool!Mapped, Pool!TypeOK, Pool!Stations
<1>9. ASSUME NEW p \in Admins \cup {Pool!Reaper}, Pool!StopEntry(p)
      PROVE  Pool!OldCredentialGoes'
    BY <1>9, <1>0 DEF Pool!StopEntry, Pool!Goto, Pool!OldCredentialGoes,
        Pool!ReleasePending, Pool!Mapped, Pool!TypeOK, Pool!Stations
<1>10. ASSUME NEW e \in Pool!Ids, Pool!InformersSync(e) PROVE Pool!OldCredentialGoes'
  <2>1. Marks \/ UNCHANGED <<s2, s3, s4>>
    BY <1>10, PoolMarks DEF Pool!InformersSync, Pool!Running
  <2>2. SamePending
    BY <1>10, <1>0 DEF SamePending, Pool!InformersSync, Pool!Running,
        Pool!ReleasePending, Pool!TypeOK
  <2> QED BY <2>1, <2>2, MarksCredentials
<1>11. ASSUME NEW c \in Clusters, Pool!Age(c) PROVE Pool!OldCredentialGoes'
  <2>1. Marks \/ UNCHANGED <<s2, s3, s4>>
    BY <1>11, PoolMarks DEF Pool!Age
  <2>2. SamePending
    BY <1>11, <1>0 DEF SamePending, Pool!Age, Pool!ReleasePending, Pool!TypeOK
  <2> QED BY <2>1, <2>2, MarksCredentials
<1>12. ASSUME Pool!ReapTick PROVE Pool!OldCredentialGoes'
  <2>1. Marks \/ UNCHANGED <<s2, s3, s4>>
    BY <1>12, PoolMarks DEF Pool!ReapTick
  <2>2. SamePending
    BY <1>12, <1>0 DEF SamePending, Pool!ReapTick, Pool!ReleasePending, Pool!TypeOK
  <2> QED BY <2>1, <2>2, MarksCredentials
<1>13. ASSUME Pool!ReapRelease PROVE Pool!OldCredentialGoes'
    BY <1>13, <1>0 DEF Pool!ReapRelease, Pool!Unpublish, Pool!Goto,
        Pool!OldCredentialGoes, Pool!ReleasePending, Pool!Mapped, Pool!TypeOK,
        Pool!Stations
<1>14. CASE UNCHANGED Pool!vars
    BY <1>14, <1>0 DEF Pool!OldCredentialGoes, Pool!ReleasePending, Pool!Mapped
<1> QED BY <1>1, <1>2, <1>3, <1>4, <1>5, <1>6, <1>7, <1>8, <1>9, <1>10, <1>11, <1>12,
        <1>13, <1>14
    DEF Pool!Next, Pool!Viewer

\* Every step keeps the invariant.
LEMMA PoolStep ==
    ASSUME Pool!IInv, [Pool!Next]_(Pool!vars)
    PROVE  Pool!IInv'
BY PoolTypes, PoolPlaces, PoolCredentials DEF Pool!IInv

-----------------------------------------------------------------------------
(* All of it side by side. *)

\* The modules count the members of a set in the same way.
LEMMA SameCounts ==
    \A S : Pool!Cardinality(S) = Cardinality(S) /\ Forward!Cardinality(S) = Cardinality(S)
BY DEF Pool!Cardinality, Forward!Cardinality, Cardinality

\* The places of an entry exclude each other, so they are one when counted.
LEMMA PoolAccounts == Pool!IInv => Pool!EveryEntryAccounted
<1> SUFFICES ASSUME Pool!IInv, NEW e \in 1 .. s3
             PROVE  s4[e].stops
                        + Pool!Cardinality({p \in Pool!Processes : Pool!WillStop(p, e)})
                        + (IF Pool!Mapped(e) THEN 1 ELSE 0) = 1
    BY DEF Pool!EveryEntryAccounted, Pool!Mapped
<1> DEFINE stoppers == {p \in Pool!Processes : Pool!WillStop(p, e)}
<1>0. e \in Pool!Ids /\ s4[e].stops \in {0, 1}
    BY MCPool DEF Pool!InformerPoolAssumption, Pool!IInv, Pool!TypeOK, Pool!Ids,
        Pool!Entry
<1>1. /\ \A p \in stoppers : stoppers = {p} /\ s4[e].stops = 0 /\ ~Pool!Mapped(e)
      /\ Pool!Mapped(e) => s4[e].stops = 0
      /\ s4[e].stops = 0 /\ ~Pool!Mapped(e) => stoppers # {}
    BY DEF Pool!IInv, Pool!Places
<1>2. stoppers = {} => Pool!Cardinality(stoppers) = 0
    BY SameCounts, FS_EmptySet
<1>3. \A p : stoppers = {p} => Pool!Cardinality(stoppers) = 1
    BY SameCounts, FS_Singleton
<1>4. s4[e].stops + Pool!Cardinality(stoppers) + (IF Pool!Mapped(e) THEN 1 ELSE 0) = 1
    <2> HIDE DEF stoppers
    <2>1. CASE stoppers = {}
        BY <1>0, <1>1, <1>2, <2>1
    <2>2. CASE stoppers # {}
        <3>1. PICK p \in stoppers : stoppers = {p}
            BY <1>1, <2>2
        <3>2. Pool!Cardinality(stoppers) = 1 /\ s4[e].stops = 0 /\ ~Pool!Mapped(e)
            BY <1>1, <1>3, <3>1
        <3> QED BY <3>2
    <2> QED BY <2>1, <2>2
<1> QED BY <1>4

\* Who listens alone is one.
LEMMA ForwardAccounts == Forward!IInv => Forward!PortsAccounted
<1> SUFFICES ASSUME Forward!IInv PROVE Forward!PortsAccounted
    OBVIOUS
<1>1. ASSUME NEW p \in Forward!Ports PROVE Forward!Cardinality(s5[p]) <= 1
    <2>1. CASE s5[p] = {}
        BY <2>1, SameCounts, FS_EmptySet
    <2>2. CASE s5[p] # {}
        <3>1. PICK f : s5[p] = {f}
            BY <1>1, <2>2 DEF Forward!IInv, Forward!Alone
        <3>2. Forward!Cardinality(s5[p]) = 1
            BY <3>1, SameCounts, FS_Singleton
        <3> QED BY <3>2
    <2> QED BY <2>1, <2>2
<1> QED BY <1>1 DEF Forward!IInv, Forward!Held, Forward!PortsAccounted

\* The invariants of the parts, each where its part moves; the shipper's variables
\* are its own and are in order in every behaviour.
BackgroundInv ==
    /\ IInv
    /\ part = "pool" => Pool!IInv
    /\ part = "forwards" => Forward!IInv
    /\ part = "tunnel" => Tunnels!IInv

\* Each part begins in order.
LEMMA BackgroundInit == MCInit => BackgroundInv
BY InitIInv, PoolInit, ForwardInit, TunnelInit DEF MCInit, BackgroundInv

\* A step is one of the part that moves, and leaves the others as they are.
LEMMA BackgroundStep == BackgroundInv /\ [MCNext]_all => BackgroundInv'
<1> SUFFICES ASSUME BackgroundInv, [MCNext]_all PROVE BackgroundInv'
    OBVIOUS
<1>1. CASE ShipperNext
    <2>1. part = "shipper" /\ part' = part /\ Next
        BY <1>1 DEF ShipperNext, OfShipper, Next, Enqueue, Worker
    <2> QED BY <2>1, NextIInv DEF BackgroundInv
<1>2. CASE PoolNext
    <2>1. part = "pool" /\ part' = part /\ UNCHANGED vars
        BY <1>2 DEF PoolNext, OfPool
    <2>2. Pool!Next
        BY <1>2 DEF PoolNext, OfPool, Pool!Next, Pool!Viewer
    <2>3. IInv'
        BY <2>1, NextIInv DEF BackgroundInv
    <2>4. Pool!IInv'
        BY <2>1, <2>2, PoolStep DEF BackgroundInv
    <2> QED BY <2>1, <2>3, <2>4 DEF BackgroundInv
<1>3. CASE ForwardsNext
    <2>1. part = "forwards" /\ part' = part /\ UNCHANGED vars
        BY <1>3 DEF ForwardsNext, OfForwards
    <2>2. Forward!Next
        BY <1>3 DEF ForwardsNext, OfForwards, Forward!Next, Forward!Forward
    <2>3. IInv'
        BY <2>1, NextIInv DEF BackgroundInv
    <2>4. Forward!IInv'
        BY <2>1, <2>2, ForwardStep DEF BackgroundInv
    <2> QED BY <2>1, <2>3, <2>4 DEF BackgroundInv
<1>4. CASE TunnelNext
    <2>1. part = "tunnel" /\ part' = part /\ UNCHANGED vars
        BY <1>4 DEF TunnelNext, OfTunnel
    <2>2. Tunnels!Next
        BY <1>4 DEF TunnelNext, OfTunnel, Tunnels!Next
    <2>3. IInv'
        BY <2>1, NextIInv DEF BackgroundInv
    <2>4. Tunnels!IInv'
        BY <2>1, <2>2, TunnelStep DEF BackgroundInv
    <2> QED BY <2>1, <2>3, <2>4 DEF BackgroundInv
<1>5. CASE UNCHANGED all
    <2>1. UNCHANGED <<part, vars, s1, s2, s3, s4, s5, s6, s7, s8, s9, s10, s11>>
        BY <1>5 DEF all, Slots, After7, After9
    <2>2. UNCHANGED Pool!vars /\ UNCHANGED Forward!vars /\ UNCHANGED Tunnels!vars
        BY <2>1 DEF Pool!vars, Pool!pool, Pool!viewers, Forward!vars, Forward!hunt,
            Forward!sockets, Tunnels!vars, Tunnels!ends, Tunnels!copies
    <2> QED BY <2>1, <2>2, NextIInv, PoolStep, ForwardStep, TunnelStep DEF BackgroundInv
<1> QED BY <1>1, <1>2, <1>3, <1>4, <1>5 DEF MCNext

\* The invariant of what runs behind the requests, for all sizes of the queue and
\* the batch and all sets of viewers, administrators, clusters, forwards and ports.
THEOREM BackgroundInvariant == MCSpec => []BackgroundInv
<1> QED BY BackgroundInit, BackgroundStep, PTL DEF MCSpec

\* Every variable of the part that moves keeps its type.
THEOREM BackgroundTypesOK == MCSpec => []TypesOK
<1>1. BackgroundInv => TypesOK
    BY DEF BackgroundInv, TypesOK, IInv, Books, Pool!IInv, Forward!IInv, Tunnels!IInv
<1> QED BY <1>1, BackgroundInvariant, PTL

\* An entry that watches with a replaced credential goes with the release that
\* follows, unless it was published after the replacement by a request that had
\* read the credential before (InformerPool.Warm and Release, ReplaceCredential).
THEOREM PoolCredentialGoes == MCSpec => []OldCredentialGoes
<1>1. BackgroundInv => OldCredentialGoes
    BY DEF BackgroundInv, OldCredentialGoes, Pool!IInv
<1> QED BY <1>1, BackgroundInvariant, PTL

\* Every watch of the pool is stopped once, by the one who took it out of the map,
\* a port is held by the session that announced it and no longer, and a client
\* that stays has the whole answer when its tunnel is closed (InformerPool.Release
\* and reap, forwards.add and get, pipe and Forward).
THEOREM BackgroundHoldings == MCSpec => []HoldingsAccounted
<1>1. Tunnels!IInv => Tunnels!AnswerWhole
    BY DEF Tunnels!IInv, Tunnels!Settled, Tunnels!AnswerWhole
<1>2. BackgroundInv => HoldingsAccounted
    BY <1>1, PoolAccounts, ForwardAccounts DEF BackgroundInv, HoldingsAccounted
<1> QED BY <1>2, BackgroundInvariant, PTL
=============================================================================
