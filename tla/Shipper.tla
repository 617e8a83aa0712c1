------------------------------- MODULE Shipper -------------------------------
(***************************************************************************)
(* One audit.Shipper: a bounded queue, Enqueue that never waits, one       *)
(* worker goroutine that batches, sends and retries, and Close.            *)
(* (server/internal/audit/shipper.go)                                      *)
(*                                                                         *)
(* Events are numbered in the order Enqueue is called.  The sink is the    *)
(* environment: a Send may fail after the sink stored any part of the      *)
(* batch (a timeout, or a bulk answer that refuses single documents).      *)
(***************************************************************************)
EXTENDS Integers, Sequences, FiniteSets, Functions

CONSTANTS
    QueueSize,      \* ShipperOptions.QueueSize
    BatchSize,      \* ShipperOptions.BatchSize
    MaxTries,       \* ShipperOptions.MaxTries
    MaxOffered      \* bound: how many events callers offer in a behaviour

ASSUME ShipperAssumption ==
    /\ QueueSize \in Nat \ {0}
    /\ BatchSize \in Nat \ {0}
    /\ MaxTries \in Nat \ {0}
    /\ MaxOffered \in Nat

VARIABLES
    queue,      \* the channel s.queue
    closed,     \* close(s.queue) has happened
    stopped,    \* the worker's context was cancelled by Close's deadline
    closer,     \* where Close is: "open", "draining", "stopping", "closed"
    pc,         \* where the worker is: "select", "send", "sleep", "returned"
    batch,      \* the worker's batch slice
    attempt,    \* deliver's loop variable
    sent, failed, dropped, retries,   \* the four atomic counters
    panicked,   \* some caller sent on the closed channel
    offered,    \* history: Enqueue calls that returned
    copies      \* history: how often the sink stored each event

counters == <<sent, failed, dropped, retries>>
vars == <<queue, closed, stopped, closer, pc, batch, attempt, counters,
          panicked, offered, copies>>

Event == 1..MaxOffered

Init ==
    /\ queue = <<>>
    /\ closed = FALSE
    /\ stopped = FALSE
    /\ closer = "open"
    /\ pc = "select"
    /\ batch = <<>>
    /\ attempt = 0
    /\ sent = 0 /\ failed = 0 /\ dropped = 0 /\ retries = 0
    /\ panicked = FALSE
    /\ offered = 0
    /\ copies = [e \in Event |-> 0]

-----------------------------------------------------------------------------
(* The callers. *)

\* Mutant: the channel is taken to be unbounded.
EnqueueAccept_Unbounded ==
    /\ ~closed
    /\ offered < MaxOffered
    /\ offered' = offered + 1
    /\ queue' = Append(queue, offered')
    /\ UNCHANGED <<closed, stopped, closer, pc, batch, attempt, counters,
                   panicked, copies>>

\* Room in the channel: the send case of the select is ready.
EnqueueAccept ==
    /\ ~closed
    /\ offered < MaxOffered
    /\ Len(queue) < QueueSize
    /\ offered' = offered + 1
    /\ queue' = Append(queue, offered')
    /\ UNCHANGED <<closed, stopped, closer, pc, batch, attempt, counters,
                   panicked, copies>>

\* No room: the default case drops the event and counts it.
EnqueueDrop ==
    /\ ~closed
    /\ offered < MaxOffered
    /\ Len(queue) >= QueueSize
    /\ offered' = offered + 1
    /\ dropped' = dropped + 1
    /\ UNCHANGED <<queue, closed, stopped, closer, pc, batch, attempt, sent,
                   failed, retries, panicked, copies>>

\* A send on a closed channel is ready at once and panics in the caller.
EnqueueOnClosed ==
    /\ closed
    /\ panicked' = TRUE
    /\ UNCHANGED <<queue, closed, stopped, closer, pc, batch, attempt,
                   counters, offered, copies>>

Enqueue == EnqueueAccept \/ EnqueueDrop \/ EnqueueOnClosed

-----------------------------------------------------------------------------
(* The worker: run's select loop. *)

\* flush of a non-empty batch enters deliver at attempt 0.
StartDelivery ==
    /\ pc' = "send"
    /\ attempt' = 0

Receive ==
    /\ pc = "select"
    /\ queue # <<>>
    /\ queue' = Tail(queue)
    /\ batch' = Append(batch, Head(queue))
    /\ IF Len(batch') >= BatchSize
       THEN StartDelivery
       ELSE UNCHANGED <<pc, attempt>>
    /\ UNCHANGED <<closed, stopped, closer, counters, panicked, offered, copies>>

\* Mutant: a closed channel ends the loop without the last flush.
ReceiveClosed_NoFlush ==
    /\ pc = "select"
    /\ queue = <<>> /\ closed
    /\ pc' = "returned"
    /\ UNCHANGED <<queue, closed, stopped, closer, batch, attempt, counters,
                   panicked, offered, copies>>

\* The channel is closed and empty: flush what is left, and return.  After
\* the flush the worker comes back here with an empty batch, which is all
\* the code's own return does.
ReceiveClosed ==
    /\ pc = "select"
    /\ queue = <<>> /\ closed
    /\ IF batch = <<>>
       THEN pc' = "returned" /\ UNCHANGED attempt
       ELSE StartDelivery
    /\ UNCHANGED <<queue, closed, stopped, closer, batch, counters, panicked,
                   offered, copies>>

\* Mutant: the timer flushes only a full batch.
BatchTimer_WhenFull ==
    /\ pc = "select"
    /\ Len(batch) >= BatchSize
    /\ StartDelivery
    /\ UNCHANGED <<queue, closed, stopped, closer, batch, counters, panicked,
                   offered, copies>>

\* The batch timer; with an empty batch flush does nothing.
BatchTimer ==
    /\ pc = "select"
    /\ batch # <<>>
    /\ StartDelivery
    /\ UNCHANGED <<queue, closed, stopped, closer, batch, counters, panicked,
                   offered, copies>>

\* Mutant: the loop also returns from inside a delivery, with a full batch.
ContextDone_Anywhere ==
    /\ stopped
    /\ pc' = "returned"
    /\ UNCHANGED <<queue, closed, stopped, closer, batch, attempt, counters,
                   panicked, offered, copies>>

\* The context is done: the loop returns as it stands.
ContextDone ==
    /\ pc = "select"
    /\ stopped
    /\ pc' = "returned"
    /\ UNCHANGED <<queue, closed, stopped, closer, batch, attempt, counters,
                   panicked, offered, copies>>

-----------------------------------------------------------------------------
(* The worker: deliver. *)

\* Mutant: the batch is not reset after its delivery.
EndDelivery_KeepsBatch ==
    /\ pc' = "select"
    /\ attempt' = 0
    /\ UNCHANGED batch

EndDelivery ==
    /\ pc' = "select"
    /\ batch' = <<>>
    /\ attempt' = 0

\* Mutant: one drop is counted per batch instead of per event.
CountLoss_PerBatch ==
    /\ dropped' = dropped + 1
    /\ EndDelivery

CountLoss ==
    /\ dropped' = dropped + Len(batch)
    /\ EndDelivery

\* What the sink stored of this attempt.
Store(S) == copies' = [e \in Event |-> copies[e] + (IF e \in S THEN 1 ELSE 0)]

\* The sink answers without an error: with a cancelled context it cannot.
SendOk ==
    /\ pc = "send"
    /\ ~stopped
    /\ Store(Range(batch))
    /\ sent' = sent + Len(batch)
    /\ EndDelivery
    /\ UNCHANGED <<queue, closed, stopped, closer, failed, dropped, retries,
                   panicked, offered>>

\* The sink answers with an error, or not within sendTimeout; it may have
\* stored part of the batch.  The next attempt counts a retry and sleeps;
\* after the last one the loss is counted.
SendError ==
    /\ pc = "send"
    /\ \E S \in SUBSET Range(batch) : Store(S)
    /\ failed' = failed + 1
    /\ IF attempt + 1 < MaxTries
       THEN /\ attempt' = attempt + 1
            /\ retries' = retries + 1
            /\ pc' = "sleep"
            /\ UNCHANGED <<batch, dropped>>
       ELSE CountLoss /\ UNCHANGED retries
    /\ UNCHANGED <<queue, closed, stopped, closer, sent, panicked, offered>>

SleepOver ==
    /\ pc = "sleep"
    /\ pc' = "send"
    /\ UNCHANGED <<queue, closed, stopped, closer, batch, attempt, counters,
                   panicked, offered, copies>>

SleepCancelled ==
    /\ pc = "sleep"
    /\ stopped
    /\ CountLoss
    /\ UNCHANGED <<queue, closed, stopped, closer, sent, failed, retries,
                   panicked, offered, copies>>

Worker == \/ Receive \/ ReceiveClosed \/ BatchTimer \/ ContextDone
          \/ SendOk \/ SendError \/ SleepOver \/ SleepCancelled

-----------------------------------------------------------------------------
(* Close, which once.Do runs at most once. *)

CloseStart ==
    /\ closer = "open"
    /\ closed' = TRUE
    /\ closer' = "draining"
    /\ UNCHANGED <<queue, stopped, pc, batch, attempt, counters, panicked,
                   offered, copies>>

CloseDeadline ==
    /\ closer = "draining"
    /\ stopped' = TRUE
    /\ closer' = "stopping"
    /\ UNCHANGED <<queue, closed, pc, batch, attempt, counters, panicked,
                   offered, copies>>

\* Mutant: Close waits for its deadline even when the worker is done.
CloseReturn_DeadlineOnly ==
    /\ closer = "stopping"
    /\ pc = "returned"
    /\ closer' = "closed"
    /\ UNCHANGED <<queue, closed, stopped, pc, batch, attempt, counters,
                   panicked, offered, copies>>

CloseReturn ==
    /\ closer \in {"draining", "stopping"}
    /\ pc = "returned"
    /\ closer' = "closed"
    /\ UNCHANGED <<queue, closed, stopped, pc, batch, attempt, counters,
                   panicked, offered, copies>>

Next == Enqueue \/ Worker \/ CloseStart \/ CloseDeadline \/ CloseReturn

(***************************************************************************)
(* The worker goroutine is scheduled and every step of it ends by itself:  *)
(* timers fire and a Send is cut off by sendTimeout.  Nothing makes a      *)
(* caller enqueue, Close be called, or its deadline pass.                  *)
(***************************************************************************)
Spec == Init /\ [][Next]_vars /\ WF_vars(Worker) /\ WF_vars(CloseReturn)

-----------------------------------------------------------------------------
(* Properties. *)

\* Shape of the state; the queue and the batch never outgrow their bounds.
TypeOK ==
    /\ queue \in Seq(Event) /\ Len(queue) <= QueueSize
    /\ closed \in BOOLEAN /\ stopped \in BOOLEAN /\ panicked \in BOOLEAN
    /\ closer \in {"open", "draining", "stopping", "closed"}
    /\ pc \in {"select", "send", "sleep", "returned"}
    /\ batch \in Seq(Event) /\ Len(batch) <= BatchSize
    /\ attempt \in 0 .. MaxTries - 1
    /\ sent \in Nat /\ failed \in Nat /\ dropped \in Nat /\ retries \in Nat
    /\ offered \in 0..MaxOffered
    /\ copies \in [Event -> Nat]

\* Every event Enqueue took is in exactly one place: counted as sent,
\* counted as dropped, in the channel, or in the worker's batch.  Through
\* retries, a full queue and a cut-off Close nothing is counted twice and
\* nothing disappears from the books.
Conservation == offered = sent + dropped + Len(queue) + Len(batch)

\* A failed attempt is either followed by a counted retry or its batch is in
\* the dropped counter, so failures without retries never exceed the loss an
\* alert would see.
RetryLedger == 0 <= failed - retries /\ failed - retries <= dropped

\* Retrying may duplicate a record at the sink (the bulk encoder accepts
\* that) but at most once per attempt: a batch is never delivered again
\* after its delivery ended.
BoundedCopies == \A e \in Event : copies[e] <= MaxTries

\* A worker that returned without having been cut off left nothing behind:
\* Close flushes what is queued.
CloseFlushes == pc = "returned" /\ ~stopped => queue = <<>> /\ batch = <<>>

\* What a cut-off close can leave uncounted is less than one queue and one
\* batch: run never returns holding a full batch.
LossBounded ==
    pc = "returned" => offered - sent - dropped < QueueSize + BatchSize

\* A close leaves nothing behind but what its deadline cut off, and that is
\* less than one queue and one batch.
ClosingAccounts == CloseFlushes /\ LossBounded

\* Close returns, whatever the sink does and even if its deadline never
\* passes: the tries are bounded and every Send is cut off.
CloseReturns == <>[](closer \in {"open", "closed"})

Delivery == INSTANCE AuditDelivery
                WITH pending <- Range(queue) \cup Range(batch),
                     phase <- closer

\* The worker, its batches, retries and timers implement the abstract
\* promise: accepted events settle in order, all of them unless a close was
\* cut off.
ImplementsAuditDelivery == Delivery!Spec
=============================================================================
