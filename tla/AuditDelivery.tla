---------------------------- MODULE AuditDelivery ----------------------------
(***************************************************************************)
(* What the SIEM shipper promises, without its queue, batches, retries or  *)
(* timers: every event offered is either refused and counted at once, or   *)
(* is pending until a run of the oldest pending events is counted as sent  *)
(* or as dropped.  Closing stops the offers and waits for the pending      *)
(* events; only a close whose deadline passed may leave some behind.       *)
(* Shipper.tla is shown to implement this module.                          *)
(***************************************************************************)
EXTENDS Integers, FiniteSets

VARIABLES
    offered,    \* how many events were offered; the n-th is the number n
    pending,    \* the accepted events whose fate is still open
    sent,       \* how many are counted as delivered
    dropped,    \* how many are counted as lost
    phase       \* "open", "draining", "stopping" (deadline passed), "closed"

vars == <<offered, pending, sent, dropped, phase>>

Init ==
    /\ offered = 0
    /\ pending = {}
    /\ sent = 0
    /\ dropped = 0
    /\ phase = "open"

\* A run of the oldest pending events: nothing older stays behind.
OldestRuns ==
    {S \in SUBSET pending : S # {} /\ \A e \in S, f \in pending \ S : e < f}

Offer ==
    /\ phase = "open"
    /\ offered' = offered + 1
    /\ \/ /\ pending' = pending \cup {offered'}
          /\ UNCHANGED dropped
       \/ /\ dropped' = dropped + 1
          /\ UNCHANGED pending
    /\ UNCHANGED <<sent, phase>>

Settle ==
    /\ phase # "closed"
    /\ \E S \in OldestRuns :
          /\ pending' = pending \ S
          /\ \/ /\ sent' = sent + Cardinality(S)
                /\ UNCHANGED dropped
             \/ /\ dropped' = dropped + Cardinality(S)
                /\ UNCHANGED sent
    /\ UNCHANGED <<offered, phase>>

Close ==
    /\ phase = "open"
    /\ phase' = "draining"
    /\ UNCHANGED <<offered, pending, sent, dropped>>

Expire ==
    /\ phase = "draining"
    /\ phase' = "stopping"
    /\ UNCHANGED <<offered, pending, sent, dropped>>

Finish ==
    /\ \/ phase = "draining" /\ pending = {}
       \/ phase = "stopping"
    /\ phase' = "closed"
    /\ UNCHANGED <<offered, pending, sent, dropped>>

Next == Offer \/ Settle \/ Close \/ Expire \/ Finish

Spec == Init /\ [][Next]_vars /\ WF_vars(Settle) /\ WF_vars(Finish)
=============================================================================
