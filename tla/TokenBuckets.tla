---------------------------- MODULE TokenBuckets ----------------------------
(***************************************************************************)
(* What the rate limiter promises a client: a bucket of its own that never *)
(* goes away.  It starts full, earns one unit of time with every tick, and *)
(* a request goes through when it holds the cost of one.                   *)
(* (src/server/internal/httpapi/ratelimit.go)                              *)
(***************************************************************************)
EXTENDS Naturals

CONSTANTS Keys,  \* the addresses of clients
          Cost,  \* the time it takes to earn one request
          Full   \* what a full bucket holds: the burst, in the same unit

VARIABLES level,  \* client -> what its bucket holds
          reply   \* the last request: <<client, went through>>, or <<>>

AtMost(n) == IF n > Full THEN Full ELSE n

Init == level = [k \in Keys |-> Full] /\ reply = <<>>

Tick == /\ level' = [k \in Keys |-> AtMost(level[k] + 1)]
        /\ UNCHANGED reply

Request(k) ==
  /\ reply' = <<k, level[k] >= Cost>>
  /\ level' = IF level[k] >= Cost THEN [level EXCEPT ![k] = @ - Cost] ELSE level

\* A sign-in that succeeded.
Reset(k) == /\ level' = [level EXCEPT ![k] = Full]
            /\ UNCHANGED reply

Next == Tick \/ \E k \in Keys : Request(k) \/ Reset(k)

Spec == Init /\ [][Next]_<<level, reply>>
=============================================================================
