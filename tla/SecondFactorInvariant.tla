------------------------ MODULE SecondFactorInvariant ------------------------
(***************************************************************************)
(* What makes the promises of the second factor inductive, for every       *)
(* number of requests, enrolments and sets of codes: the set a             *)
(* confirmation generates is its own and unused until it commits (Fresh);  *)
(* the sets that an open transaction misses were committed since it        *)
(* started (Crowd); and the secret a confirmation is about to mark is the  *)
(* proven one or crossed it (Crossing).  SignInProofs proves it.           *)
(***************************************************************************)
EXTENDS SecondFactor

\* A confirmation that has generated its codes.
Generated(r) == pc[r] \in {"replace", "activate", "respond"}

\* Codes in the table are of sets generated so far; a set that is still to be
\* committed is one request's own.
Fresh ==
    /\ \A c \in codes : c[1] <= sets
    /\ \A r \in Requests : Generated(r) => own[r] \in 1 .. sets
    /\ \A r \in Requests : pc[r] = "replace" => \A c \in codes : c[1] # own[r]
    /\ \A q, r \in Requests :
          pc[q] = "replace" /\ pc[r] = "replace" /\ own[q] = own[r] => q = r

\* A code that satisfied a session is gone, and nobody is about to store it.
SpentIsGone ==
    \A c \in Code : spent[c] > 0 =>
        /\ c \notin codes /\ c[1] <= sets
        /\ \A r \in Requests : pc[r] = "replace" => c[1] # own[r]

\* The sets that stay when these transactions have committed, but for their own.
Kept(X) == {c[1] : c \in {d \in codes : \A r \in X : d \notin old[r]}}

\* Some transactions that are open, together with the sets they all miss, are
\* as many as were open at once: a set they miss was committed when each of
\* them was open already, by a transaction that was open with them.
Crowd ==
    /\ IsFiniteSet(Replacing)
    /\ \A X \in SUBSET Replacing : Cardinality(Kept(X)) + Cardinality(X) <= together

\* A confirmation was given a right code for the secret the account has, unless
\* another was issued since.
Crossing ==
    \A r \in Requests : Confirming(r) =>
        seen[r] \in proven /\ (secret = seen[r] \/ secret \in crossed)

IInv ==
    /\ TypeOK /\ Fresh /\ SpentIsGone /\ Crowd /\ Crossing
    /\ CodeSingleUse /\ ProvenOrCrossed /\ ShownOrLost
=============================================================================
