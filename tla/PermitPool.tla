------------------------------ MODULE PermitPool ------------------------------
(*****************************************************************************)
(* What one model's admission control promises to its callers, with nothing  *)
(* of how it is built: a pool of Limit permits and a line of at most         *)
(* MaxQueue requests.  The line is a set of requests; each of them knows who *)
(* is still ahead of it, and nobody is admitted past somebody ahead.         *)
(* serving_lab/controls.py's Capacity implements it (module Capacity).       *)
(*****************************************************************************)
EXTENDS Naturals, FiniteSets

CONSTANTS Requests,   \* the requests that may ask for a permit
          Limit,      \* permits in the pool
          MaxQueue    \* longest line

VARIABLES holders,    \* requests to which a permit has been given
          line,       \* requests waiting for one
          ahead       \* for each request in line, the ones ahead of it

vars == <<holders, line, ahead>>

\* A set of requests may leave the front of the line together.
Front(A) == A \subseteq line /\ \A r \in A : ahead[r] \subseteq A

\* The line once the requests in A have left it.
Forget(A) ==
  /\ line' = line \ A
  /\ ahead' = [r \in Requests |-> IF r \in line \ A THEN ahead[r] \ A ELSE {}]

Init ==
  /\ holders = {}
  /\ line = {}
  /\ ahead = [r \in Requests |-> {}]

\* A permit is taken without waiting only when nobody waits.
Take(r) ==
  /\ r \notin holders
  /\ line = {}
  /\ Cardinality(holders) < Limit
  /\ holders' = holders \union {r}
  /\ UNCHANGED <<line, ahead>>

\* A request joins the end of the line, and only behind somebody.
Join(r) ==
  /\ r \notin holders \union line
  /\ holders # {}
  /\ Cardinality(line) < MaxQueue
  /\ line' = line \union {r}
  /\ ahead' = [ahead EXCEPT ![r] = line]
  /\ UNCHANGED holders

\* A request gives up its place.
Leave(r) ==
  /\ r \in line
  /\ Forget({r})
  /\ UNCHANGED holders

\* The front of the line gets free permits.
Admit ==
  \E A \in (SUBSET line) \ {{}} :
    /\ Front(A)
    /\ Cardinality(holders) + Cardinality(A) <= Limit
    /\ holders' = holders \union A
    /\ Forget(A)

\* A permit comes back and may go on to the front of the line at once.
Return(r) ==
  /\ r \in holders
  /\ \E A \in SUBSET line :
       /\ Front(A)
       /\ Cardinality(holders) - 1 + Cardinality(A) <= Limit
       /\ holders' = (holders \ {r}) \union A
       /\ Forget(A)

Next ==
  \/ \E r \in Requests : Take(r) \/ Join(r) \/ Leave(r) \/ Return(r)
  \/ Admit

\* Work conserving: a free permit does not stay beside a line for ever.
Spec == Init /\ [][Next]_vars /\ WF_vars(Admit)
===============================================================================
