------------------------------- MODULE RateLimit -------------------------------
(*****************************************************************************)
(* What the rate limit promises to each client: a meter that every request   *)
(* that is let through raises by Cost and that falls by Rate with each tick, *)
(* all the time and for everybody; a request is let through if the meter     *)
(* stays within Size.  What is known of a client may be lost when Memory     *)
(* other clients have asked since it did, and not before.                    *)
(* serving_lab/controls.py's TokenBucket implements it.                      *)
(*****************************************************************************)
EXTENDS Naturals, FiniteSets

CONSTANTS Clients, Rate, Cost, Size, Memory

VARIABLES meter,  \* for each client
          since,  \* since[c]: clients that have asked since c did last
          answer  \* of the last request: whose it was, and whether it may go on

vars == <<meter, since, answer>>

\* A client that has not asked, or is forgotten.
Strangers(c) == Clients \ {c}

Init ==
  /\ meter = [c \in Clients |-> 0]
  /\ since = [c \in Clients |-> Strangers(c)]
  /\ answer = [client |-> "none", allowed |-> FALSE]

\* d is forgotten when c asks.
Forgets(d, c) == d # c /\ Cardinality(since[d] \union {c}) >= Memory

Ask(c) ==
  LET allowed == meter[c] + Cost <= Size IN
  /\ answer' = [client |-> c, allowed |-> allowed]
  /\ meter' = [d \in Clients |->
                IF d = c THEN IF allowed THEN meter[c] + Cost ELSE meter[c]
                ELSE IF Forgets(d, c) THEN 0 ELSE meter[d]]
  /\ since' = [d \in Clients |->
                IF d = c THEN {}
                ELSE IF Forgets(d, c) THEN Strangers(d) ELSE since[d] \union {c}]

Tick ==
  /\ meter' = [c \in Clients |-> IF meter[c] > Rate THEN meter[c] - Rate ELSE 0]
  /\ UNCHANGED <<since, answer>>

Next == Tick \/ \E c \in Clients : Ask(c)

Spec == Init /\ [][Next]_vars
===============================================================================
