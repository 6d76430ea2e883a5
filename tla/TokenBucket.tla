------------------------------ MODULE TokenBucket ------------------------------
(*****************************************************************************)
(* serving_lab/controls.py, class TokenBucket: a bucket for each client, in  *)
(* an OrderedDict of at most max_clients, the one that asked longest ago     *)
(* first.  allow runs without suspending, so a call is a step.               *)
(*                                                                           *)
(* Tokens are counted in units, so that `rate` may be a fraction: a request  *)
(* costs Cost units, a tick of the clock brings Rate of them.  The rounding  *)
(* of floats is left out.  A client without an entry has the values that     *)
(* `pop` would give it.                                                      *)
(*****************************************************************************)
EXTENDS Naturals, FiniteSets

CONSTANTS Clients,    \* identities
          Burst,      \* TokenBucket.burst
          Cost,       \* units of a token
          Rate,       \* TokenBucket.rate, in units a tick
          MaxClients  \* TokenBucket.max_clients

ASSUME ClientsAssumption == IsFiniteSet(Clients) /\ "none" \notin Clients
ASSUME BurstAssumption == Burst \in Nat \ {0}
ASSUME CostAssumption == Cost \in Nat \ {0}
ASSUME RateAssumption == Rate \in Nat \ {0}
ASSUME MaxClientsAssumption == MaxClients \in Nat \ {0}

VARIABLES place,   \* place in the OrderedDict, from its end; 0 without an entry
          tokens,  \* tokens when the client asked last, in units
          age,     \* ticks since then, up to Size: no bucket fills for longer
          answer   \* what the last allow was asked and has returned

vars == <<place, tokens, age, answer>>

\* A full bucket.
Size == Burst * Cost

Init ==
  /\ place = [c \in Clients |-> 0]
  /\ tokens = [c \in Clients |-> Size]
  /\ age = [c \in Clients |-> 0]
  /\ answer = [client |-> "none", allowed |-> FALSE]

Tick ==
  /\ age' = [c \in Clients |-> IF place[c] # 0 /\ age[c] < Size THEN age[c] + 1 ELSE age[c]]
  /\ UNCHANGED <<place, tokens, answer>>

\* Mutant: nothing bounds what a client saves up.
RefilledUnbounded(c) == tokens[c] + age[c] * Rate

\* Mutant: whole tokens only; what is left of one is lost with `last`.
RefilledWhole(c) ==
  LET t == tokens[c] + ((age[c] * Rate) \div Cost) * Cost IN IF t < Size THEN t ELSE Size

\* min(burst, tokens + (now - last) * rate)
Refilled(c) ==
  LET t == tokens[c] + age[c] * Rate IN IF t < Size THEN t ELSE Size

\* Mutant: the entry is assigned without `pop`, which leaves it in its place.
MovedUnlessNew(d, c) ==
  IF d = c THEN IF place[c] = 0 THEN 1 ELSE place[c]
  ELSE IF place[d] # 0 /\ place[c] = 0 THEN place[d] + 1 ELSE place[d]

\* pop takes c's entry out, and the assignment puts it at the end.
Moved(d, c) ==
  IF d = c THEN 1
  ELSE IF place[d] # 0 /\ (place[c] = 0 \/ place[d] < place[c])
       THEN place[d] + 1 ELSE place[d]

\* Mutant: the dictionary may hold one more.
KeepsOneMore(n) == n <= MaxClients + 1

\* popitem(last=False) drops the first entry while there are too many.
Keeps(n) == n <= MaxClients

\* allow(c).
Allow(c) ==
  LET allowed == Refilled(c) >= Cost
      kept(d) == Keeps(Moved(d, c))
  IN
  /\ answer' = [client |-> c, allowed |-> allowed]
  /\ place' = [d \in Clients |-> IF kept(d) THEN Moved(d, c) ELSE 0]
  /\ tokens' = [d \in Clients |->
                 IF d = c THEN IF allowed THEN Refilled(c) - Cost ELSE Refilled(c)
                 ELSE IF kept(d) THEN tokens[d] ELSE Size]
  /\ age' = [d \in Clients |-> IF d # c /\ kept(d) THEN age[d] ELSE 0]

Next == Tick \/ \E c \in Clients : Allow(c)

Spec == Init /\ [][Next]_vars /\ WF_vars(Tick)
-------------------------------------------------------------------------------
\* Properties.

\* The entries are in one order, without gaps or ties, and there are no more of
\* them than max_clients; no bucket holds more than burst, or less than nothing.
TypeOK ==
  /\ place \in [Clients -> 0..MaxClients]
  /\ \A c, d \in Clients : place[c] = place[d] /\ place[c] # 0 => c = d
  /\ \A c \in Clients : \A n \in 1..place[c] : \E d \in Clients : place[d] = n
  /\ tokens \in [Clients -> 0..Size]
  /\ age \in [Clients -> 0..Size]
  /\ \A c \in Clients : place[c] = 0 => tokens[c] = Size /\ age[c] = 0
  /\ answer \in [client : Clients \union {"none"}, allowed : BOOLEAN]

\* Each client is answered as by a meter of its own that runs all the time,
\* although its bucket is only filled when it asks and shares its place with
\* others; and it is forgotten only if max_clients others have asked since.
Limit == INSTANCE RateLimit WITH
           Memory <- MaxClients,
           meter <- [c \in Clients |-> Size - Refilled(c)],
           since <- [c \in Clients |->
                      IF place[c] = 0 THEN Clients \ {c}
                      ELSE {d \in Clients : place[d] # 0 /\ place[d] < place[c]}]

LimitSpec == Limit!Spec

\* A client that goes on asking is let through again and again: being refused does
\* not keep its bucket from filling.
NotStarved ==
  \A c \in Clients :
    WF_vars(Allow(c)) => []<>(answer = [client |-> c, allowed |-> TRUE])
===============================================================================
