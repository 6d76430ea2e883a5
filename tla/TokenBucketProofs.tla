--------------------------- MODULE TokenBucketProofs ---------------------------
(*****************************************************************************)
(* TokenBucket implements RateLimit, and bounds what a client gets in any    *)
(* interval, for every rate, burst, number of clients and of buckets.        *)
(*****************************************************************************)
EXTENDS MCTokenBucket, FiniteSetTheorems, TLAPS

-------------------------------------------------------------------------------
\* Arithmetic.

LEMMA SizeType == Size \in Nat \ {0}
  BY BurstAssumption, CostAssumption DEF Size

\* What a time brings, and a tick more.
LEMMA Brought ==
  ASSUME NEW n \in Nat
  PROVE  n * Rate \in Nat /\ (n + 1) * Rate = n * Rate + Rate
  BY RateAssumption

\* A bucket that has filled for Size ticks is full.
LEMMA FullAtLast == Size * Rate >= Size
<1>1. \A m, n \in Nat : m * (n + 1) = m * n + m /\ m * n \in Nat
  OBVIOUS
<1>2. Rate - 1 \in Nat /\ Rate = (Rate - 1) + 1
  BY RateAssumption
<1> QED
  BY <1>1, <1>2, SizeType

LEMMA RefilledType ==
  ASSUME TypeOK, NEW c \in Clients
  PROVE  /\ Refilled(c) \in 0..Size
         /\ place[c] = 0 => Refilled(c) = Size
<1>1. /\ tokens[c] \in 0..Size /\ age[c] \in Nat
      /\ place[c] = 0 => tokens[c] = Size /\ age[c] = 0
  BY SizeType DEF TypeOK
<1>2. age[c] * Rate \in Nat
  BY <1>1, Brought
<1>3. place[c] = 0 => tokens[c] + age[c] * Rate >= Size
  BY <1>1, <1>2, SizeType
<1> QED
  BY <1>1, <1>2, <1>3, SizeType DEF Refilled

\* A tick brings everybody Rate, up to a full bucket, whether or not there is an
\* entry to fill.
LEMMA TickRefills ==
  ASSUME TypeOK, Tick, NEW c \in Clients
  PROVE  Refilled(c)' = IF Refilled(c) + Rate < Size THEN Refilled(c) + Rate ELSE Size
<1>1. /\ tokens[c] \in 0..Size /\ age[c] \in 0..Size /\ tokens'[c] = tokens[c]
      /\ age'[c] = IF place[c] # 0 /\ age[c] < Size THEN age[c] + 1 ELSE age[c]
  BY DEF TypeOK, Tick
<1>2. Refilled(c) \in 0..Size /\ (place[c] = 0 => Refilled(c) = Size)
  BY RefilledType
<1>3. /\ age[c] * Rate \in Nat /\ (age[c] + 1) * Rate = age[c] * Rate + Rate
      /\ Rate \in Nat
  <2>1. age[c] \in Nat
    BY <1>1, SizeType
  <2> QED
    BY <2>1, Brought, RateAssumption
<1>4. Refilled(c) = IF tokens[c] + age[c] * Rate < Size
                    THEN tokens[c] + age[c] * Rate ELSE Size
  BY DEF Refilled
<1>5. Refilled(c)' = IF tokens[c] + age'[c] * Rate < Size
                     THEN tokens[c] + age'[c] * Rate ELSE Size
  BY <1>1 DEF Refilled, Size
<1> DEFINE x == age[c] * Rate
<1>6. CASE age'[c] = age[c]
  <2>1. Refilled(c) = Size
    <3>1. CASE place[c] = 0
      BY <1>2, <3>1
    <3>2. CASE age[c] = Size
      <4>1. age[c] * Rate >= Size
        BY <3>2, FullAtLast
      <4> HIDE DEF x
      <4> QED
        BY <1>1, <1>3, <1>4, <4>1, SizeType DEF x
    <3> QED
      BY <1>1, <1>6, <3>1, <3>2, SizeType
  <2>2. Refilled(c)' = Refilled(c)
    BY <1>4, <1>5, <1>6
  <2> QED
    BY <1>3, <2>1, <2>2, SizeType
<1>7. CASE age'[c] = age[c] + 1
  <2>1. Refilled(c)' = IF tokens[c] + (x + Rate) < Size THEN tokens[c] + (x + Rate)
                                                      ELSE Size
    BY <1>3, <1>5, <1>7
  <2>2. x \in Nat /\ Refilled(c) = IF tokens[c] + x < Size THEN tokens[c] + x ELSE Size
    BY <1>3, <1>4
  <2> HIDE DEF x
  <2> QED
    BY <1>1, <1>3, <2>1, <2>2, SizeType
<1> QED
  BY <1>1, <1>6, <1>7
-------------------------------------------------------------------------------
\* The order of the entries.

\* Whoever has an entry keeps it or moves one place on; the one that asks comes first.
LEMMA MovedCases ==
  ASSUME TypeOK, NEW c \in Clients, NEW d \in Clients
  PROVE  /\ Moved(c, c) = 1
         /\ d # c /\ place[d] = 0 => Moved(d, c) = 0
         /\ d # c /\ place[d] # 0 =>
              Moved(d, c) = IF place[c] = 0 \/ place[d] < place[c]
                            THEN place[d] + 1 ELSE place[d]
  BY DEF Moved

\* What allow does with the entries.
LEMMA AllowPlaces ==
  ASSUME TypeOK, NEW c \in Clients, Allow(c)
  PROVE  /\ place' \in [Clients -> 0..MaxClients]
         /\ place'[c] = 1
         /\ \A d \in Clients \ {c} :
              place'[d] = IF place[d] = 0 THEN 0
                          ELSE IF place[c] = 0 \/ place[d] < place[c]
                          THEN IF place[d] + 1 <= MaxClients THEN place[d] + 1 ELSE 0
                          ELSE place[d]
<1>1. /\ \A d \in Clients : place[d] \in 0..MaxClients
      /\ place' = [d \in Clients |-> IF Moved(d, c) <= MaxClients THEN Moved(d, c) ELSE 0]
  BY DEF TypeOK, Allow, Keeps
<1>2. place'[c] = 1
  BY <1>1, MovedCases, MaxClientsAssumption
<1>3. ASSUME NEW d \in Clients \ {c}
      PROVE  /\ place'[d] = IF place[d] = 0 THEN 0
                            ELSE IF place[c] = 0 \/ place[d] < place[c]
                            THEN IF place[d] + 1 <= MaxClients THEN place[d] + 1 ELSE 0
                            ELSE place[d]
             /\ place'[d] \in 0..MaxClients
  BY <1>1, MovedCases, MaxClientsAssumption
<1> QED
  BY <1>1, <1>2, <1>3, MaxClientsAssumption

LEMMA AllowOrder ==
  ASSUME TypeOK, NEW c \in Clients, Allow(c)
  PROVE  /\ \A d, e \in Clients : place'[d] = place'[e] /\ place'[d] # 0 => d = e
         /\ \A d \in Clients : \A n \in 1..place'[d] : \E e \in Clients : place'[e] = n
<1>1. /\ \A d \in Clients : place[d] \in 0..MaxClients
      /\ \A d, e \in Clients : place[d] = place[e] /\ place[d] # 0 => d = e
      /\ \A d \in Clients : \A n \in 1..place[d] : \E e \in Clients : place[e] = n
  BY DEF TypeOK
<1>2. /\ \A d \in Clients : place'[d] \in 0..MaxClients
      /\ place'[c] = 1
      /\ \A d \in Clients \ {c} :
           place'[d] = IF place[d] = 0 THEN 0
                       ELSE IF place[c] = 0 \/ place[d] < place[c]
                       THEN IF place[d] + 1 <= MaxClients THEN place[d] + 1 ELSE 0
                       ELSE place[d]
  BY AllowPlaces
<1>3. ASSUME NEW d \in Clients, NEW e \in Clients,
             place'[d] = place'[e], place'[d] # 0
      PROVE  d = e
  <2>1. CASE d = c \/ e = c
    BY <1>1, <1>2, <1>3, <2>1, MaxClientsAssumption
  <2>2. CASE d # c /\ e # c
    <3>1. place[d] = place[e] /\ place[d] # 0
      BY <1>1, <1>2, <1>3, <2>2, MaxClientsAssumption
    <3> QED
      BY <1>1, <3>1
  <2> QED
    BY <2>1, <2>2
<1>4. ASSUME NEW d \in Clients, NEW n \in 1..place'[d]
      PROVE  \E e \in Clients : place'[e] = n
  <2>1. n \in Nat /\ 1 <= n /\ n <= place'[d] /\ n <= MaxClients
    BY <1>2, MaxClientsAssumption
  <2>2. CASE n = 1
    BY <1>2, <2>2
  <2>3. CASE n > 1 /\ (place[c] = 0 \/ n <= place[c])
    \* Whoever was one place before n.
    <3>1. \E e \in Clients : place[e] = n - 1
      <4>1. CASE place[c] = 0
        <5>1. d # c /\ place[d] = place'[d] - 1
          BY <1>1, <1>2, <2>1, <2>3, <4>1, MaxClientsAssumption
        <5>2. n - 1 \in 1..place[d]
          BY <1>1, <1>2, <2>1, <2>3, <5>1, MaxClientsAssumption
        <5> QED
          BY <1>1, <5>2
      <4>2. CASE n <= place[c]
        <5>1. n - 1 \in 1..place[c]
          BY <1>1, <2>1, <2>3, <4>2, MaxClientsAssumption
        <5> QED
          BY <1>1, <5>1
      <4> QED
        BY <2>3, <4>1, <4>2
    <3>2. PICK e \in Clients : place[e] = n - 1
      BY <3>1
    <3>3. e # c /\ place[e] # 0 /\ (place[c] = 0 \/ place[e] < place[c])
      BY <1>1, <2>1, <2>3, <3>2, MaxClientsAssumption
    <3>4. place[e] + 1 = n
      BY <2>1, <3>2
    <3>5. place'[e] = n
      BY <1>2, <2>1, <3>3, <3>4
    <3> QED
      BY <3>5
  <2>4. CASE n > 1 /\ place[c] # 0 /\ n > place[c]
    <3>1. d # c /\ place[d] = place'[d]
      BY <1>1, <1>2, <2>1, <2>4, MaxClientsAssumption
    <3>2. n \in 1..place[d]
      BY <2>1, <3>1
    <3>3. PICK e \in Clients : place[e] = n
      BY <1>1, <3>2
    <3>4. place'[e] = n
      BY <1>1, <1>2, <2>1, <2>4, <3>3, MaxClientsAssumption
    <3> QED
      BY <3>4
  <2> QED
    BY <1>1, <2>1, <2>2, <2>3, <2>4, MaxClientsAssumption
<1> QED
  BY <1>3, <1>4

\* What allow does with the buckets.
LEMMA AllowBuckets ==
  ASSUME TypeOK, NEW c \in Clients, Allow(c)
  PROVE  /\ answer' = [client |-> c, allowed |-> Refilled(c) >= Cost]
         /\ tokens' \in [Clients -> 0..Size]
         /\ tokens'[c] = IF Refilled(c) >= Cost THEN Refilled(c) - Cost ELSE Refilled(c)
         /\ age' \in [Clients -> 0..Size]
         /\ age'[c] = 0
         /\ \A d \in Clients \ {c} :
              IF Moved(d, c) <= MaxClients
              THEN tokens'[d] = tokens[d] /\ age'[d] = age[d]
              ELSE tokens'[d] = Size /\ age'[d] = 0 /\ place'[d] = 0
<1>1. /\ \A d \in Clients : tokens[d] \in 0..Size /\ age[d] \in 0..Size
      /\ Refilled(c) \in 0..Size
      /\ Cost \in Nat
  BY RefilledType, CostAssumption DEF TypeOK
<1>2. answer' = [client |-> c, allowed |-> Refilled(c) >= Cost]
  BY DEF Allow
<1>3. /\ tokens' \in [Clients -> 0..Size]
      /\ tokens'[c] = IF Refilled(c) >= Cost THEN Refilled(c) - Cost ELSE Refilled(c)
      /\ \A d \in Clients \ {c} :
           tokens'[d] = IF Moved(d, c) <= MaxClients THEN tokens[d] ELSE Size
  BY <1>1, SizeType DEF Allow, Keeps
<1>4. /\ age' \in [Clients -> 0..Size]
      /\ age'[c] = 0
      /\ \A d \in Clients \ {c} : age'[d] = IF Moved(d, c) <= MaxClients THEN age[d] ELSE 0
  BY <1>1, SizeType DEF Allow, Keeps
<1>5. \A d \in Clients \ {c} : Moved(d, c) <= MaxClients \/ place'[d] = 0
  BY DEF Allow, Keeps
<1> QED
  BY <1>2, <1>3, <1>4, <1>5
-------------------------------------------------------------------------------
\* TypeOK is inductive.

LEMMA InitType == Init => TypeOK
  BY SizeType, MaxClientsAssumption DEF Init, TypeOK

LEMMA TickType ==
  ASSUME TypeOK, Tick
  PROVE  TypeOK'
<1>1. age' \in [Clients -> 0..Size]
  BY SizeType DEF TypeOK, Tick
<1>2. \A c \in Clients : place[c] = 0 => age'[c] = 0
  BY DEF TypeOK, Tick
<1>3. UNCHANGED <<place, tokens, answer>>
  BY DEF Tick
<1> QED
  BY <1>1, <1>2, <1>3 DEF TypeOK, Size

LEMMA AllowType ==
  ASSUME TypeOK, NEW c \in Clients, Allow(c)
  PROVE  TypeOK'
<1>1. /\ place' \in [Clients -> 0..MaxClients]
      /\ \A d, e \in Clients : place'[d] = place'[e] /\ place'[d] # 0 => d = e
      /\ \A d \in Clients : \A n \in 1..place'[d] : \E e \in Clients : place'[e] = n
  BY AllowPlaces, AllowOrder
<1>2. tokens' \in [Clients -> 0..Size] /\ age' \in [Clients -> 0..Size]
  BY AllowBuckets
<1>3. answer' \in [client : Clients \union {"none"}, allowed : BOOLEAN]
  <2>1. answer' = [client |-> c, allowed |-> Refilled(c) >= Cost]
    BY AllowBuckets
  <2>2. (Refilled(c) >= Cost) \in BOOLEAN
    BY RefilledType, CostAssumption
  <2> HIDE DEF Refilled
  <2> QED
    BY <2>1, <2>2
<1>4. ASSUME NEW d \in Clients, place'[d] = 0
      PROVE  tokens'[d] = Size /\ age'[d] = 0
  <2>1. d # c
    BY <1>4, AllowPlaces
  <2>2. CASE Moved(d, c) <= MaxClients
    <3>1. place[d] = 0
      BY <1>4, <2>1, <2>2, AllowPlaces, MovedCases, MaxClientsAssumption DEF TypeOK
    <3> QED
      BY <2>1, <2>2, <3>1, AllowBuckets DEF TypeOK
  <2>3. CASE ~(Moved(d, c) <= MaxClients)
    BY <2>1, <2>3, AllowBuckets
  <2> QED
    BY <2>2, <2>3
<1> QED
  BY <1>1, <1>2, <1>3, <1>4 DEF TypeOK, Size

LEMMA NextType == TypeOK /\ [Next]_vars => TypeOK'
<1> SUFFICES ASSUME TypeOK, [Next]_vars PROVE TypeOK'
  OBVIOUS
<1>1. CASE UNCHANGED vars
  BY <1>1 DEF vars, TypeOK, Size
<1> QED
  BY <1>1, TickType, AllowType DEF Next

\* The OrderedDict of TokenBucket never holds two clients at one place, a gap or more
\* than max_clients, and no bucket more than the burst.
THEOREM TypeCorrect == Spec => []TypeOK
  BY InitType, NextType, PTL DEF Spec
-------------------------------------------------------------------------------
\* Every step is a step of RateLimit.

\* Those that have asked since d, as long as d has an entry.
Since(d) == {e \in Clients : place[e] # 0 /\ place[e] < place[d]}

LEMMA SinceCount ==
  ASSUME TypeOK, NEW d \in Clients, place[d] # 0
  PROVE  IsFiniteSet(Since(d)) /\ Cardinality(Since(d)) = place[d] - 1
<1> DEFINE n == place[d] - 1
           f == [i \in 1..n |-> CHOOSE e \in Clients : place[e] = i]
<1>1. /\ \A e \in Clients : place[e] \in Nat
      /\ \A e1, e2 \in Clients : place[e1] = place[e2] /\ place[e1] # 0 => e1 = e2
      /\ \A i \in 1..place[d] : \E e \in Clients : place[e] = i
  BY MaxClientsAssumption DEF TypeOK
<1>2. n \in Nat /\ place[d] = n + 1
  BY <1>1
<1>3. ASSUME NEW i \in 1..n
      PROVE  f[i] \in Since(d) /\ place[f[i]] = i
  <2>1. i \in 1..place[d] /\ i # 0 /\ i < place[d]
    BY <1>2
  <2>2. \E e \in Clients : place[e] = i
    BY <1>1, <2>1
  <2>3. f[i] \in Clients /\ place[f[i]] = i
    BY <2>2
  <2> QED
    BY <2>1, <2>3 DEF Since
<1>4. f \in [1..n -> Since(d)]
  BY <1>3
<1>5. \A i, j \in 1..n : f[i] = f[j] => i = j
  BY <1>3
<1>6. ASSUME NEW e \in Since(d)
      PROVE  \E i \in 1..n : f[i] = e
  <2>1. e \in Clients /\ place[e] \in 1..n
    BY <1>1, <1>2 DEF Since
  <2>2. f[place[e]] \in Clients /\ place[f[place[e]]] = place[e]
    BY <1>3, <2>1 DEF Since
  <2>3. f[place[e]] = e
    BY <1>1, <2>1, <2>2
  <2> QED
    BY <2>1, <2>3
<1>7. ExistsBijection(1..n, Since(d))
  <2>1. f \in Bijection(1..n, Since(d))
    BY <1>4, <1>5, <1>6 DEF Bijection, Injection, Surjection, IsInjective
  <2> QED
    BY <2>1 DEF ExistsBijection
<1> QED
  BY <1>2, <1>7, FS_NatBijection, FS_CountingElements

\* The values of the abstract variables.
Meter(c) == Size - Refilled(c)
Asked(d) == IF place[d] = 0 THEN Clients \ {d} ELSE Since(d)

\* A client loses its entry when RateLimit may forget it.
LEMMA ForgottenWhenDue ==
  ASSUME TypeOK, NEW c \in Clients, Allow(c), NEW d \in Clients \ {c}, place[d] # 0
  PROVE  IF Cardinality(Since(d) \union {c}) >= MaxClients
         THEN place'[d] = 0 /\ Moved(d, c) > MaxClients
         ELSE place'[d] # 0 /\ Moved(d, c) <= MaxClients
<1>1. /\ place[d] \in 1..MaxClients /\ place[c] \in 0..MaxClients /\ place[c] # place[d]
      /\ MaxClients \in Nat
  BY MaxClientsAssumption DEF TypeOK
<1>2. /\ IsFiniteSet(Since(d)) /\ Cardinality(Since(d)) = place[d] - 1
      /\ c \in Since(d) <=> place[c] # 0 /\ place[c] < place[d]
  BY SinceCount DEF Since
<1>3. Cardinality(Since(d) \union {c}) =
        IF place[c] # 0 /\ place[c] < place[d] THEN place[d] - 1 ELSE place[d]
  <2>1. Cardinality(Since(d) \union {c}) =
          IF c \in Since(d) THEN Cardinality(Since(d)) ELSE Cardinality(Since(d)) + 1
    BY <1>2, FS_AddElement
  <2> QED
    BY <1>1, <1>2, <2>1
<1>4. Moved(d, c) = IF place[c] = 0 \/ place[d] < place[c] THEN place[d] + 1 ELSE place[d]
  BY <1>1, MovedCases
<1>5. place'[d] = IF place[c] = 0 \/ place[d] < place[c]
                  THEN IF place[d] + 1 <= MaxClients THEN place[d] + 1 ELSE 0
                  ELSE place[d]
  BY <1>1, AllowPlaces
<1> QED
  BY <1>1, <1>3, <1>4, <1>5

\* Whoever asks has asked since the others did, and nobody since it.
LEMMA AllowAsked ==
  ASSUME TypeOK, NEW c \in Clients, Allow(c), NEW d \in Clients
  PROVE  Asked(d)' = IF d = c THEN {}
                     ELSE IF Cardinality(Asked(d) \union {c}) >= MaxClients
                          THEN Clients \ {d} ELSE Asked(d) \union {c}
<1>1. /\ \A e \in Clients : place[e] \in 0..MaxClients /\ place'[e] \in 0..MaxClients
      /\ \A e \in Clients : place[e] = place[d] /\ place[d] # 0 => e = d
      /\ MaxClients \in Nat /\ place'[c] = 1
  BY AllowPlaces, MaxClientsAssumption DEF TypeOK
<1>2. CASE d = c
  BY <1>1, <1>2 DEF Asked, Since
<1>3. CASE d # c /\ place[d] = 0
  <2>1. place'[d] = 0
    BY <1>3, AllowPlaces
  <2>2. Asked(d) \union {c} = Clients \ {d} /\ Asked(d)' = Clients \ {d}
    BY <1>3, <2>1 DEF Asked
  <2> QED
    BY <1>3, <2>2
<1>4. CASE d # c /\ place[d] # 0 /\ place'[d] = 0
  <2>1. Cardinality(Asked(d) \union {c}) >= MaxClients
    BY <1>4, ForgottenWhenDue DEF Asked
  <2> QED
    BY <1>4, <2>1 DEF Asked
<1>5. CASE d # c /\ place[d] # 0 /\ place'[d] # 0
  <2>1. ~(Cardinality(Asked(d) \union {c}) >= MaxClients)
    BY <1>5, ForgottenWhenDue DEF Asked
  <2>2. ASSUME NEW e \in Clients
        PROVE  (place'[e] # 0 /\ place'[e] < place'[d])
                 <=> (place[e] # 0 /\ place[e] < place[d]) \/ e = c
    <3>1. place'[d] = IF place[c] = 0 \/ place[d] < place[c] THEN place[d] + 1
                                                            ELSE place[d]
      BY <1>1, <1>5, AllowPlaces
    <3>2. CASE e = c
      BY <1>1, <1>5, <3>1, <3>2
    <3>3. CASE e # c
      <4>1. place'[e] = IF place[e] = 0 THEN 0
                        ELSE IF place[c] = 0 \/ place[e] < place[c]
                        THEN IF place[e] + 1 <= MaxClients THEN place[e] + 1 ELSE 0
                        ELSE place[e]
        BY <3>3, AllowPlaces
      <4> QED
        BY <1>1, <1>5, <3>1, <3>3, <4>1
    <3> QED
      BY <3>2, <3>3
  <2>3. Since(d)' = Since(d) \union {c}
    BY <2>2 DEF Since
  <2> QED
    BY <1>5, <2>1, <2>3 DEF Asked
<1> QED
  BY <1>2, <1>3, <1>4, <1>5

\* What is left in the bucket of the one that asks.
LEMMA AllowRefilled ==
  ASSUME TypeOK, NEW c \in Clients, Allow(c)
  PROVE  Refilled(c)' = IF Refilled(c) >= Cost THEN Refilled(c) - Cost ELSE Refilled(c)
<1>1. /\ age'[c] = 0
      /\ tokens'[c] = IF Refilled(c) >= Cost THEN Refilled(c) - Cost ELSE Refilled(c)
      /\ tokens'[c] \in 0..Size
  BY AllowBuckets
<1>2. tokens'[c] + age'[c] * Rate = tokens'[c]
  BY <1>1, SizeType, RateAssumption
<1> QED
  BY <1>1, <1>2, SizeType DEF Refilled, Size

\* The request is let through if the meter allows it, and raises the meter then.
LEMMA AllowMeter ==
  ASSUME TypeOK, NEW c \in Clients, Allow(c), NEW d \in Clients
  PROVE  Meter(d)' =
           IF d = c THEN IF Meter(c) + Cost <= Size THEN Meter(c) + Cost ELSE Meter(c)
           ELSE IF Cardinality(Asked(d) \union {c}) >= MaxClients THEN 0 ELSE Meter(d)
<1>1. /\ Refilled(d) \in 0..Size /\ (place[d] = 0 => Refilled(d) = Size)
      /\ Refilled(c) \in 0..Size
      /\ Cost \in Nat /\ Size \in Nat /\ Rate \in Nat /\ 0 * Rate = 0
  BY RefilledType, SizeType, CostAssumption, RateAssumption
<1>2. \A n \in 0..Size : age'[d] = 0 /\ tokens'[d] = n => Refilled(d)' = n
  <2>1. SUFFICES ASSUME NEW n \in 0..Size, age'[d] = 0, tokens'[d] = n
                 PROVE  Refilled(d)' = n
    OBVIOUS
  <2>2. n + 0 * Rate = n
    BY <1>1
  <2> QED
    BY <1>1, <2>1, <2>2 DEF Refilled, Size
<1>3. CASE d = c
  <2>1. Refilled(c)' = IF Refilled(c) >= Cost THEN Refilled(c) - Cost ELSE Refilled(c)
    BY AllowRefilled
  <2>2. Meter(c)' = Size - Refilled(c)' /\ Meter(c) = Size - Refilled(c)
    BY DEF Meter, Size
  <2> HIDE DEF Refilled
  <2> QED
    BY <1>1, <1>3, <2>1, <2>2
<1>4. CASE d # c /\ Moved(d, c) <= MaxClients
  <2>1. Refilled(d)' = Refilled(d)
    BY <1>4, AllowBuckets DEF Refilled, Size
  <2>2. Meter(d)' = Meter(d) /\ (place[d] = 0 => Meter(d) = 0)
    BY <1>1, <2>1 DEF Meter, Size
  <2>3. place[d] # 0 => ~(Cardinality(Asked(d) \union {c}) >= MaxClients)
    BY <1>4, ForgottenWhenDue, MovedCases, MaxClientsAssumption DEF Asked, TypeOK
  <2> QED
    BY <1>4, <2>2, <2>3
<1>5. CASE d # c /\ ~(Moved(d, c) <= MaxClients)
  <2>1. place[d] # 0
    BY <1>5, MovedCases, MaxClientsAssumption
  <2>2. Cardinality(Asked(d) \union {c}) >= MaxClients
    BY <1>5, <2>1, ForgottenWhenDue DEF Asked
  <2>3. Refilled(d)' = Size
    BY <1>1, <1>2, <1>5, AllowBuckets
  <2>4. Meter(d)' = 0
    BY <1>1, <2>3 DEF Meter, Size
  <2> QED
    BY <1>5, <2>2, <2>4
<1> QED
  BY <1>3, <1>4, <1>5

\* RateLimit counts as this module does.
LEMMA LimitCardinality == \A S : Limit!Cardinality(S) = Cardinality(S)
  BY DEF Limit!Cardinality, Cardinality

LEMMA AllowRefines ==
  ASSUME TypeOK, NEW c \in Clients, Allow(c)
  PROVE  Limit!Ask(c)
<1>1. /\ \A d \in Clients : Meter(d) = Size - Refilled(d)
      /\ Refilled(c) \in 0..Size /\ Cost \in Nat /\ Size \in Nat
  BY RefilledType, CostAssumption, SizeType DEF Meter
<1>2. (Refilled(c) >= Cost) = (Meter(c) + Cost <= Size)
  BY <1>1
<1>3. answer' = [client |-> c, allowed |-> Meter(c) + Cost <= Size]
  BY <1>2, AllowBuckets
<1>4. \A d \in Clients :
        Meter(d)' =
          IF d = c THEN IF Meter(c) + Cost <= Size THEN Meter(c) + Cost ELSE Meter(c)
          ELSE IF Cardinality(Asked(d) \union {c}) >= MaxClients THEN 0 ELSE Meter(d)
  BY AllowMeter
<1>5. \A d \in Clients :
        Asked(d)' = IF d = c THEN {}
                    ELSE IF Cardinality(Asked(d) \union {c}) >= MaxClients
                         THEN Clients \ {d} ELSE Asked(d) \union {c}
  BY AllowAsked
<1> QED
  BY <1>3, <1>4, <1>5, LimitCardinality
  DEF Limit!Ask, Limit!Forgets, Limit!Strangers, Meter, Asked, Since

LEMMA TickRefines ==
  ASSUME TypeOK, Tick
  PROVE  Limit!Tick
<1>1. ASSUME NEW c \in Clients
      PROVE  Meter(c)' = IF Meter(c) > Rate THEN Meter(c) - Rate ELSE 0
  <2>1. /\ Refilled(c) \in 0..Size /\ Rate \in Nat /\ Size \in Nat
        /\ Refilled(c)' = IF Refilled(c) + Rate < Size THEN Refilled(c) + Rate ELSE Size
    BY RefilledType, TickRefills, RateAssumption, SizeType
  <2>2. Meter(c)' = Size - Refilled(c)' /\ Meter(c) = Size - Refilled(c)
    BY DEF Meter, Size
  <2> QED
    BY <2>1, <2>2
<1>2. UNCHANGED <<place, answer>>
  BY DEF Tick
<1> QED
  BY <1>1, <1>2 DEF Limit!Tick, Meter

\* TokenBucket.allow answers each client as a meter of its own would that runs all the
\* time, and forgets a client only if max_clients others have asked since.
THEOREM Refinement == Spec => LimitSpec
<1>1. Init => Limit!Init
  <2>1. SUFFICES ASSUME Init PROVE Limit!Init
    OBVIOUS
  <2>2. \A c \in Clients : Size - Refilled(c) = 0
    BY <2>1, InitType, RefilledType, SizeType DEF Init
  <2> QED
    BY <2>1, <2>2 DEF Init, Limit!Init, Limit!Strangers
<1>2. TypeOK /\ [Next]_vars => [Limit!Next]_(Limit!vars)
  <2>1. SUFFICES ASSUME TypeOK, [Next]_vars
                 PROVE  [Limit!Next]_(Limit!vars)
    OBVIOUS
  <2>2. CASE UNCHANGED vars
    BY <2>2 DEF vars, Limit!vars, Refilled, Size
  <2> QED
    BY <2>1, <2>2, AllowRefines, TickRefines DEF Next, Limit!Next
<1> QED
  BY <1>1, <1>2, TypeCorrect, PTL DEF Spec, LimitSpec, Limit!Spec
-------------------------------------------------------------------------------
\* What a client gets in an interval.

\* What the client has got and what it could get now is what it could have had at the
\* beginning, and what has come since.
WindowInv ==
  /\ watched \in Clients \union {"none"}
  /\ granted \in Nat
  /\ window \in Nat
  /\ watched = "none" => granted = 0
  /\ \A c \in Clients : watched = c =>
       place[c] # 0 /\ granted * Cost + Refilled(c) <= Size + window * Rate

HInv == TypeOK /\ WindowInv

LEMMA HInitInv == HInit => HInv
  BY InitType, ClientsAssumption DEF HInit, HInv, WindowInv

\* A client that is watched no more has nothing to account for.
LEMMA LoseSightInv ==
  ASSUME LoseSight
  PROVE  WindowInv'
  BY ClientsAssumption DEF LoseSight, WindowInv

LEMMA WatchInv ==
  ASSUME HInv, NEW c \in Clients, Watch(c)
  PROVE  HInv'
<1>1. TypeOK /\ WindowInv /\ Refilled(c) \in 0..Size
  BY RefilledType DEF HInv
<1>2. /\ UNCHANGED <<place, tokens, age, answer, granted, window>>
      /\ watched' = c /\ place[c] # 0 /\ granted = 0 /\ window \in Nat
  BY <1>1 DEF Watch, vars, WindowInv
<1>3. TypeOK'
  BY <1>1, <1>2 DEF TypeOK, Size
<1>4. Refilled(c)' = Refilled(c)
  BY <1>2 DEF Refilled, Size
<1>5. granted * Cost + Refilled(c) <= Size + window * Rate
  <2>1. 0 * Cost = 0 /\ window * Rate \in Nat
    BY <1>2, Brought, CostAssumption
  <2> QED
    BY <1>1, <1>2, <2>1, SizeType
<1>6. (granted * Cost + Refilled(c) <= Size + window * Rate)'
  BY <1>2, <1>4, <1>5 DEF Size
<1>7. WindowInv'
  BY <1>2, <1>6, ClientsAssumption DEF WindowInv
<1> QED
  BY <1>3, <1>7 DEF HInv

LEMMA HTickInv ==
  ASSUME HInv, HTick
  PROVE  HInv'
<1>1. TypeOK /\ WindowInv /\ Tick
  BY DEF HInv, HTick
<1>2. TypeOK'
  BY <1>1, TickType
<1>3. CASE LoseSight
  BY <1>2, <1>3, LoseSightInv DEF HInv
<1>4. CASE ~LoseSight
  <2>1. /\ UNCHANGED <<watched, granted, place>>
        /\ watched \in Clients \union {"none"} /\ granted \in Nat /\ window \in Nat
        /\ window' = IF watched = "none" THEN 0 ELSE window + 1
        /\ watched = "none" => granted = 0
    BY <1>1, <1>4 DEF HTick, Tick, WindowInv
  <2>2. ASSUME NEW c \in Clients, watched = c
        PROVE  place[c] # 0 /\ granted * Cost + Refilled(c)' <= Size + window' * Rate
    <3>1. /\ place[c] # 0 /\ granted * Cost + Refilled(c) <= Size + window * Rate
          /\ window' = window + 1
      BY <1>1, <2>1, <2>2, ClientsAssumption DEF WindowInv
    <3>2. /\ Refilled(c) \in 0..Size
          /\ Refilled(c)' = IF Refilled(c) + Rate < Size THEN Refilled(c) + Rate ELSE Size
          /\ Rate \in Nat
      BY <1>1, TickRefills, RefilledType, RateAssumption
    <3>3. /\ window * Rate \in Nat /\ (window + 1) * Rate = window * Rate + Rate
          /\ granted * Cost \in Nat
      BY <2>1, Brought, CostAssumption
    <3> QED
      BY <3>1, <3>2, <3>3, SizeType
  <2>3. \A c \in Clients : watched' = c =>
          (place[c] # 0 /\ granted * Cost + Refilled(c) <= Size + window * Rate)'
    BY <2>1, <2>2 DEF Size
  <2>4. WindowInv'
    BY <2>1, <2>3 DEF WindowInv
  <2> QED
    BY <1>2, <2>4 DEF HInv
<1> QED
  BY <1>3, <1>4

LEMMA HAllowInv ==
  ASSUME HInv, NEW c \in Clients, HAllow(c)
  PROVE  HInv'
<1>1. TypeOK /\ WindowInv /\ Allow(c)
  BY DEF HInv, HAllow
<1>2. TypeOK'
  BY <1>1, AllowType
<1>3. CASE LoseSight
  BY <1>2, <1>3, LoseSightInv DEF HInv
<1>4. CASE ~LoseSight
  <2>1. /\ UNCHANGED <<watched, window>>
        /\ watched \in Clients \union {"none"} /\ granted \in Nat /\ window \in Nat
        /\ granted' = IF watched = c /\ answer'.allowed THEN granted + 1 ELSE granted
        /\ watched = "none" => granted = 0
        /\ watched # "none" => place'[watched] # 0
    BY <1>1, <1>4 DEF HAllow, WindowInv
  <2>2. answer'.allowed = (Refilled(c) >= Cost)
    <3>1. answer' = [client |-> c, allowed |-> Refilled(c) >= Cost]
      BY <1>1, AllowBuckets
    <3> QED
      BY <3>1
  <2>3. ASSUME NEW d \in Clients, watched = d
        PROVE  granted' * Cost + Refilled(d)' <= Size + window * Rate
    <3>1. /\ granted * Cost + Refilled(d) <= Size + window * Rate
          /\ place[d] # 0 /\ place'[d] # 0
      BY <1>1, <2>1, <2>3, ClientsAssumption DEF WindowInv
    <3>2. /\ Refilled(d) \in 0..Size /\ Cost \in Nat /\ Size \in Nat
          /\ window * Rate \in Nat /\ granted * Cost \in Nat
          /\ (granted + 1) * Cost = granted * Cost + Cost
      BY <1>1, <2>1, RefilledType, SizeType, CostAssumption, Brought
    <3>3. Meter(d) = Size - Refilled(d) /\ Meter(d)' = Size - Refilled(d)'
      BY DEF Meter, Size
    <3>4. CASE d = c
      <4>1. Refilled(c)' = IF Refilled(c) >= Cost THEN Refilled(c) - Cost ELSE Refilled(c)
        BY <1>1, AllowRefilled
      <4>2. granted' = IF Refilled(c) >= Cost THEN granted + 1 ELSE granted
        BY <2>1, <2>2, <2>3, <3>4
      <4> QED
        BY <3>1, <3>2, <3>4, <4>1, <4>2
    <3>5. CASE d # c
      <4>1. Moved(d, c) <= MaxClients
        BY <1>1, <3>1, <3>5, AllowBuckets
      <4>2. Refilled(d)' = Refilled(d)
        BY <1>1, <3>5, <4>1, AllowBuckets DEF Refilled, Size
      <4>3. granted' = granted
        BY <2>1, <2>3, <3>5
      <4> QED
        BY <3>1, <4>2, <4>3
    <3> QED
      BY <3>4, <3>5
  <2>4. \A d \in Clients : watched' = d =>
          (place[d] # 0 /\ granted * Cost + Refilled(d) <= Size + window * Rate)'
    BY <2>1, <2>3, ClientsAssumption DEF Size
  <2>5. WindowInv'
    BY <2>1, <2>4, ClientsAssumption DEF WindowInv
  <2> QED
    BY <1>2, <2>5 DEF HInv
<1> QED
  BY <1>3, <1>4

LEMMA HNextInv == HInv /\ [HNext]_hvars => HInv'
<1>1. ASSUME HInv, UNCHANGED hvars
      PROVE  HInv'
  BY <1>1 DEF HInv, hvars, vars, TypeOK, WindowInv, Refilled, Size
<1> QED
  BY <1>1, HTickInv, HAllowInv, WatchInv DEF HNext

\* In any interval a client gets at most the burst through TokenBucket.allow, and what
\* the rate brings meanwhile.
THEOREM BurstIsBound == HSpec => []BurstBound
<1>1. HInv => BurstBound
  <2> SUFFICES ASSUME HInv PROVE BurstBound
    OBVIOUS
  <2>1. TypeOK /\ WindowInv
    BY DEF HInv
  <2>2. granted * Cost \in Nat /\ window * Rate \in Nat /\ Size \in Nat
    BY <2>1, Brought, SizeType, CostAssumption DEF WindowInv
  <2>3. CASE watched = "none"
    <3>1. granted * Cost = 0
      BY <2>1, <2>3, CostAssumption DEF WindowInv
    <3> QED
      BY <2>2, <3>1 DEF BurstBound
  <2>4. CASE watched # "none"
    <3>1. /\ granted * Cost + Refilled(watched) <= Size + window * Rate
          /\ Refilled(watched) \in 0..Size
      BY <2>1, <2>4, RefilledType DEF WindowInv
    <3> QED
      BY <2>2, <3>1 DEF BurstBound
  <2> QED
    BY <2>3, <2>4
<1> QED
  BY <1>1, HInitInv, HNextInv, PTL DEF HSpec
===============================================================================
