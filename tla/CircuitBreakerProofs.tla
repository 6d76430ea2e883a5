------------------------- MODULE CircuitBreakerProofs -------------------------
(*****************************************************************************)
(* The safety of CircuitBreaker, for every number of calls, every threshold  *)
(* and every hold-down.  The three invariants are inductive together: that a *)
(* probe is alone needs the ticket's copy of `probing` to be taken when no   *)
(* other probe is out, and that a count at the threshold means open needs    *)
(* the one success that clears the count of an open circuit to be a probe's. *)
(* With the history of MCCircuitBreaker: the count is that of the failures   *)
(* since the last success.                                                   *)
(*****************************************************************************)
EXTENDS MCCircuitBreaker, TLAPS

IInv == TypeOK /\ SingleProbe /\ OpenIffThreshold

LEMMA InitInv == Init => IInv
<1> SUFFICES ASSUME Init PROVE IInv
  OBVIOUS
<1>1. TypeOK
  <2>1. 0 \in 0..Threshold /\ 0 \in 0..Reset
    BY ThresholdAssumption, ResetAssumption
  <2> QED
    BY <2>1, Zenon DEF Init, TypeOK
<1>2. Probes = {} /\ probing = FALSE
  BY DEF Init, Probes
<1>3. SingleProbe
  BY <1>2 DEF SingleProbe
<1>4. ~(0 >= Threshold)
  BY ThresholdAssumption
<1>5. OpenIffThreshold
  BY <1>4 DEF Init, OpenIffThreshold
<1> QED
  BY <1>1, <1>3, <1>5 DEF IInv

\* The probe of a half-open circuit is issued alone.
LEMMA AcquireInv ==
  ASSUME IInv, NEW r \in Requests, Acquire(r)
  PROVE  IInv'
<1>1. TypeOK /\ SingleProbe /\ OpenIffThreshold
  BY DEF IInv
<1>2. /\ ticket[r] = "none" /\ probing' = open
      /\ ticket' = [ticket EXCEPT ![r] = IF probing' THEN "probe" ELSE "call"]
      /\ UNCHANGED <<failures, open, age>>
  BY <1>1 DEF Acquire, SingleProbe, TypeOK, circuit
<1>3. open => Probes = {}
  BY <1>1 DEF Acquire, Admits, SingleProbe
<1>4. TypeOK'
  BY <1>1, <1>2 DEF TypeOK
<1>5. Probes' = IF open THEN Probes \union {r} ELSE Probes
  BY <1>1, <1>2 DEF Probes, TypeOK
<1>6. SingleProbe'
  <2>1. CASE open
    <3>1. Probes' = {r}
      BY <1>3, <1>5, <2>1
    <3> QED
      BY <1>2, <2>1, <3>1 DEF SingleProbe
  <2>2. CASE ~open
    BY <1>1, <1>2, <1>5, <2>2 DEF SingleProbe, TypeOK
  <2> QED
    BY <2>1, <2>2
<1>7. OpenIffThreshold'
  BY <1>1, <1>2 DEF OpenIffThreshold
<1> QED
  BY <1>4, <1>6, <1>7 DEF IInv

\* What finish does whatever the outcome: the place of the probe is freed by the
\* probe and by no other ticket.
LEMMA SettleStep ==
  ASSUME IInv, NEW r \in Requests, Settle(r)
  PROVE  /\ ticket' \in [Requests -> {"none", "call", "probe"}]
         /\ probing' \in BOOLEAN
         /\ Probes' = Probes \ {r}
         /\ probing' <=> Probes' # {}
         /\ \A p, q \in Probes' : p = q
         /\ ticket[r] = "probe" => open /\ ~probing'
         /\ probing' => probing
<1>1. TypeOK /\ SingleProbe
  BY DEF IInv
<1>2. /\ ticket' = [ticket EXCEPT ![r] = "none"]
      /\ probing' = (probing /\ ticket[r] # "probe")
  BY DEF Settle
<1>3. ticket' \in [Requests -> {"none", "call", "probe"}] /\ probing' \in BOOLEAN
  BY <1>1, <1>2 DEF TypeOK
<1>4. Probes' = Probes \ {r}
  BY <1>1, <1>2 DEF Probes, TypeOK
<1>5. ticket[r] = "probe" <=> r \in Probes
  BY DEF Probes
<1>6. probing' <=> Probes' # {}
  <2>1. CASE r \in Probes
    BY <1>1, <1>2, <1>4, <1>5, <2>1 DEF SingleProbe
  <2>2. CASE r \notin Probes
    <3>1. Probes' = Probes
      BY <1>4, <2>2
    <3> QED
      BY <1>1, <1>2, <1>5, <2>2, <3>1 DEF SingleProbe
  <2> QED
    BY <2>1, <2>2
<1>7. \A p, q \in Probes' : p = q
  BY <1>1, <1>4 DEF SingleProbe
<1>8. ticket[r] = "probe" => open /\ ~probing'
  BY <1>1, <1>2, <1>5 DEF SingleProbe
<1>9. probing' => probing
  BY <1>2
<1> QED
  BY <1>3, <1>4, <1>6, <1>7, <1>8, <1>9

\* The three ways of finishing a ticket.
LEMMA FinishInv ==
  ASSUME IInv, NEW r \in Requests, Success(r) \/ Failure(r) \/ Release(r)
  PROVE  IInv'
<1> USE ThresholdAssumption, ResetAssumption
<1>1. TypeOK /\ SingleProbe /\ OpenIffThreshold
  BY DEF IInv
<1>2. Settle(r)
  BY DEF Success, Failure, Release
<1>3. /\ ticket' \in [Requests -> {"none", "call", "probe"}]
      /\ probing' \in BOOLEAN
      /\ probing' <=> Probes' # {}
      /\ \A p, q \in Probes' : p = q
      /\ ticket[r] = "probe" => open /\ ~probing'
      /\ probing' => probing
  BY <1>2, SettleStep
<1>4. CASE Success(r)
  <2>1. CASE ticket[r] = "probe" \/ ~open
    <3>1. failures' = 0 /\ open' = FALSE /\ age' = 0
      BY <1>4, <2>1 DEF Success
    <3>2. ~probing'
      BY <1>1, <1>3, <2>1 DEF SingleProbe
    <3>3. 0 \in 0..Threshold /\ 0 \in 0..Reset /\ ~(0 >= Threshold)
      OBVIOUS
    <3>4. TypeOK'
      BY <1>3, <3>1, <3>3 DEF TypeOK
    <3>5. SingleProbe'
      BY <1>3, <3>2 DEF SingleProbe
    <3>6. OpenIffThreshold'
      BY <3>1, <3>3 DEF OpenIffThreshold
    <3> QED
      BY <3>4, <3>5, <3>6 DEF IInv
  <2>2. CASE ~(ticket[r] = "probe" \/ ~open)
    <3>1. UNCHANGED <<failures, open, age>>
      BY <1>4, <2>2 DEF Success, circuit
    <3> QED
      BY <1>1, <1>3, <2>2, <3>1 DEF IInv, TypeOK, SingleProbe, OpenIffThreshold
  <2> QED
    BY <2>1, <2>2
<1>5. CASE Failure(r)
  <2>1. failures' = IF failures < Threshold THEN failures + 1 ELSE failures
    BY <1>5 DEF Failure
  <2>2. failures' \in 0..Threshold
    BY <1>1, <2>1 DEF TypeOK
  <2>3. CASE ticket[r] = "probe" \/ failures + 1 >= Threshold
    <3>1. open' = TRUE /\ age' = 0
      BY <1>5, <2>3 DEF Failure
    <3>2. failures' >= Threshold
      BY <1>1, <1>3, <2>1, <2>3 DEF TypeOK, OpenIffThreshold
    <3> QED
      BY <1>3, <2>2, <3>1, <3>2 DEF IInv, TypeOK, SingleProbe, OpenIffThreshold
  <2>4. CASE ~(ticket[r] = "probe" \/ failures + 1 >= Threshold)
    <3>1. UNCHANGED <<open, age>>
      BY <1>5, <2>4 DEF Failure
    <3>2. ~open /\ ~(failures' >= Threshold)
      BY <1>1, <2>1, <2>4 DEF TypeOK, OpenIffThreshold
    <3> QED
      BY <1>1, <1>3, <2>2, <3>1, <3>2
      DEF IInv, TypeOK, SingleProbe, OpenIffThreshold
  <2> QED
    BY <2>3, <2>4
<1>6. CASE Release(r)
  <2>1. UNCHANGED <<failures, open, age>>
    BY <1>6 DEF Release, circuit
  <2> QED
    BY <1>1, <1>3, <2>1 DEF IInv, TypeOK, SingleProbe, OpenIffThreshold
<1> QED
  BY <1>4, <1>5, <1>6

LEMMA NextInv == IInv /\ [Next]_vars => IInv'
<1> SUFFICES ASSUME IInv, [Next]_vars PROVE IInv'
  OBVIOUS
<1>1. CASE UNCHANGED vars
  BY <1>1 DEF vars, IInv, TypeOK, SingleProbe, OpenIffThreshold, Probes
<1>2. CASE Tick
  <2>1. /\ age \in 0..Reset /\ age' = age + 1 /\ age < Reset
        /\ UNCHANGED <<failures, open, probing, ticket>>
    BY <1>2 DEF Tick, IInv, TypeOK
  <2>2. age' \in 0..Reset
    BY <2>1, ResetAssumption
  <2> QED
    BY <2>1, <2>2 DEF IInv, TypeOK, SingleProbe, OpenIffThreshold, Probes
<1>3. ASSUME NEW r \in Requests,
             Refuse(r) \/ Acquire(r) \/ Success(r) \/ Failure(r) \/ Release(r)
      PROVE  IInv'
  BY <1>1, <1>3, AcquireInv, FinishInv DEF Refuse
<1> QED
  BY <1>1, <1>2, <1>3 DEF Next

\* The inductive invariant holds of every behaviour of CircuitBreaker.
THEOREM Invariance == Spec => []IInv
<1> QED
  BY InitInv, NextInv, PTL DEF Spec

\* The variables keep their types.
THEOREM TypeCorrect == Spec => []TypeOK
<1>1. IInv => TypeOK
  BY DEF IInv
<1> QED
  BY <1>1, Invariance, PTL

\* Half-open lets one call through, however late other calls finish.
THEOREM ProbeIsSingle == Spec => []SingleProbe
<1>1. IInv => SingleProbe
  BY DEF IInv
<1> QED
  BY <1>1, Invariance, PTL

\* The circuit is open exactly at the threshold.
THEOREM OpenAtThreshold == Spec => []OpenIffThreshold
<1>1. IInv => OpenIffThreshold
  BY DEF IInv
<1> QED
  BY <1>1, Invariance, PTL

\* CircuitTicket.finish("success") closes an open circuit for its probe only.
THEOREM OnlyProbesClose == Spec => ClosedByProbeOnly
<1> DEFINE Closing == open /\ ~open' =>
                        \E r \in Probes : ticket'[r] = "none" /\ ~probing'
<1>1. IInv /\ [Next]_vars => [Closing]_vars
  <2> SUFFICES ASSUME IInv, Next, open, ~open'
               PROVE  \E r \in Probes : ticket'[r] = "none" /\ ~probing'
    BY DEF vars
  <2>1. PICK r \in Requests : Success(r)
    BY DEF Next, Tick, Refuse, vars, Acquire, Failure, Release, circuit
  <2>2. ticket[r] = "probe"
    BY <2>1 DEF Success, circuit
  <2>3. ticket' = [ticket EXCEPT ![r] = "none"]
    BY <2>1 DEF Success, Settle
  <2>4. ~probing'
    BY <2>1, <2>2 DEF Success, Settle
  <2> QED
    BY <2>2, <2>3, <2>4 DEF Probes, IInv, TypeOK
<1> QED
  BY <1>1, Invariance, PTL DEF Spec, ClosedByProbeOnly
-------------------------------------------------------------------------------
\* With the history of the outcomes.

HInv == IInv /\ ConsecutiveFailures /\ streak \in 0..Threshold

\* The history only watches.
LEMMA HistoryWatches == HNext => Next
  BY DEF HNext, Next

\* A success that closes the circuit clears the count, and the circuit, once open,
\* counts nothing until then: so the count of a closed circuit is the run's.
LEMMA HNextInv == HInv /\ [HNext]_hvars => HInv'
<1> SUFFICES ASSUME HInv, [HNext]_hvars PROVE HInv'
  OBVIOUS
<1> USE ThresholdAssumption
<1>1. CASE UNCHANGED hvars
  <2>1. IInv'
    BY <1>1, NextInv DEF hvars, HInv
  <2> QED
    BY <1>1, <2>1 DEF hvars, vars, HInv, ConsecutiveFailures
<1>2. CASE HNext
  <2>1. IInv'
    BY <1>2, HistoryWatches, NextInv DEF HInv
  <2>2. TypeOK /\ OpenIffThreshold /\ ConsecutiveFailures /\ streak \in 0..Threshold
    BY DEF HInv, IInv
  <2>3. CASE UNCHANGED streak /\ UNCHANGED <<failures, open>>
    BY <2>1, <2>2, <2>3 DEF HInv, ConsecutiveFailures
  <2>4. ASSUME NEW r \in Requests, Success(r), streak' = 0
        PROVE  HInv'
    <3>1. failures' = 0 \/ open'
      BY <2>2, <2>4 DEF Success, TypeOK, circuit
    <3>2. 0 \in 0..Threshold
      OBVIOUS
    <3> QED
      BY <2>1, <2>4, <3>1, <3>2 DEF HInv, ConsecutiveFailures
  <2>5. ASSUME NEW r \in Requests, Failure(r),
               streak' = IF streak < Threshold THEN streak + 1 ELSE streak
        PROVE  HInv'
    <3>1. streak' \in 0..Threshold
      BY <2>2, <2>5
    <3>2. ~open' => ~open /\ failures' = failures + 1 /\ failures < Threshold
      BY <2>2, <2>5 DEF Failure, TypeOK, OpenIffThreshold
    <3>3. ConsecutiveFailures'
      BY <2>2, <2>5, <3>2 DEF ConsecutiveFailures
    <3> QED
      BY <2>1, <3>1, <3>3 DEF HInv
  <2> QED
    BY <1>2, <2>3, <2>4, <2>5
    DEF HNext, Tick, Refuse, Acquire, Release, circuit, vars
<1> QED
  BY <1>1, <1>2

\* A closed circuit counts the failures since the last success, however calls and
\* their outcomes overlap: only the success of a ticket starts the count again, and
\* a cancelled one leaves it as it is.
THEOREM FailuresAreConsecutive == HSpec => []ConsecutiveFailures
<1>1. HInit => HInv
  <2> SUFFICES ASSUME HInit PROVE HInv
    OBVIOUS
  <2>1. IInv
    BY InitInv DEF HInit
  <2>2. streak = 0 /\ failures = 0 /\ 0 \in 0..Threshold
    BY ThresholdAssumption DEF HInit, Init
  <2> QED
    BY <2>1, <2>2 DEF HInv, ConsecutiveFailures
<1>2. HInv => ConsecutiveFailures
  BY DEF HInv
<1> QED
  BY <1>1, <1>2, HNextInv, PTL DEF HSpec
===============================================================================
