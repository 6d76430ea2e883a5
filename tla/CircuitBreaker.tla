---------------------------- MODULE CircuitBreaker ----------------------------
(*****************************************************************************)
(* serving_lab/controls.py, classes CircuitBreaker and CircuitTicket: the    *)
(* circuit of one model alias.  Every method runs without suspending, so a   *)
(* method call is a step; what is concurrent are the calls themselves, which *)
(* hold their tickets for as long as they like and may finish long after the *)
(* circuit has opened, or has been probed and closed again.                  *)
(*                                                                           *)
(* Two counters are cut where the code stops telling their values apart, so  *)
(* nothing is lost: `failures` is only compared with the threshold, and the  *)
(* time since `opened_at` only with reset_seconds.                           *)
(*****************************************************************************)
EXTENDS Naturals, FiniteSets

CONSTANTS Requests,   \* calls that may ask for a ticket
          Threshold,  \* CircuitBreaker.threshold
          Reset       \* CircuitBreaker.reset_seconds, in ticks of the clock

ASSUME ThresholdAssumption == Threshold \in Nat \ {0}
ASSUME ResetAssumption == Reset \in Nat \ {0}

VARIABLES failures,   \* CircuitBreaker.failures, up to Threshold
          open,       \* opened_at is not None
          age,        \* clock() - opened_at, up to Reset; 0 when not open
          probing,    \* CircuitBreaker.probing
          ticket      \* ticket[r]: r's unfinished CircuitTicket, if any

circuit == <<failures, open, age>>
vars == <<failures, open, age, probing, ticket>>

Init ==
  /\ failures = 0
  /\ open = FALSE
  /\ age = 0
  /\ probing = FALSE
  /\ ticket = [r \in Requests |-> "none"]

\* Time passes for an open circuit.
Tick ==
  /\ open
  /\ age < Reset
  /\ age' = age + 1
  /\ UNCHANGED <<failures, open, probing, ticket>>

\* Mutant: only a running probe keeps calls out, not the hold-down.
AdmitsEarly == open => ~probing

\* acquire does not raise CircuitOpen.
Admits == open => ~probing /\ age >= Reset

Refuse(r) ==
  /\ ticket[r] = "none"
  /\ ~Admits
  /\ UNCHANGED vars

\* Mutant: an expired hold-down lets every call through, not one probe.
AcquireOpenly(r) ==
  /\ ticket[r] = "none"
  /\ Admits
  /\ ticket' = [ticket EXCEPT ![r] = IF open THEN "probe" ELSE "call"]
  /\ UNCHANGED <<failures, open, age, probing>>

\* A call through an open circuit is its probe.  The ticket copies `probing`.
Acquire(r) ==
  /\ ticket[r] = "none"
  /\ Admits
  /\ probing' = (open \/ probing)
  /\ ticket' = [ticket EXCEPT ![r] = IF probing' THEN "probe" ELSE "call"]
  /\ UNCHANGED circuit

\* What every CircuitTicket.finish does first; it does nothing twice.
Settle(r) ==
  /\ ticket[r] # "none"
  /\ ticket' = [ticket EXCEPT ![r] = "none"]
  /\ probing' = (probing /\ ticket[r] # "probe")

\* Mutant: any success closes the circuit.
SuccessAlwaysCloses(r) ==
  /\ Settle(r)
  /\ failures' = 0
  /\ open' = FALSE
  /\ age' = 0

\* Mutant: a success forgives one failure.
SuccessForgivesOne(r) ==
  /\ Settle(r)
  /\ IF ticket[r] = "probe" \/ ~open
     THEN failures' = failures - 1 /\ open' = FALSE /\ age' = 0
     ELSE UNCHANGED circuit

\* finish("success"): a call from before the circuit opened does not close it.
Success(r) ==
  /\ Settle(r)
  /\ IF ticket[r] = "probe" \/ ~open
     THEN failures' = 0 /\ open' = FALSE /\ age' = 0
     ELSE UNCHANGED circuit

\* Mutant: one failure too many is needed.
FailureLate(r) ==
  /\ Settle(r)
  /\ failures' = IF failures < Threshold THEN failures + 1 ELSE failures
  /\ IF ticket[r] = "probe" \/ failures >= Threshold
     THEN open' = TRUE /\ age' = 0
     ELSE UNCHANGED <<open, age>>

\* finish("failure"): at the threshold, and for a probe, the hold-down starts,
\* or starts again.
Failure(r) ==
  /\ Settle(r)
  /\ failures' = IF failures < Threshold THEN failures + 1 ELSE failures
  /\ IF ticket[r] = "probe" \/ failures + 1 >= Threshold
     THEN open' = TRUE /\ age' = 0
     ELSE UNCHANGED <<open, age>>

\* Mutant: a call that was cancelled counts as one that worked.
ReleaseResets(r) ==
  /\ Settle(r)
  /\ failures' = IF open THEN failures ELSE 0
  /\ UNCHANGED <<open, age>>

\* finish("cancelled"): the outcome says nothing about the backend.
Release(r) ==
  /\ Settle(r)
  /\ UNCHANGED circuit

Next ==
  \/ Tick
  \/ \E r \in Requests :
       Refuse(r) \/ Acquire(r) \/ Success(r) \/ Failure(r) \/ Release(r)

\* Time passes; nothing is assumed of the calls.
Spec == Init /\ [][Next]_vars /\ WF_vars(Tick)
-------------------------------------------------------------------------------
\* Properties.

TypeOK ==
  /\ failures \in 0..Threshold
  /\ open \in BOOLEAN
  /\ age \in 0..Reset
  /\ probing \in BOOLEAN
  /\ ticket \in [Requests -> {"none", "call", "probe"}]

Probes == {r \in Requests : ticket[r] = "probe"}

\* `probing` is true exactly while one unfinished ticket is the probe of an open
\* circuit: half-open lets one call through, and no finish, however late, frees
\* or keeps the place of another call's probe.
SingleProbe ==
  /\ probing <=> Probes # {}
  /\ \A p, q \in Probes : p = q
  /\ probing => open

\* The circuit is open exactly when the count stands at the threshold.
OpenIffThreshold == open <=> failures >= Threshold

\* Only the success of a probe closes an open circuit: an older call that was in
\* flight when it opened does not.
ClosedByProbeOnly ==
  [][open /\ ~open' =>
       \E r \in Probes : ticket'[r] = "none" /\ ~probing']_vars

\* An open circuit can be probed in the end: late failures of older calls start
\* the hold-down again, but only so many of them are left.
HoldDownEnds == open ~> (~open \/ age = Reset)
===============================================================================
