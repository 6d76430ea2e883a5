--------------------------- MODULE MCCircuitBreaker ---------------------------
(*****************************************************************************)
(* CircuitBreaker for TLC, with a history of the outcomes: the length of the *)
(* run of failures since the last success, whatever the circuit did then.    *)
(*****************************************************************************)
EXTENDS CircuitBreaker

VARIABLE streak       \* failures since the last success, up to Threshold

hvars == <<vars, streak>>

HInit == Init /\ streak = 0

HNext ==
  \/ Tick /\ UNCHANGED streak
  \/ \E r \in Requests :
       \/ (Refuse(r) \/ Acquire(r) \/ Release(r)) /\ UNCHANGED streak
       \/ Success(r) /\ streak' = 0
       \/ Failure(r) /\ streak' = IF streak < Threshold THEN streak + 1 ELSE streak

HSpec == HInit /\ [][HNext]_hvars /\ WF_hvars(Tick /\ UNCHANGED streak)

\* A closed circuit counts consecutive failures: the ones that finished since
\* the last success, neither fewer nor more.  Cancelled calls do not count and
\* do not interrupt the run.
ConsecutiveFailures == ~open => failures = streak
===============================================================================
