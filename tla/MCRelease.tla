------------------------------- MODULE MCRelease -------------------------------
(*****************************************************************************)
(* Release for TLC, with a history: whether the last attempt that got beyond *)
(* its checks left the project in a state that it vouched for.               *)
(*****************************************************************************)
EXTENDS Release

\* An upgrade within a profile, a change of profile and a change of ports.
SomeReleases ==
  {[image |-> "old", profile |-> "cpu", ports |-> 1],
   [image |-> "new", profile |-> "cpu", ports |-> 1],
   [image |-> "new", profile |-> "gpu", ports |-> 1],
   [image |-> "new", profile |-> "cpu", ports |-> 2]}

VARIABLE vouched

hvars == <<vars, vouched>>

HInit == Init /\ vouched = TRUE

Vouched(d) ==
  IF pc[d] = "dead" \/ result[d] \in {"attention", "escaped"} THEN FALSE
  ELSE result[d] \in {"verified", "restored", "stopped"} \/ vouched

HNext ==
  /\ Next
  /\ vouched' = IF \E d \in Deployers : lock = d /\ lock' = "free"
                THEN \E d \in Deployers : lock = d /\ Vouched(d)
                ELSE vouched

HSpec == HInit /\ [][HNext]_hvars /\ Fairness

\* Between attempts the project runs what the record says, although each attempt
\* may have failed at any point: only one that was killed or interrupted, or whose
\* rollback failed, leaves another state behind, and the next attempt that ends
\* well makes up for it.
RunsTheRecord == lock = "free" /\ vouched => Runs(record)
===============================================================================
