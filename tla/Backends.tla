-------------------------------- MODULE Backends --------------------------------
(*****************************************************************************)
(* serving_lab/app.py, lifespan: the backend of a model alias, a model       *)
(* server's or the offline one as Settings.mode says.  The gateway must not  *)
(* be able to tell which: the properties of UpstreamStream are checked of    *)
(* both.                                                                     *)
(*****************************************************************************)
EXTENDS UpstreamStream

VARIABLES mode,      \* Settings.mode
          failAfter  \* of OfflineStream

bvars == <<vars, mode, failAfter>>

Offline == INSTANCE OfflineStream

BackendsInit == Init /\ Offline!Init /\ mode \in {"vllm", "offline"}

BackendsNext ==
  /\ \/ mode = "vllm" /\ Next /\ UNCHANGED failAfter
     \/ mode = "offline" /\ Offline!Next /\ UNCHANGED <<stream, wire, server>>
  /\ UNCHANGED mode

BackendsFairness ==
  \/ mode = "vllm" /\ Fairness
  \/ mode = "offline" /\ Offline!Fairness

BackendsSpec == BackendsInit /\ [][BackendsNext]_bvars /\ BackendsFairness
===============================================================================
