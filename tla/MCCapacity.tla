------------------------------ MODULE MCCapacity ------------------------------
(*****************************************************************************)
(* Capacity for TLC.  A request waits beside a free permit when a second     *)
(* permit is released while the new owner of the first one has yet to run;   *)
(* with three permits, two requests can come to wait beside two free ones,   *)
(* and one resumption wakes both.  Four requests do for that: two of the     *)
(* three that released come back to wait.                                    *)
(*****************************************************************************)
EXTENDS Capacity
===============================================================================
