------------------------------ MODULE MCBackends ------------------------------
(*****************************************************************************)
(* Backends for TLC.  With three pieces and three unread lines, the model    *)
(* server can be ahead of the reader by a piece, an event that is not one    *)
(* and the end.                                                              *)
(*****************************************************************************)
EXTENDS Backends
===============================================================================
