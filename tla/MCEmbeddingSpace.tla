--------------------------- MODULE MCEmbeddingSpace ---------------------------
(*****************************************************************************)
(* EmbeddingSpace for TLC.  Three calls at once: two that initialise, or one *)
(* that does and the other done, beside one that stores or searches.  Two    *)
(* models and two dimensions, so that settings may differ in either.         *)
(*****************************************************************************)
EXTENDS EmbeddingSpace
===============================================================================
