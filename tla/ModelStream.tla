------------------------------ MODULE ModelStream ------------------------------
(*****************************************************************************)
(* What a backend promises to the gateway about one answer after another:    *)
(* pieces come as the model generates them, an answer is complete only when  *)
(* the model says so and all of it has been taken, anything else is a        *)
(* failure, and an answer to a client that reads ends and is released.       *)
(* serving_lab/backends.py's VLLMBackend (UpstreamStream) and OfflineBackend *)
(* (OfflineStream) implement it.                                             *)
(*****************************************************************************)
EXTENDS Naturals

VARIABLES state,  \* "idle", "open", "complete" or "failed"
          said,   \* pieces the model has generated
          told,   \* the model has said that there are no more
          got,    \* pieces the gateway has taken
          reads   \* the client takes what it is sent, or goes away

vars == <<state, said, told, got, reads>>

Init == state = "idle" /\ said = 0 /\ told = FALSE /\ got = 0 /\ reads = FALSE

\* A model may have generated part of an answer, or all of it, at once.
Open ==
  /\ state = "idle"
  /\ state' = "open"
  /\ said' \in Nat
  /\ told' \in BOOLEAN
  /\ got' = 0
  /\ reads' \in BOOLEAN

\* The model goes on whether or not anybody still listens.
Generate ==
  /\ ~told
  /\ said' = said + 1
  /\ UNCHANGED <<state, told, got, reads>>

Conclude ==
  /\ ~told
  /\ told' = TRUE
  /\ UNCHANGED <<state, said, got, reads>>

Take ==
  /\ state = "open"
  /\ got < said
  /\ got' = got + 1
  /\ UNCHANGED <<state, said, told, reads>>

Complete ==
  /\ state = "open"
  /\ told
  /\ got = said
  /\ state' = "complete"
  /\ UNCHANGED <<said, told, got, reads>>

Fail ==
  /\ state = "open"
  /\ state' = "failed"
  /\ UNCHANGED <<said, told, got, reads>>

Release ==
  /\ state \in {"complete", "failed"}
  /\ state' = "idle"
  /\ UNCHANGED <<said, told, got, reads>>

Next == Open \/ Generate \/ Conclude \/ Take \/ Complete \/ Fail \/ Release

\* Every answer to a client that reads, or goes, ends and is released.  Nothing is
\* promised of one to a client that does neither.
Fairness == WF_vars(reads /\ (Complete \/ Fail)) /\ WF_vars(reads /\ Release)

Spec == Init /\ [][Next]_vars /\ Fairness
===============================================================================
