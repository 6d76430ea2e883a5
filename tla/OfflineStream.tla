----------------------------- MODULE OfflineStream -----------------------------
(*****************************************************************************)
(* serving_lab/backends.py, OfflineBackend and OfflineStream: the stand-in   *)
(* for a model, one call after another.  An answer is all there from the     *)
(* start; its pieces are delayed, and a caller may ask that it fail after    *)
(* some of them (Fault.fail_after).                                          *)
(*                                                                           *)
(* External: the gateway, as in UpstreamStream.  `closed` is left out, which *)
(* only a call after aclose would find true.                                 *)
(*****************************************************************************)
EXTENDS Naturals

CONSTANT MaxPieces  \* bound: words of a text

VARIABLES
  phase,     \* the await at which the call stands
  result,    \* how the stream ended
  response,  \* the stream, "open" as long as it is among backend.open_streams
  said, told, got,  \* len(pieces), that there are no more, and index
  reads,     \* as in UpstreamStream
  failAfter, \* OfflineStream.fail_after, MaxPieces + 1 for None
  faulty     \* the failure asked for comes before the end

answer == <<response, reads, said, told, failAfter, faulty>>
vars == <<phase, result, got, answer>>

Init ==
  /\ phase = "idle"
  /\ result = "none"
  /\ response = "none"
  /\ reads = FALSE
  /\ said = 0
  /\ told = FALSE
  /\ got = 0
  /\ failAfter = MaxPieces + 1
  /\ faulty = FALSE

\* OfflineBackend.open does not suspend.  The gateway sends its headers next.
Open(n, f) ==
  /\ phase = "idle"
  /\ phase' = "passing"
  /\ result' = "none"
  /\ response' = "open"
  /\ reads' \in BOOLEAN
  /\ said' = n
  /\ told' = TRUE
  /\ got' = 0
  /\ failAfter' = f
  /\ faulty' = (f <= n)

\* The gateway asks for a piece; anext goes to sleep.
AskNext ==
  /\ phase = "passing"
  /\ phase' = "reading"
  /\ UNCHANGED <<result, got, answer>>

EndWith(r) == phase' = "over" /\ result' = r

\* The sleep is over.  At the end of the pieces a failure asked for comes first.
Wake ==
  /\ phase = "reading"
  /\ \/ got >= failAfter /\ EndWith("backend") /\ UNCHANGED got
     \/ got < failAfter /\ got >= said /\ EndWith("end") /\ UNCHANGED got
     \/ /\ got < failAfter /\ got < said
        /\ got' = got + 1
        /\ phase' = "passing"
        /\ UNCHANGED result
  /\ UNCHANGED answer

\* The deadline is on the sleep and on the sends of pieces, not on that of the headers.
UnderDeadline == phase = "reading" \/ (phase = "passing" /\ got > 0)

\* The deadline fires, or the request is cancelled.
Interrupt(r) ==
  /\ phase \in {"passing", "reading"}
  /\ r = "timeout" => UnderDeadline
  /\ EndWith(r)
  /\ UNCHANGED <<got, answer>>

\* Invocation.close: aclose does not suspend, so nothing cuts it off.
Close ==
  /\ phase = "over"
  /\ phase' = "idle"
  /\ response' = "closed"
  /\ UNCHANGED <<result, reads, said, told, got, failAfter, faulty>>

Next ==
  \/ \E n \in 1..MaxPieces, f \in 0..MaxPieces + 1 : Open(n, f)
  \/ AskNext \/ Wake \/ Close
  \/ \E r \in {"timeout", "cancelled"} : Interrupt(r)

\* A send ends, or the client goes away while it lasts.
SendEnds == phase = "passing" /\ (AskNext \/ Interrupt("cancelled"))

\* Timers fire: those of the sleep and of the deadline.  What is sent outside of the
\* deadline goes on only for a client that reads or goes, as in UpstreamStream.
Fairness ==
  /\ WF_vars(Wake)
  /\ WF_vars(Interrupt("timeout"))
  /\ WF_vars(reads /\ SendEnds)
  /\ WF_vars(reads /\ Close)

Spec == Init /\ [][Next]_vars /\ Fairness
===============================================================================
