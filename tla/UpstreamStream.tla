---------------------------- MODULE UpstreamStream ----------------------------
(*****************************************************************************)
(* serving_lab/backends.py, VLLMBackend.open and OpenAIStream: how one model *)
(* call after another is opened, read line by line, and closed.              *)
(*                                                                           *)
(* External: the model server, which sends lines while the gateway does      *)
(* something else, hangs up or breaks off; httpx, which turns that into      *)
(* lines, the end of the lines or an HTTPError; and the gateway, which takes *)
(* pieces with `async for`, may be interrupted by its deadline, the client   *)
(* or the server at every await, and calls aclose once, at the end.  It does *)
(* not call anext again after the end, so OpenAIStream.finished, which only  *)
(* such a call would find true, is left out.  The client of a call is in it  *)
(* only as one that takes what it is sent, or goes, or as one that does      *)
(* neither and so holds up every send.                                       *)
(*                                                                           *)
(* A line is one of a few kinds; pieces are counted.                         *)
(*****************************************************************************)
EXTENDS Naturals, Sequences

CONSTANTS MaxUnread,  \* bound: lines that have arrived and are not read
          MaxPieces   \* bound: pieces of one answer

ASSUME MaxUnreadAssumption == MaxUnread \in Nat \ {0}
ASSUME MaxPiecesAssumption == MaxPieces \in Nat \ {0}

VARIABLES
  phase,     \* the await at which the call stands
  result,    \* how open or the stream ended
  response,  \* the httpx response
  stream,    \* open has returned a stream
  reads,     \* the client takes what it is sent, or goes away
  wire,      \* lines that have arrived and are not read
  server,    \* the model server: "sending", "gone", or "broken"
  said, told, got,   \* as in ModelStream
  faulty     \* the model server has not kept to the protocol in this answer

reader == <<phase, result, response, stream, reads, got>>
model == <<wire, server, said, told, faulty>>
vars == <<reader, model>>

\* Lines that are no event of the protocol: one whose `choices` is an object, and
\* all others that are not JSON or not of its shape down to the content, whose own
\* type the code does not look at.
Malformed == {"object", "garbage"}

\* Lines that are not "data:" or are an event without content; events with a
\* content that is true in Python, a string or not; [DONE], and events with an
\* "error".
Line == {"comment", "empty", "text", "done", "error"} \union Malformed

Results == {"end", "backend", "transport", "timeout", "cancelled", "crash"}

Init ==
  /\ phase = "idle"
  /\ result = "none"
  /\ response = "none"
  /\ stream = FALSE
  /\ reads = FALSE
  /\ wire = <<>>
  /\ server = "sending"
  /\ said = 0
  /\ told = FALSE
  /\ got = 0
  /\ faulty = FALSE
-------------------------------------------------------------------------------
\* The model server.

\* A line arrives.
Send(l) ==
  /\ phase # "idle" /\ response = "open" /\ server = "sending"
  /\ Len(wire) < MaxUnread
  /\ ~told
  /\ wire' = Append(wire, l)
  /\ said' = IF l = "text" THEN said + 1 ELSE said
  /\ said' <= MaxPieces
  /\ told' = (l = "done")
  /\ faulty' = (faulty \/ l \in Malformed \union {"error"})
  /\ UNCHANGED <<reader, server>>

HangUp ==
  /\ phase # "idle" /\ response = "open" /\ server = "sending"
  /\ server' = "gone"
  /\ faulty' = (faulty \/ ~told)
  /\ UNCHANGED <<reader, wire, said, told>>

\* The connection breaks, or nothing has come for the client's read timeout.
BreakOff ==
  /\ phase # "idle" /\ response = "open" /\ server = "sending"
  /\ server' = "broken"
  /\ faulty' = TRUE
  /\ UNCHANGED <<reader, wire, said, told>>
-------------------------------------------------------------------------------
\* VLLMBackend.open.

Open ==
  /\ phase = "idle"
  /\ phase' = "opening"
  /\ result' = "none"
  /\ response' = "none"
  /\ stream' = FALSE
  /\ reads' \in BOOLEAN
  /\ wire' = <<>>
  /\ server' = "sending"
  /\ said' = 0
  /\ told' = FALSE
  /\ got' = 0
  /\ faulty' = FALSE

EndWith(r) == phase' = "over" /\ result' = r

\* client.send raises: no response.  On a client that is closed already it
\* raises RuntimeError, which nobody expects.
SendFails(r) ==
  /\ phase = "opening"
  /\ r \in {"transport", "timeout", "crash"}
  /\ EndWith(r)
  /\ faulty' = (faulty \/ r = "transport")
  /\ UNCHANGED <<response, stream, reads, wire, server, said, told, got>>

\* A 200 with an event stream.  The gateway sends its own headers before it asks for
\* the first piece.
Accept ==
  /\ phase = "opening"
  /\ response' = "open"
  /\ stream' = TRUE
  /\ phase' = "passing"
  /\ UNCHANGED <<result, reads, got, model>>

\* Mutant: the refused response is left to itself.
RefuseOnly ==
  /\ phase = "opening"
  /\ response' = "open"
  /\ EndWith("backend")
  /\ faulty' = TRUE
  /\ UNCHANGED <<stream, reads, got, wire, server, said, told>>

\* Any other response is closed before the BackendError goes on.
Refuse ==
  /\ phase = "opening"
  /\ response' = "open"
  /\ phase' = "refusing"
  /\ faulty' = TRUE
  /\ UNCHANGED <<result, stream, reads, got, wire, server, said, told>>

\* The response of a refusal is closed; an error of that replaces the refusal.
Refused ==
  /\ phase = "refusing"
  /\ \/ response' = "closed" /\ EndWith("backend")
     \/ response' = "abandoned" /\ EndWith("transport")
  /\ UNCHANGED <<stream, reads, got, model>>
-------------------------------------------------------------------------------
\* OpenAIStream.__anext__.

\* Mutant: an event without choices is not expected.
ParseNeedsChoices ==
  [comment |-> "skip", empty |-> "backend",
   text |-> "piece", done |-> "end",
   error |-> "backend", garbage |-> "backend", object |-> "crash"]

\* Mutant: `is not None` instead of the truth of the content.
ParseEmptyPieces ==
  [comment |-> "skip", empty |-> "piece",
   text |-> "piece", done |-> "end",
   error |-> "backend", garbage |-> "backend", object |-> "crash"]

\* What a line makes of anext.  Any content that is true is a piece.  `choices[0]` of
\* an object raises KeyError, which is not among the errors of a malformed event.
Parse ==
  [comment |-> "skip", empty |-> "skip",
   text |-> "piece", done |-> "end",
   error |-> "backend", garbage |-> "backend", object |-> "crash"]

ReadLine ==
  /\ phase = "reading"
  /\ wire # <<>>
  /\ wire' = Tail(wire)
  /\ LET p == Parse[Head(wire)] IN
       \/ p = "skip" /\ UNCHANGED <<phase, result, got>>
       \/ p = "piece" /\ phase' = "passing" /\ got' = got + 1 /\ UNCHANGED result
       \/ p \in Results /\ EndWith(p) /\ UNCHANGED got
  /\ UNCHANGED <<response, stream, reads, server, said, told, faulty>>

\* Mutant: the end of the lines is taken for the end of the answer.
EndOfLinesIsEnd ==
  /\ phase = "reading" /\ wire = <<>> /\ server = "gone"
  /\ response' = "closed"
  /\ EndWith("end")
  /\ UNCHANGED <<stream, reads, got, model>>

\* The lines end without [DONE]; httpx closes the response.
Truncated ==
  /\ phase = "reading" /\ wire = <<>> /\ server = "gone"
  /\ response' = "closed"
  /\ EndWith("backend")
  /\ UNCHANGED <<stream, reads, got, model>>

\* Lines that have arrived may be lost with the connection.
ReadFails ==
  /\ phase = "reading" /\ server = "broken"
  /\ \E r \in {"transport", "timeout"} : EndWith(r)
  /\ UNCHANGED <<response, stream, reads, got, model>>

\* The headers, or a piece, have been passed on: the gateway asks for a piece.
AskNext ==
  /\ phase = "passing"
  /\ phase' = "reading"
  /\ UNCHANGED <<result, response, stream, reads, got, model>>

\* The deadline is on the model call and on the sends of pieces, not on that of the
\* headers.
UnderDeadline ==
  phase \in {"opening", "refusing", "reading"} \/ (phase = "passing" /\ got > 0)

\* The deadline fires, or the request is cancelled.  An interrupted close of a
\* refused response may leave it open.
Interrupt(r) ==
  /\ phase \in {"opening", "refusing", "reading", "passing"}
  /\ r = "timeout" => UnderDeadline
  /\ EndWith(r)
  /\ response' = IF phase = "refusing" THEN "abandoned" ELSE response
  /\ UNCHANGED <<stream, reads, got, model>>

\* Invocation.close: OpenAIStream.aclose, if open has returned a stream.
Close ==
  /\ phase = "over"
  /\ phase' = "idle"
  /\ response' = IF stream THEN "closed" ELSE response
  /\ UNCHANGED <<result, stream, reads, got, model>>

\* aclose is cut off after a second, or fails.
CutOff ==
  /\ phase = "over"
  /\ stream /\ response = "open"
  /\ phase' = "idle"
  /\ response' = "abandoned"
  /\ UNCHANGED <<result, stream, reads, got, model>>

Call ==
  \/ Open \/ Accept \/ Refuse \/ Refused
  \/ \E r \in {"transport", "timeout", "crash"} : SendFails(r)
  \/ ReadLine \/ Truncated \/ ReadFails \/ AskNext
  \/ \E r \in {"timeout", "cancelled"} : Interrupt(r)
  \/ Close \/ CutOff

Next == (\E l \in Line : Send(l)) \/ HangUp \/ BreakOff \/ Call

\* A send ends, or the client goes away while it lasts.
SendEnds == phase = "passing" /\ (AskNext \/ Interrupt("cancelled"))

\* The deadline fires where it applies.  Whatever is sent outside of it (the headers,
\* and the error event and the final body before the cleanup) goes on only for
\* a client that reads or goes; then the cleanup ends or is cut off.  Nothing is
\* assumed of the model server.
Fairness ==
  /\ WF_vars(Interrupt("timeout"))
  /\ WF_vars(reads /\ SendEnds)
  /\ WF_vars(reads /\ (Close \/ CutOff))

Spec == Init /\ [][Next]_vars /\ Fairness
-------------------------------------------------------------------------------
\* Properties.

\* Nothing is taken that the model did not say.
TypeOK ==
  /\ phase \in {"idle", "opening", "refusing", "reading", "passing", "over"}
  /\ result \in Results \union {"none"}
  /\ response \in {"none", "open", "closed", "abandoned"}
  /\ stream \in BOOLEAN
  /\ reads \in BOOLEAN
  /\ wire \in Seq(Line)
  /\ server \in {"sending", "gone", "broken"}
  /\ said \in 0..MaxPieces
  /\ told \in BOOLEAN
  /\ got \in 0..said
  /\ faulty \in BOOLEAN

\* Between calls no response is open, whether it was refused, read to the end,
\* broken off or interrupted, unless its cleanup was cut off.
ResponsesClosed == phase = "idle" => response # "open"

\* "Consecutive backend failures open the circuit": a call ends with BackendError or
\* an error of the connection only if the model server has not kept to the protocol,
\* whatever comments, empty events and pauses come between its pieces.  It says
\* nothing of the other failure that the circuit counts, the timeout, which a slow
\* client can bring about; nor that every fault is counted, see MalformedIsFailure.
HealthyModelNotBlamed == result \in {"backend", "transport"} => faulty

\* An answer is complete only if the model said so and all of its pieces have been
\* taken; whatever else happens it has failed; and it ends and is released if its
\* client reads or goes away.
Answer == INSTANCE ModelStream WITH
            state <- IF phase = "idle" THEN "idle"
                     ELSE IF result = "none" THEN "open"
                     ELSE IF result = "end" THEN "complete" ELSE "failed"

StreamSpec == Answer!Spec

\* "A network/HTTP/malformed-stream failure increments the backend circuit": a
\* malformed event that is read ends the call as the backend's failure.
MalformedIsFailure ==
  [][phase = "reading" /\ wire # <<>> /\ wire' = Tail(wire) /\ Head(wire) \in Malformed
       => result' = "backend"]_vars
===============================================================================
