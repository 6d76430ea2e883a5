---------------------------- MODULE UpstreamProofs ----------------------------
(*****************************************************************************)
(* The safety of UpstreamStream, for every number of pieces and however far  *)
(* the model server gets ahead of its reader; and that every step of it is a *)
(* step of ModelStream.  Then the same of Backends, where the mode says      *)
(* whether UpstreamStream or OfflineStream answers.                          *)
(*****************************************************************************)
EXTENDS Backends, FiniteSets, FiniteSetTheorems, SequenceTheorems, TLAPS

\* The pieces that have arrived and are not read.
TextsIn(w) == {i \in 1..Len(w) : w[i] = "text"}
Texts(w) == Cardinality(TextsIn(w))

LEMMA TextsFinite ==
  ASSUME NEW w \in Seq(Line)
  PROVE  IsFiniteSet(TextsIn(w)) /\ Texts(w) \in Nat
<1>1. IsFiniteSet(1..Len(w)) /\ TextsIn(w) \subseteq 1..Len(w)
  BY FS_Interval DEF TextsIn
<1> QED
  BY <1>1, FS_Subset, FS_CardinalityType DEF Texts

LEMMA TextsEmpty == Texts(<<>>) = 0
<1>1. TextsIn(<<>>) = {}
  BY DEF TextsIn
<1> QED
  BY <1>1, FS_EmptySet DEF Texts

LEMMA TextsAppend ==
  ASSUME NEW w \in Seq(Line), NEW l \in Line
  PROVE  Texts(Append(w, l)) = IF l = "text" THEN Texts(w) + 1 ELSE Texts(w)
<1>1. Len(w) + 1 \notin TextsIn(w)
  BY DEF TextsIn
<1>2. TextsIn(Append(w, l)) = IF l = "text" THEN TextsIn(w) \union {Len(w) + 1}
                                            ELSE TextsIn(w)
  BY DEF TextsIn
<1> QED
  BY <1>1, <1>2, TextsFinite, FS_AddElement DEF Texts

LEMMA TextsTail ==
  ASSUME NEW w \in Seq(Line), w # <<>>
  PROVE  Texts(w) = IF Head(w) = "text" THEN Texts(Tail(w)) + 1
                                        ELSE Texts(Tail(w))
<1> DEFINE T == TextsIn(Tail(w))
           S == TextsIn(w) \ {1}
           f == [i \in T |-> i + 1]
<1>1. /\ Tail(w) \in Seq(Line) /\ Len(Tail(w)) = Len(w) - 1
      /\ Len(w) \in Nat \ {0} /\ Head(w) = w[1]
      /\ \A i \in 1..Len(w) - 1 : Tail(w)[i] = w[i + 1]
  BY HeadTailProperties
<1>2. \A i \in T : i \in 1..Len(w) - 1 /\ i + 1 \in S
  BY <1>1 DEF TextsIn
<1>3. \A j \in S : j - 1 \in T /\ (j - 1) + 1 = j
  BY <1>1 DEF TextsIn
<1>4. f \in [T -> S]
  BY <1>2
<1>5. \A i, j \in T : f[i] = f[j] => i = j
  BY <1>2
<1>6. \A j \in S : \E i \in T : f[i] = j
  BY <1>3
<1>7. ExistsBijection(T, S)
  <2>1. f \in Bijection(T, S)
    BY <1>4, <1>5, <1>6 DEF Bijection, Injection, Surjection, IsInjective
  <2> QED
    BY <2>1 DEF ExistsBijection
<1>8. IsFiniteSet(S) /\ Cardinality(S) = Texts(Tail(w))
  BY <1>1, <1>7, TextsFinite, FS_Bijection DEF Texts
<1>9. TextsIn(w) = IF Head(w) = "text" THEN S \union {1} ELSE S
  BY <1>1 DEF TextsIn
<1> QED
  BY <1>8, <1>9, FS_AddElement DEF Texts
-------------------------------------------------------------------------------
\* The inductive invariant.

Busy == phase \in {"opening", "refusing", "reading", "passing"}

\* A call has no result until it is over, and a response from when it is
\* accepted or refused.
PhaseInv ==
  /\ Busy => result = "none"
  /\ phase = "over" => result # "none"
  /\ phase = "idle" => response # "open"
  /\ phase = "opening" => response = "none"
  /\ phase \in {"refusing", "reading", "passing"} => response = "open"
  /\ phase \in {"reading", "passing"} => stream
  /\ phase = "over" /\ response = "open" => stream

\* What the model has said is taken or on the wire.
PiecesInv == said = got + Texts(wire)

\* [DONE] is the last line on the wire until it is read.
DoneInv ==
  /\ \A i \in 1..Len(wire) : wire[i] = "done" => told /\ i = Len(wire)
  /\ told /\ Busy => wire # <<>> /\ wire[Len(wire)] = "done"

\* A fault on the wire, or of the connection, is on record.
FaultInv ==
  /\ \A i \in 1..Len(wire) : wire[i] \in Malformed \union {"error"} => faulty
  /\ server = "gone" /\ ~told => faulty
  /\ server = "broken" => faulty
  /\ phase = "refusing" => faulty
  /\ HealthyModelNotBlamed

IInv == TypeOK /\ PhaseInv /\ PiecesInv /\ DoneInv /\ FaultInv

LEMMA InitInv == Init => IInv
<1> SUFFICES ASSUME Init PROVE IInv
  OBVIOUS
<1>1. TypeOK
  <2>1. 0 \in 0..MaxPieces /\ 0 \in 0..0 /\ <<>> \in Seq(Line)
    BY MaxPiecesAssumption
  <2> QED
    BY <2>1 DEF Init, TypeOK, Results
<1>2. PhaseInv
  BY DEF Init, PhaseInv, Busy
<1>3. PiecesInv
  BY TextsEmpty DEF Init, PiecesInv
<1>4. DoneInv
  BY DEF Init, DoneInv
<1>5. FaultInv
  BY DEF Init, FaultInv, HealthyModelNotBlamed
<1> QED
  BY <1>1, <1>2, <1>3, <1>4, <1>5 DEF IInv

\* The model server only adds to what is on the wire and on record.
LEMMA SendInv ==
  ASSUME IInv, NEW l \in Line, Send(l)
  PROVE  IInv'
<1>1. TypeOK /\ PhaseInv /\ PiecesInv /\ DoneInv /\ FaultInv
  BY DEF IInv
<1>2. /\ wire' = Append(wire, l) /\ wire' \in Seq(Line)
      /\ Len(wire) \in Nat /\ Len(wire') = Len(wire) + 1
      /\ wire'[Len(wire')] = l
      /\ \A i \in 1..Len(wire) : wire'[i] = wire[i]
  BY <1>1 DEF Send, TypeOK
<1>0. /\ ~told /\ (told' <=> l = "done")
      /\ faulty' <=> faulty \/ l \in Malformed \union {"error"}
      /\ UNCHANGED <<phase, result, response, stream, reads, got, server>>
  BY <1>1 DEF Send, reader, TypeOK
<1>3. PiecesInv'
  BY <1>1, <1>2, TextsAppend, TextsFinite DEF Send, PiecesInv, TypeOK, reader
<1>4. TypeOK'
  <2>1. got' \in 0..said' /\ said' \in 0..MaxPieces
    BY <1>1 DEF Send, TypeOK, reader
  <2> QED
    BY <1>1, <1>2, <2>1 DEF Send, TypeOK, reader
<1>5. PhaseInv'
  BY <1>1 DEF Send, PhaseInv, Busy, reader
<1>6. DoneInv'
  <2>1. ASSUME NEW i \in 1..Len(wire'), wire'[i] = "done"
        PROVE  told' /\ i = Len(wire')
    <3>1. i \in 1..Len(wire) \/ i = Len(wire')
      BY <1>2
    <3> QED
      BY <1>0, <1>1, <1>2, <2>1, <3>1 DEF DoneInv
  <2>2. told' => wire' # <<>> /\ wire'[Len(wire')] = "done"
    BY <1>0, <1>2
  <2> QED
    BY <2>1, <2>2 DEF DoneInv
<1>7. FaultInv'
  <2>1. ASSUME NEW i \in 1..Len(wire'), wire'[i] \in Malformed \union {"error"}
        PROVE  faulty'
    <3>1. i \in 1..Len(wire) \/ i = Len(wire')
      BY <1>2
    <3> QED
      BY <1>0, <1>1, <1>2, <2>1, <3>1 DEF FaultInv
  <2>2. HealthyModelNotBlamed'
    BY <1>0, <1>1 DEF FaultInv, HealthyModelNotBlamed
  <2>3. /\ server' = "gone" /\ ~told' => faulty'
        /\ server' = "broken" => faulty'
        /\ phase' = "refusing" => faulty'
    BY <1>0, <1>1 DEF FaultInv
  <2> QED
    BY <2>1, <2>2, <2>3 DEF FaultInv
<1> QED
  BY <1>3, <1>4, <1>5, <1>6, <1>7 DEF IInv

LEMMA ServerStopsInv ==
  ASSUME IInv, HangUp \/ BreakOff
  PROVE  IInv'
<1>1. TypeOK /\ PhaseInv /\ PiecesInv /\ DoneInv /\ FaultInv
  BY DEF IInv
<1>2. /\ UNCHANGED <<phase, result, response, stream, reads, got, wire, said, told>>
      /\ faulty => faulty'
      /\ faulty' \in BOOLEAN
      /\ \/ server' = "gone" /\ (~told => faulty')
         \/ server' = "broken" /\ faulty'
  BY <1>1 DEF HangUp, BreakOff, reader, TypeOK
<1>3. TypeOK'
  BY <1>1, <1>2 DEF TypeOK
<1>4. PhaseInv' /\ PiecesInv' /\ DoneInv'
  BY <1>1, <1>2 DEF PhaseInv, PiecesInv, DoneInv, Busy
<1>5. FaultInv'
  BY <1>1, <1>2 DEF FaultInv, HealthyModelNotBlamed
<1> QED
  BY <1>3, <1>4, <1>5 DEF IInv

\* Each call starts with nothing of the one before.
LEMMA OpenInv ==
  ASSUME IInv, Open
  PROVE  IInv'
<1>1. TypeOK'
  <2>1. 0 \in 0..MaxPieces /\ 0 \in 0..0 /\ <<>> \in Seq(Line)
    BY MaxPiecesAssumption
  <2> QED
    BY <2>1 DEF Open, TypeOK, Results
<1>2. PhaseInv'
  BY DEF Open, PhaseInv, Busy
<1>3. PiecesInv'
  BY TextsEmpty DEF Open, PiecesInv
<1>4. DoneInv'
  BY DEF Open, DoneInv
<1>5. FaultInv'
  BY DEF Open, FaultInv, HealthyModelNotBlamed
<1> QED
  BY <1>1, <1>2, <1>3, <1>4, <1>5 DEF IInv

\* Steps of the call that take nothing from the wire.
LEMMA QuietInv ==
  ASSUME IInv,
         \/ Accept \/ Refuse \/ Refused
         \/ \E r \in {"transport", "timeout", "crash"} : SendFails(r)
         \/ Truncated \/ ReadFails \/ AskNext
         \/ \E r \in {"timeout", "cancelled"} : Interrupt(r)
         \/ Close \/ CutOff
  PROVE  IInv'
<1>1. TypeOK /\ PhaseInv /\ PiecesInv /\ DoneInv /\ FaultInv
  BY DEF IInv
<1>2. UNCHANGED <<wire, server, said, told, got>>
  BY DEF Accept, Refuse, Refused, SendFails, Truncated, ReadFails, AskNext,
         Interrupt, Close, CutOff, model
<1>3. /\ faulty => faulty'
      /\ faulty' \in BOOLEAN
  BY <1>1 DEF Accept, Refuse, Refused, SendFails, Truncated, ReadFails, AskNext,
              Interrupt, Close, CutOff, model, TypeOK
<1>4. TypeOK'
  <2>1. /\ phase' \in {"idle", "opening", "refusing", "reading", "passing", "over"}
        /\ result' \in Results \union {"none"}
    BY <1>1 DEF Accept, Refuse, Refused, SendFails, Truncated, ReadFails, AskNext,
                Interrupt, Close, CutOff, EndWith, TypeOK, Results
  <2>2. /\ response' \in {"none", "open", "closed", "abandoned"}
        /\ stream' \in BOOLEAN /\ reads' = reads
    BY <1>1 DEF Accept, Refuse, Refused, SendFails, Truncated, ReadFails, AskNext,
                Interrupt, Close, CutOff, TypeOK
  <2> QED
    BY <1>1, <1>2, <1>3, <2>1, <2>2 DEF TypeOK
<1>5. PhaseInv'
  <2>1. CASE Accept \/ Refuse \/ AskNext
    BY <1>1, <2>1 DEF Accept, Refuse, AskNext, PhaseInv, Busy
  <2>2. CASE Close \/ CutOff
    BY <1>1, <2>2 DEF Close, CutOff, PhaseInv, Busy
  <2>3. ASSUME NEW r \in Results, EndWith(r),
               response' # "open" \/ (phase \in {"reading", "passing"} /\ stream' = stream)
        PROVE  PhaseInv'
    BY <1>1, <2>3 DEF EndWith, PhaseInv, Busy, Results
  <2>4. CASE Refused \/ Truncated
    BY <2>3, <2>4 DEF Refused, Truncated, Results
  <2>5. ASSUME NEW r \in {"transport", "timeout", "crash"}, SendFails(r)
        PROVE  PhaseInv'
    BY <1>1, <2>3, <2>5 DEF SendFails, PhaseInv, Results
  <2>6. CASE ReadFails
    BY <2>3, <2>6 DEF ReadFails, Results
  <2>7. ASSUME NEW r \in {"timeout", "cancelled"}, Interrupt(r)
        PROVE  PhaseInv'
    BY <1>1, <2>3, <2>7 DEF Interrupt, PhaseInv, Results
  <2> QED
    BY <2>1, <2>2, <2>4, <2>5, <2>6, <2>7
<1>6. PiecesInv'
  BY <1>1, <1>2 DEF PiecesInv
<1>7. Busy' => Busy
  BY DEF Accept, Refuse, Refused, SendFails, Truncated, ReadFails, AskNext,
         Interrupt, Close, CutOff, EndWith, Busy
<1>8. DoneInv'
  BY <1>1, <1>2, <1>7 DEF DoneInv
<1>9. FaultInv'
  <2>1. HealthyModelNotBlamed'
    <3>1. CASE Truncated
      BY <1>1, <1>3, <3>1 DEF Truncated, DoneInv, FaultInv, Busy
                            , HealthyModelNotBlamed
    <3>2. CASE ~Truncated
      BY <1>1, <1>3, <3>2
      DEF Accept, Refuse, Refused, SendFails, ReadFails, AskNext, Interrupt,
          Close, CutOff, EndWith, FaultInv, HealthyModelNotBlamed, model
    <3> QED
      BY <3>1, <3>2
  <2>2. phase' = "refusing" => faulty'
    BY <1>1, <1>3
    DEF Accept, Refuse, Refused, SendFails, Truncated, ReadFails, AskNext,
        Interrupt, Close, CutOff, EndWith, FaultInv
  <2> QED
    BY <1>1, <1>2, <1>3, <2>1, <2>2 DEF FaultInv
<1> QED
  BY <1>4, <1>5, <1>6, <1>8, <1>9 DEF IInv

\* What a line makes of anext is one of the cases.
LEMMA ParseCases ==
  ASSUME NEW l \in Line
  PROVE  /\ Parse[l] = "skip" <=> l \in {"comment", "empty"}
         /\ Parse[l] = "piece" <=> l = "text"
         /\ Parse[l] = "end" <=> l = "done"
         /\ Parse[l] = "backend" <=> l \in {"error", "garbage"}
         /\ Parse[l] = "crash" <=> l = "object"
  BY DEF Parse, Line, Malformed

LEMMA ReadLineInv ==
  ASSUME IInv, ReadLine
  PROVE  IInv'
<1>1. TypeOK /\ PhaseInv /\ PiecesInv /\ DoneInv /\ FaultInv
  BY DEF IInv
<1>2. /\ wire \in Seq(Line) /\ wire # <<>> /\ phase = "reading"
      /\ wire' = Tail(wire)
      /\ UNCHANGED <<response, stream, reads, server, said, told, faulty>>
  BY <1>1 DEF ReadLine, TypeOK
<1>3. /\ wire' \in Seq(Line) /\ Len(wire') = Len(wire) - 1
      /\ Len(wire) \in Nat \ {0}
      /\ Head(wire) = wire[1] /\ Head(wire) \in Line
      /\ \A i \in 1..Len(wire) - 1 : wire'[i] = wire[i + 1]
  BY <1>2, HeadTailProperties
<1>4. \/ /\ Head(wire) \in {"comment", "empty"}
         /\ UNCHANGED <<phase, result, got>>
      \/ /\ Head(wire) = "text"
         /\ phase' = "passing" /\ got' = got + 1 /\ UNCHANGED result
      \/ /\ Head(wire) = "done"
         /\ phase' = "over" /\ result' = "end" /\ UNCHANGED got
      \/ /\ Head(wire) \in {"error", "garbage"}
         /\ phase' = "over" /\ result' = "backend" /\ UNCHANGED got
      \/ /\ Head(wire) = "object"
         /\ phase' = "over" /\ result' = "crash" /\ UNCHANGED got
  <2> DEFINE p == Parse[Head(wire)]
  <2>1. \/ p = "skip" /\ UNCHANGED <<phase, result, got>>
        \/ p = "piece" /\ phase' = "passing" /\ got' = got + 1 /\ UNCHANGED result
        \/ p \in Results /\ phase' = "over" /\ result' = p /\ UNCHANGED got
    BY DEF ReadLine, EndWith
  <2>2. Head(wire) \in {"comment", "empty", "text", "done", "error", "object",
                        "garbage"}
    BY <1>3 DEF Line, Malformed
  <2>3. "skip" \notin Results /\ "piece" \notin Results
    BY DEF Results
  <2> HIDE DEF p
  <2> QED
    BY <1>3, <2>1, <2>2, <2>3, ParseCases DEF p
<1>5. Texts(wire') \in Nat /\ got \in Nat /\ said \in Nat
  BY <1>1, <1>3, TextsFinite, MaxPiecesAssumption DEF TypeOK
<1>6. PiecesInv'
  <2>1. Texts(wire) = IF Head(wire) = "text" THEN Texts(wire') + 1 ELSE Texts(wire')
    BY <1>2, TextsTail
  <2> QED
    BY <1>1, <1>2, <1>4, <1>5, <2>1 DEF PiecesInv
<1>7. TypeOK'
  <2>1. got' \in Nat /\ got' <= said'
    BY <1>4, <1>5, <1>6 DEF PiecesInv
  <2> QED
    BY <1>1, <1>2, <1>3, <1>4, <2>1 DEF TypeOK, Results
<1>8. PhaseInv'
  BY <1>1, <1>2, <1>4 DEF PhaseInv, Busy
<1>9. DoneInv'
  <2>1. \A i \in 1..Len(wire') : wire'[i] = "done" => told' /\ i = Len(wire')
    <3> SUFFICES ASSUME NEW i \in 1..Len(wire'), wire'[i] = "done"
                 PROVE  told' /\ i = Len(wire')
      OBVIOUS
    <3>1. i \in 1..Len(wire) - 1 /\ i + 1 \in 1..Len(wire) /\ wire[i + 1] = "done"
      BY <1>3
    <3>2. told /\ i + 1 = Len(wire)
      BY <1>1, <3>1 DEF DoneInv
    <3>3. told'
      BY <1>2, <3>2
    <3>4. i = Len(wire')
      BY <1>3, <3>1, <3>2
    <3> QED
      BY <3>3, <3>4
  <2>2. ASSUME told', Busy'
        PROVE  wire' # <<>> /\ wire'[Len(wire')] = "done"
    <3>1. wire[Len(wire)] = "done" /\ Head(wire) # "done"
      BY <1>1, <1>2, <1>4, <2>2 DEF DoneInv, Busy
    <3>2. Len(wire) > 1
      BY <1>3, <3>1
    <3> QED
      BY <1>3, <3>1, <3>2
  <2> QED
    BY <2>1, <2>2 DEF DoneInv
<1>10. FaultInv'
  <2>1. Head(wire) \in Malformed \union {"error"} => faulty
    BY <1>1, <1>3 DEF FaultInv
  <2>2. HealthyModelNotBlamed'
    BY <1>1, <1>2, <1>4, <2>1 DEF FaultInv, HealthyModelNotBlamed, Malformed
  <2>3. \A i \in 1..Len(wire') : wire'[i] \in Malformed \union {"error"} => faulty'
    BY <1>1, <1>2, <1>3 DEF FaultInv
  <2>4. phase' # "refusing"
    BY <1>2, <1>4
  <2> QED
    BY <1>1, <1>2, <2>2, <2>3, <2>4 DEF FaultInv
<1> QED
  BY <1>6, <1>7, <1>8, <1>9, <1>10 DEF IInv

LEMMA NextInv == IInv /\ [Next]_vars => IInv'
<1> SUFFICES ASSUME IInv, [Next]_vars PROVE IInv'
  OBVIOUS
<1>1. CASE UNCHANGED vars
  BY <1>1 DEF IInv, vars, reader, model, TypeOK, PhaseInv, Busy, PiecesInv,
              DoneInv, FaultInv, HealthyModelNotBlamed
<1>2. CASE Call
  BY <1>2, OpenInv, QuietInv, ReadLineInv DEF Call
<1>3. CASE Next /\ ~Call
  BY <1>3, SendInv, ServerStopsInv DEF Next
<1> QED
  BY <1>1, <1>2, <1>3

LEMMA Invariance == Spec => []IInv
  BY InitInv, NextInv, PTL DEF Spec

\* Nothing is taken from a model (OpenAIStream.__anext__) that it did not say.
THEOREM TypeCorrect == Spec => []TypeOK
<1>1. IInv => TypeOK
  BY DEF IInv
<1> QED
  BY <1>1, Invariance, PTL

\* However a call ends, VLLMBackend.open and OpenAIStream.aclose between them leave
\* no response open, unless the cleanup itself is cut off.
THEOREM NoResponseLeaks == Spec => []ResponsesClosed
<1>1. IInv => ResponsesClosed
  BY DEF IInv, PhaseInv, ResponsesClosed
<1> QED
  BY <1>1, Invariance, PTL

\* However far a model server gets ahead of its reader, and whatever it sends
\* between its pieces, a call ends with BackendError or an error of the connection
\* only if there was a fault.  Timeouts, which the circuit counts too, are left out.
THEOREM FailuresAreFaults == Spec => []HealthyModelNotBlamed
<1>1. IInv => HealthyModelNotBlamed
  BY DEF IInv, FaultInv
<1> QED
  BY <1>1, Invariance, PTL
-------------------------------------------------------------------------------
\* Every step is a step of ModelStream.

\* A call that ends otherwise than with [DONE] has failed.
LEMMA EndRefines ==
  ASSUME IInv, Busy, NEW r \in Results \ {"end"}, EndWith(r),
         UNCHANGED <<said, told, got, reads>>
  PROVE  Answer!Fail
  BY DEF IInv, PhaseInv, Busy, Results, EndWith, Answer!Fail

\* Steps of the call that take nothing from the wire.
LEMMA QuietRefines ==
  ASSUME IInv,
         \/ Accept \/ Refuse \/ Refused
         \/ \E r \in {"transport", "timeout", "crash"} : SendFails(r)
         \/ Truncated \/ ReadFails \/ AskNext
         \/ \E r \in {"timeout", "cancelled"} : Interrupt(r)
         \/ Close \/ CutOff
  PROVE  [Answer!Next]_(Answer!vars)
<1>1. UNCHANGED <<said, told, got, reads>>
  BY DEF Accept, Refuse, Refused, SendFails, Truncated, ReadFails, AskNext,
         Interrupt, Close, CutOff, model
<1>2. CASE Accept \/ Refuse \/ AskNext
  BY <1>1, <1>2 DEF Accept, Refuse, AskNext, Answer!vars
<1>3. CASE Close \/ CutOff
  <2>1. phase = "over" /\ phase' = "idle" /\ result # "none"
    BY <1>3 DEF Close, CutOff, IInv, PhaseInv
  <2>2. Answer!Release
    BY <1>1, <2>1 DEF Answer!Release
  <2> QED
    BY <2>2 DEF Answer!Next
<1>4. CASE Refused \/ Truncated
  <2>1. Busy /\ \E r \in Results \ {"end"} : EndWith(r)
    BY <1>4 DEF Refused, Truncated, Busy, Results
  <2> QED
    BY <1>1, <2>1, EndRefines DEF Answer!Next
<1>5. ASSUME NEW r \in {"transport", "timeout", "crash"}, SendFails(r)
      PROVE  Answer!Next
  <2>1. Busy /\ r \in Results \ {"end"} /\ EndWith(r)
    BY <1>5 DEF SendFails, Busy, Results
  <2> QED
    BY <1>1, <2>1, EndRefines DEF Answer!Next
<1>6. CASE ReadFails
  <2>1. Busy /\ \E r \in Results \ {"end"} : EndWith(r)
    BY <1>6 DEF ReadFails, Busy, Results
  <2> QED
    BY <1>1, <2>1, EndRefines DEF Answer!Next
<1>7. ASSUME NEW r \in {"timeout", "cancelled"}, Interrupt(r)
      PROVE  Answer!Next
  <2>1. Busy /\ r \in Results \ {"end"} /\ EndWith(r)
    BY <1>7 DEF Interrupt, Busy, Results
  <2> QED
    BY <1>1, <2>1, EndRefines DEF Answer!Next
<1> QED
  BY <1>2, <1>3, <1>4, <1>5, <1>6, <1>7

\* A piece that is taken has been said, and after [DONE] there is none.
LEMMA ReadLineRefines ==
  ASSUME IInv, ReadLine
  PROVE  [Answer!Next]_(Answer!vars)
<1>1. TypeOK /\ PhaseInv /\ PiecesInv /\ DoneInv
  BY DEF IInv
<1>2. /\ wire \in Seq(Line) /\ wire # <<>> /\ phase = "reading" /\ result = "none"
      /\ wire' = Tail(wire)
      /\ UNCHANGED <<said, told, reads>>
  BY <1>1 DEF ReadLine, TypeOK, PhaseInv, Busy
<1>3. /\ wire' \in Seq(Line) /\ Len(wire') = Len(wire) - 1
      /\ Len(wire) \in Nat \ {0}
      /\ Head(wire) = wire[1] /\ Head(wire) \in Line
  BY <1>2, HeadTailProperties
<1>4. /\ Texts(wire') \in Nat /\ got \in Nat
      /\ Texts(wire) = IF Head(wire) = "text" THEN Texts(wire') + 1 ELSE Texts(wire')
  <2>1. Texts(wire') \in Nat
    BY <1>3, TextsFinite
  <2>2. got \in Nat
    BY <1>1, MaxPiecesAssumption DEF TypeOK
  <2>3. Texts(wire) = IF Head(wire) = "text" THEN Texts(wire') + 1 ELSE Texts(wire')
    BY <1>2, TextsTail
  <2> QED
    BY <2>1, <2>2, <2>3
<1> DEFINE p == Parse[Head(wire)]
<1>5. \/ p = "skip" /\ UNCHANGED <<phase, result, got>>
      \/ p = "piece" /\ phase' = "passing" /\ got' = got + 1 /\ UNCHANGED result
      \/ p \in Results /\ EndWith(p) /\ UNCHANGED got
  BY DEF ReadLine
<1>6. /\ p = "piece" => Head(wire) = "text"
      /\ p = "end" => Head(wire) = "done"
  BY <1>3, ParseCases
<1> HIDE DEF p
<1>7. CASE p = "skip" /\ UNCHANGED <<phase, result, got>>
  BY <1>2, <1>7 DEF Answer!vars
<1>8. CASE p = "piece" /\ phase' = "passing" /\ got' = got + 1 /\ UNCHANGED result
  <2>1. got < said
    BY <1>1, <1>4, <1>6, <1>8 DEF PiecesInv
  <2>2. Answer!Take
    BY <1>2, <1>8, <2>1 DEF Answer!Take
  <2> QED
    BY <2>2 DEF Answer!Next
<1>9. CASE p = "end" /\ EndWith(p) /\ UNCHANGED got
  <2>1. told /\ Len(wire) = 1
    BY <1>1, <1>3, <1>6, <1>9 DEF DoneInv
  <2>2. wire' = <<>>
    BY <1>2, <1>3, <2>1
  <2>3. Texts(wire') = 0
    BY <2>2, TextsEmpty
  <2>4. got = said
    BY <1>1, <1>4, <1>6, <1>9, <2>3 DEF PiecesInv
  <2>5. Answer!Complete
    BY <1>2, <1>9, <2>1, <2>4 DEF EndWith, Answer!Complete
  <2> QED
    BY <2>5 DEF Answer!Next
<1>10. CASE p \in Results \ {"end"} /\ EndWith(p) /\ UNCHANGED got
  <2>1. Answer!Fail
    BY <1>2, <1>10, EndRefines DEF Busy
  <2> QED
    BY <2>1 DEF Answer!Next
<1> QED
  BY <1>5, <1>7, <1>8, <1>9, <1>10

\* The model server's steps: a line is a piece, the conclusion or nothing.
LEMMA ServerRefines ==
  ASSUME IInv, (\E l \in Line : Send(l)) \/ HangUp \/ BreakOff
  PROVE  [Answer!Next]_(Answer!vars)
<1>1. CASE HangUp \/ BreakOff
  BY <1>1 DEF HangUp, BreakOff, reader, Answer!vars
<1>2. ASSUME NEW l \in Line, Send(l)
      PROVE  [Answer!Next]_(Answer!vars)
  <2>1. /\ UNCHANGED <<phase, result, got, reads>> /\ told \in BOOLEAN /\ ~told
        /\ said' = IF l = "text" THEN said + 1 ELSE said
        /\ told' = (l = "done")
    BY <1>2 DEF Send, reader, IInv, TypeOK
  <2>2. CASE l = "text"
    BY <2>1, <2>2 DEF Answer!Generate, Answer!Next
  <2>3. CASE l = "done"
    BY <2>1, <2>3 DEF Answer!Conclude, Answer!Next
  <2>4. CASE l \notin {"text", "done"}
    <3>1. told' = told
      BY <2>1, <2>4
    <3> QED
      BY <2>1, <2>4, <3>1 DEF Answer!vars
  <2> QED
    BY <2>2, <2>3, <2>4
<1> QED
  BY <1>1, <1>2

LEMMA StepRefines ==
  ASSUME IInv, [Next]_vars
  PROVE  [Answer!Next]_(Answer!vars)
<1>1. CASE UNCHANGED vars
  BY <1>1 DEF vars, reader, model, Answer!vars
<1>2. CASE Open
  BY <1>2 DEF Open, Answer!Open, Answer!Next
<1>3. CASE Call /\ ~Open
  BY <1>3, QuietRefines, ReadLineRefines DEF Call
<1>4. CASE Next /\ ~Call
  BY <1>4, ServerRefines DEF Next
<1> QED
  BY <1>1, <1>2, <1>3, <1>4

\* backends.py keeps what ModelStream promises the gateway: an answer is complete
\* only after [DONE] and with all of its pieces, however the model server's lines
\* and its hanging up or breaking off meet the reader.
THEOREM Refinement ==
  Spec => Answer!Init /\ [][Answer!Next]_(Answer!vars)
<1>1. Init => Answer!Init
  BY DEF Init, Answer!Init
<1>2. IInv /\ [Next]_vars => [Answer!Next]_(Answer!vars)
  BY StepRefines
<1> QED
  BY <1>1, <1>2, Invariance, PTL DEF Spec
-------------------------------------------------------------------------------
\* Either backend.

\* The offline stream: its pieces are all there when the call begins, and so is
\* whether the failure asked for comes before their end.
OfflineInv ==
  /\ TypeOK
  /\ failAfter \in 0..MaxPieces + 1
  /\ phase \in {"idle", "passing", "reading", "over"}
  /\ Busy => result = "none" /\ told /\ (failAfter <= said => faulty)
  /\ phase = "over" => result # "none"
  /\ ResponsesClosed
  /\ HealthyModelNotBlamed

BInv ==
  \/ mode = "vllm" /\ IInv
  \/ mode = "offline" /\ OfflineInv

LEMMA BInitInv == BackendsInit => BInv
<1> SUFFICES ASSUME BackendsInit PROVE BInv
  OBVIOUS
<1>1. CASE mode = "vllm"
  BY <1>1, InitInv DEF BackendsInit, BInv
<1>2. CASE mode = "offline"
  <2>1. TypeOK
    BY InitInv DEF BackendsInit, IInv
  <2>2. MaxPieces + 1 \in 0..MaxPieces + 1
    BY MaxPiecesAssumption
  <2> QED
    BY <1>2, <2>1, <2>2
    DEF BackendsInit, Init, Offline!Init, BInv, OfflineInv, Busy, ResponsesClosed,
        HealthyModelNotBlamed
<1> QED
  BY <1>1, <1>2 DEF BackendsInit

LEMMA OfflineNextInv ==
  ASSUME OfflineInv, Offline!Next, UNCHANGED <<stream, wire, server>>
  PROVE  OfflineInv'
<1> USE MaxPiecesAssumption
<1>1. CASE \E n \in 1..MaxPieces, f \in 0..MaxPieces + 1 : Offline!Open(n, f)
  <2>1. PICK n \in 1..MaxPieces, f \in 0..MaxPieces + 1 : Offline!Open(n, f)
    BY <1>1
  <2>2. /\ phase' = "passing" /\ result' = "none" /\ response' = "open"
        /\ said' = n /\ told' = TRUE /\ got' = 0 /\ failAfter' = f
        /\ faulty' = (f <= n) /\ reads' \in BOOLEAN
    BY <2>1 DEF Offline!Open
  <2>3. TypeOK'
    <3>1. n \in 0..MaxPieces /\ 0 \in 0..n /\ (f <= n) \in BOOLEAN
      OBVIOUS
    <3> QED
      BY <2>2, <3>1 DEF OfflineInv, TypeOK
  <2> QED
    BY <2>2, <2>3 DEF OfflineInv, Busy, ResponsesClosed, HealthyModelNotBlamed
<1>2. CASE Offline!AskNext
  BY <1>2 DEF Offline!AskNext, Offline!answer, OfflineInv, TypeOK, Busy,
              ResponsesClosed, HealthyModelNotBlamed
<1>3. CASE Offline!Wake
  <2>1. /\ phase = "reading"
        /\ UNCHANGED <<response, reads, said, told, failAfter, faulty>>
        /\ result = "none"
    BY <1>3 DEF Offline!Wake, Offline!answer, OfflineInv, Busy
  <2>2. CASE got >= failAfter /\ phase' = "over" /\ result' = "backend" /\ UNCHANGED got
    <3>1. faulty
      BY <2>1, <2>2 DEF OfflineInv, Busy, TypeOK
    <3> QED
      BY <2>1, <2>2, <3>1
      DEF OfflineInv, TypeOK, Busy, Results, ResponsesClosed, HealthyModelNotBlamed
  <2>3. CASE phase' = "over" /\ result' = "end" /\ UNCHANGED got
    BY <2>1, <2>3
    DEF OfflineInv, TypeOK, Busy, Results, ResponsesClosed, HealthyModelNotBlamed
  <2>4. CASE got < said /\ got' = got + 1 /\ phase' = "passing" /\ UNCHANGED result
    <3>1. got' \in 0..said'
      BY <2>1, <2>4 DEF OfflineInv, TypeOK
    <3> QED
      BY <2>1, <2>4, <3>1
      DEF OfflineInv, TypeOK, Busy, ResponsesClosed, HealthyModelNotBlamed
  <2> QED
    BY <1>3, <2>2, <2>3, <2>4 DEF Offline!Wake, Offline!EndWith
<1>4. CASE Offline!Close
  BY <1>4 DEF Offline!Close, OfflineInv, TypeOK, Busy, ResponsesClosed,
              HealthyModelNotBlamed
<1>5. CASE \E r \in {"timeout", "cancelled"} : Offline!Interrupt(r)
  BY <1>5 DEF Offline!Interrupt, Offline!EndWith, Offline!answer, OfflineInv, TypeOK,
              Busy, Results, ResponsesClosed, HealthyModelNotBlamed
<1> QED
  BY <1>1, <1>2, <1>3, <1>4, <1>5 DEF Offline!Next

LEMMA BNextInv == BInv /\ [BackendsNext]_bvars => BInv'
<1> SUFFICES ASSUME BInv, [BackendsNext]_bvars PROVE BInv'
  OBVIOUS
<1>1. CASE UNCHANGED bvars
  <2>1. CASE mode = "vllm"
    BY <1>1, <2>1, NextInv DEF bvars, BInv
  <2>2. CASE mode = "offline"
    BY <1>1, <2>2 DEF bvars, vars, reader, model, BInv, OfflineInv, TypeOK, Busy,
                      ResponsesClosed, HealthyModelNotBlamed
  <2> QED
    BY <2>1, <2>2 DEF BInv
<1>2. CASE mode = "vllm" /\ Next /\ UNCHANGED mode
  BY <1>2, NextInv DEF BInv
<1>3. CASE /\ mode = "offline" /\ Offline!Next
           /\ UNCHANGED <<stream, wire, server>> /\ UNCHANGED mode
  BY <1>3, OfflineNextInv DEF BInv
<1> QED
  BY <1>1, <1>2, <1>3 DEF BackendsNext

\* The offline backend's steps, seen as a model's: it has said everything and
\* concluded when the call begins.
LEMMA OfflineRefines ==
  ASSUME OfflineInv, Offline!Next
  PROVE  [Answer!Next]_(Answer!vars)
<1>1. ASSUME NEW n \in 1..MaxPieces, NEW f \in 0..MaxPieces + 1, Offline!Open(n, f)
      PROVE  Answer!Open
  BY <1>1, MaxPiecesAssumption DEF Offline!Open, Answer!Open
<1>2. ASSUME NEW r \in Results \ {"end"}, Busy, Offline!EndWith(r),
             UNCHANGED <<said, told, got, reads>>
      PROVE  Answer!Fail
  BY <1>2 DEF Offline!EndWith, Answer!Fail, OfflineInv, Busy, Results
<1>3. CASE Offline!AskNext
  BY <1>3 DEF Offline!AskNext, Offline!answer, Answer!vars, OfflineInv, Busy
<1>4. CASE Offline!Wake
  <2>1. /\ phase = "reading" /\ result = "none" /\ told
        /\ got \in 0..said /\ said \in Nat /\ UNCHANGED <<said, told, reads>>
    BY <1>4, MaxPiecesAssumption
    DEF Offline!Wake, Offline!answer, OfflineInv, Busy, TypeOK
  <2>2. CASE Offline!EndWith("backend") /\ UNCHANGED got
    BY <1>2, <2>1, <2>2 DEF Busy, Results, Answer!Next
  <2>3. CASE got >= said /\ Offline!EndWith("end") /\ UNCHANGED got
    <3>1. Answer!Complete
      BY <2>1, <2>3 DEF Offline!EndWith, Answer!Complete
    <3> QED
      BY <3>1 DEF Answer!Next
  <2>4. CASE got < said /\ got' = got + 1 /\ phase' = "passing" /\ UNCHANGED result
    <3>1. Answer!Take
      BY <2>1, <2>4 DEF Answer!Take
    <3> QED
      BY <3>1 DEF Answer!Next
  <2> QED
    BY <1>4, <2>2, <2>3, <2>4 DEF Offline!Wake
<1>5. CASE Offline!Close
  <2>1. Answer!Release
    BY <1>5 DEF Offline!Close, Answer!Release, OfflineInv
  <2> QED
    BY <2>1 DEF Answer!Next
<1>6. ASSUME NEW r \in {"timeout", "cancelled"}, Offline!Interrupt(r)
      PROVE  Answer!Fail
  BY <1>2, <1>6 DEF Offline!Interrupt, Offline!answer, Busy, Results
<1> QED
  BY <1>1, <1>3, <1>4, <1>5, <1>6 DEF Offline!Next, Answer!Next

\* Whichever backend the settings choose, the variables keep their types.
THEOREM BackendsTypeCorrect == BackendsSpec => []TypeOK
<1>1. BInv => TypeOK
  BY DEF BInv, IInv, OfflineInv
<1> QED
  BY <1>1, BInitInv, BNextInv, PTL DEF BackendsSpec

\* Whichever backend it is, no response or offline stream is open between calls.
THEOREM NoBackendLeaks == BackendsSpec => []ResponsesClosed
<1>1. BInv => ResponsesClosed
  BY DEF BInv, IInv, PhaseInv, OfflineInv, ResponsesClosed
<1> QED
  BY <1>1, BInitInv, BNextInv, PTL DEF BackendsSpec

\* Whichever backend it is, a call ends with BackendError or an error of the
\* connection only if there was a fault: with the offline backend, only where it was
\* asked to fail before the end.  Timeouts are left out.
THEOREM BackendFailuresAreFaults == BackendsSpec => []HealthyModelNotBlamed
<1>1. BInv => HealthyModelNotBlamed
  BY DEF BInv, IInv, FaultInv, OfflineInv
<1> QED
  BY <1>1, BInitInv, BNextInv, PTL DEF BackendsSpec

\* The gateway cannot tell the offline backend from a model server: both keep what
\* ModelStream promises.
THEOREM BackendsRefinement ==
  BackendsSpec => Answer!Init /\ [][Answer!Next]_(Answer!vars)
<1>1. BackendsInit => Answer!Init
  BY DEF BackendsInit, Init, Answer!Init
<1>2. BInv /\ [BackendsNext]_bvars => [Answer!Next]_(Answer!vars)
  <2> SUFFICES ASSUME BInv, [BackendsNext]_bvars
               PROVE  [Answer!Next]_(Answer!vars)
    OBVIOUS
  <2>1. CASE UNCHANGED bvars
    BY <2>1 DEF bvars, vars, reader, model, Answer!vars
  <2>2. CASE mode = "vllm" /\ Next
    BY <2>2, StepRefines DEF BInv
  <2>3. CASE mode = "offline" /\ Offline!Next
    BY <2>3, OfflineRefines DEF BInv
  <2> QED
    BY <2>1, <2>2, <2>3 DEF BackendsNext
<1> QED
  BY <1>1, <1>2, BInitInv, BNextInv, PTL DEF BackendsSpec
===============================================================================
