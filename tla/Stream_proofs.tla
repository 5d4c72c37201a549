--------------------------- MODULE Stream_proofs ---------------------------
(***************************************************************************)
(* Proofs about SSEStream, and about OpenAIStream, which runs it behind a  *)
(* pipe, for any number of upstream events and pings: what the client gets *)
(* is at every moment the beginning of a well-formed answer, that ends; and *)
(* the client of the OpenAI route gets the beginning of a well-formed      *)
(* stream of chunks, that tells what the answer would without streaming.   *)
(***************************************************************************)
EXTENDS OpenAIStream, FiniteSetTheorems, TLAPS

-----------------------------------------------------------------------------
(* The inductive invariant *)

Kinds == {"message_start", "content_block_start", "content_block_delta", "content_block_stop",
          "message_delta", "message_stop", "error", "json"}
SSEs == [event : Kinds, what : BlockTypes \cup LocalStops \cup {"", "end_turn"}, index : Nat]

HandlerTyped ==
  /\ pc \in {"calling", "reading", "handling", "deciding", "closing", "done"}
  /\ attempt \in Attempts
  /\ parsed \in {"open", "streamErr", "localStop", "severed"} \cup EOF
  /\ verdict \in BOOLEAN
  /\ calls \in Seq(Calls)

WriterTyped == started \in BOOLEAN /\ activeType \in BlockTypes \cup {""} /\ blockIndex \in Nat

FlagsTyped == held \subseteq Held /\ localStop \in LocalStops \cup {""}

OutTyped ==
  /\ gate \in {"buffering", "promoting", "direct"}
  /\ buf \in Seq(SSEs) /\ wire \in Seq(SSEs)
  /\ writeErr \in BOOLEAN /\ gone \in BOOLEAN

KeepaliveTyped ==
  keepalive \in [Attempts -> {"waiting", "ticked", "buffered", "direct", "stopped", "unborn"}]

StreamTyped == HandlerTyped /\ WriterTyped /\ FlagsTyped /\ OutTyped /\ KeepaliveTyped

(* Which calls may lead to which.                                          *)
Leads(c, d) ==
  \/ /\ c \in {"thinking", "text", "tool_use", "start", "tool_input"}
     /\ d \in {"thinking", "text", "close", "finish"}
  \/ c = "close" /\ d \in {"message_delta", "truncated_delta", "error"}
  \/ c \in {"message_delta", "truncated_delta"} /\ d = "message_stop"

Chained(s) == \A i \in 1 .. Len(s) - 1 : Leads(s[i], s[i + 1])

(* The calls of an event that goes on, of one that ends the answer here,   *)
(* and of one that is refused; of the end of the stream, and a cut one.    *)
Speaking == BlockTypes \cup {"tool_input", "close"}
Callable ==
  CASE pc = "handling" /\ localStop # "" ->
         Speaking \cup {"start", "finish", "message_delta", "message_stop"}
    [] pc = "handling" /\ localStop = "" /\ verdict -> Speaking \cup {"fail", "error"}
    [] pc = "handling" /\ localStop = "" /\ ~verdict -> Speaking
    [] pc = "closing" /\ parsed = "severed" -> Calls \ {"finish", "message_delta"}
    [] pc = "closing" /\ parsed = "streamErr" ->
         Calls \ {"finish", "message_delta", "fail", "error"}
    [] pc = "closing" /\ parsed \in EOF -> Calls \ {"fail", "error"}
    [] OTHER -> {}

Enders ==
  IF pc = "handling" THEN {"finish", "message_stop"}
  ELSE {"finish", "truncate", "fail", "message_stop", "error"}

(* The calls that remain: one leads to the next, the last ends an answer   *)
(* that is to end, and what is to be written finds its block.              *)
Planned ==
  /\ calls \in Seq(Callable) /\ Chained(calls)
  /\ pc \notin {"handling", "closing"} => calls = <<>>
  /\ (pc = "closing" \/ localStop # "") /\ calls # <<>> => EndOf(calls) \in Enders

Fitting ==
  /\ ~started => activeType = "" /\ blockIndex = 0
  /\ activeType # "" => blockIndex > 0
  /\ calls # <<>> =>
       /\ Head(calls) \notin BlockTypes \cup {"start", "finish", "truncate"} => started
       /\ Head(calls) \in {"message_delta", "truncated_delta", "message_stop", "error"} =>
            activeType = ""
       /\ Head(calls) = "tool_input" => activeType = "tool_use"

(* How the reading ended so far.                                           *)
Phased ==
  /\ pc \in {"calling", "reading"} => localStop = "" /\ parsed = "open"
  /\ pc = "handling" => parsed \in {"open"} \cup EOF /\ (localStop # "" => verdict)
  /\ pc = "deciding" => parsed # "open"
  /\ pc = "closing" => parsed \notin {"open", "localStop"}

(* Before the gate is open the client has nothing; once it is open the     *)
(* buffer is empty.  A write fails only when the client is gone.           *)
Gated ==
  /\ gate # "direct" => wire = <<>> \/ (pc = "done" /\ wire = <<JSON>>)
  /\ gate = "direct" => buf = <<>> /\ started
  /\ gate = "buffering" => heard = 0 /\ ~writeErr
  /\ writeErr => gone
  /\ \A a \in Attempts : keepalive[a] = "direct" => gate # "buffering"
  /\ gate = "promoting" =>
       /\ pc \in {"handling", "closing"} /\ started
       /\ calls # <<>> /\ Head(calls) \in {"text", "tool_use"}
  /\ pc = "calling" => gate = "buffering" /\ buf = <<>> /\ ~started

(* The answer as the writer has it so far, which is in the buffer or on    *)
(* the wire; of what a client does not get any more it has no record.      *)
Stream == IF gate = "direct" THEN wire ELSE buf
Tracked == gate = "direct" => ~gone
Told == Tracked /\ started /\ (pc = "done" => gate = "direct")
Last == EndOf(Stream)

WellMade ==
  /\ WellFormed(wire)
  /\ Tracked => WellFormed(Stream)
  /\ Tracked /\ ~started => Stream = <<>>
  /\ Told => Stream # <<>>

(* The last event stands where the writer is.                              *)
Placed ==
  /\ Last.event # "json"
  /\ activeType # "" =>
       /\ Last.event \in {"content_block_start", "content_block_delta"}
       /\ Last.what = activeType /\ blockIndex = Last.index + 1
  /\ activeType = "" => Last.event \notin {"content_block_start", "content_block_delta"}
  /\ Last.event \in {"message_start", "error"} => Last.index = blockIndex
  /\ Last.event = "content_block_stop" => blockIndex = Last.index + 1
  /\ Last.event = "message_delta" <=> calls # <<>> /\ Head(calls) = "message_stop"

(* The answer has ended when the handler has, and not before.              *)
Stopped ==
  /\ Last.event = "message_stop" =>
       /\ calls = <<>>
       /\ \/ pc = "handling" /\ localStop # ""
          \/ pc = "deciding" /\ parsed = "localStop"
          \/ pc \in {"closing", "done"}
  /\ Last.event = "error" =>
       \/ pc = "handling" /\ calls = <<>> /\ verdict /\ localStop = ""
       \/ pc = "deciding" /\ parsed = "streamErr"
       \/ pc = "closing" /\ (calls = <<>> \/ EndOf(calls) \notin {"fail", "error"})
       \/ pc = "done"
  /\ pc = "handling" /\ calls = <<>> /\ localStop # "" => Last.event = "message_stop"
  /\ pc = "deciding" /\ parsed = "localStop" => Last.event = "message_stop"
  /\ pc \in {"closing", "done"} /\ calls = <<>> =>
       Last.event = "message_stop" \/ (parsed = "severed" /\ Last.event = "error")

(* Only the end of a stream that ended by itself says "end_turn".          *)
NoEndTurn(s) == \A i \in 1 .. Len(s) : s[i].event = "message_delta" => s[i].what # "end_turn"
CutSaysSo == ~(pc \in {"closing", "done"} /\ parsed \in EOF) => NoEndTurn(wire) /\ NoEndTurn(buf)

StreamInv ==
  /\ StreamTyped
  /\ Planned /\ Fitting /\ Phased /\ Gated /\ WellMade
  /\ Told => Placed /\ Stopped
  /\ CutSaysSo

-----------------------------------------------------------------------------
(* Sequences *)

(* What is left of a plan is a plan.                                       *)
LEMMA RestOfPlan ==
  ASSUME NEW A, NEW s \in Seq(A), s # <<>>, Chained(s)
  PROVE  /\ Head(s) \in A /\ Tail(s) \in Seq(A) /\ Chained(Tail(s))
         /\ Tail(s) = <<>> => EndOf(s) = Head(s)
         /\ Tail(s) # <<>> =>
              EndOf(Tail(s)) = EndOf(s) /\ Leads(Head(s), Head(Tail(s)))
<1>1. /\ Len(s) \in Nat \ {0} /\ Tail(s) \in Seq(A) /\ Len(Tail(s)) = Len(s) - 1
      /\ \A i \in 1 .. Len(Tail(s)) : Tail(s)[i] = s[i + 1]
      /\ Head(s) = s[1] /\ s[1] \in A
  OBVIOUS
<1>2. Chained(Tail(s))
  <2>1. ASSUME NEW i \in 1 .. Len(Tail(s)) - 1
        PROVE  Leads(Tail(s)[i], Tail(s)[i + 1])
    <3>1. /\ i + 1 \in 1 .. Len(s) - 1
          /\ Tail(s)[i] = s[i + 1] /\ Tail(s)[i + 1] = s[(i + 1) + 1]
      BY <1>1
    <3> QED BY <3>1 DEF Chained
  <2> QED BY <2>1 DEF Chained
<1>3. Tail(s) = <<>> => EndOf(s) = Head(s)
  <2>1. Len(<<>>) = 0
    OBVIOUS
  <2>2. Tail(s) = <<>> => Len(Tail(s)) = 0
    BY <2>1, Zenon
  <2>3. Tail(s) = <<>> => Len(s) = 1
    BY <1>1, <2>2
  <2> QED BY <1>1, <2>3 DEF EndOf
<1>4. ASSUME Tail(s) # <<>>
      PROVE  EndOf(Tail(s)) = EndOf(s) /\ Leads(Head(s), Head(Tail(s)))
  <2>1. Len(Tail(s)) \in Nat \ {0} /\ Head(Tail(s)) = Tail(s)[1]
    BY <1>1, <1>4
  <2>2. 1 \in 1 .. Len(s) - 1 /\ Len(s) - 1 \in 1 .. Len(Tail(s)) /\ Tail(s)[1] = s[1 + 1]
    BY <1>1, <2>1
  <2>3. Tail(s)[Len(Tail(s))] = s[Len(s)]
    BY <1>1, <2>2
  <2> QED BY <1>1, <2>1, <2>2, <2>3 DEF EndOf, Chained
<1> QED BY <1>1, <1>2, <1>3, <1>4

Fits(c, t) == t # <<>> => Leads(c, Head(t))

(* A plan with another call before it.                                     *)
LEMMA Prepended ==
  ASSUME NEW A, NEW t \in Seq(A), Chained(t), NEW c \in A, Fits(c, t)
  PROVE  /\ <<c>> \o t \in Seq(A) /\ Chained(<<c>> \o t)
         /\ <<c>> \o t # <<>> /\ Head(<<c>> \o t) = c
         /\ t = <<>> => EndOf(<<c>> \o t) = c
         /\ t # <<>> => EndOf(<<c>> \o t) = EndOf(t)
<1> DEFINE u == <<c>> \o t
<1>1. /\ u \in Seq(A) /\ Len(u) = Len(t) + 1 /\ Len(t) \in Nat /\ u[1] = c
      /\ \A i \in 1 .. Len(t) : u[i + 1] = t[i]
  OBVIOUS
<1> HIDE DEF u
<1>2. Chained(u)
  <2>1. ASSUME NEW i \in 1 .. Len(u) - 1
        PROVE  Leads(u[i], u[i + 1])
    <3>1. CASE i = 1
      <4>1. Head(t) = t[1] /\ t # <<>> /\ u[1 + 1] = t[1]
        BY <1>1, <3>1
      <4> QED BY <1>1, <3>1, <4>1 DEF Fits
    <3>2. CASE i # 1
      <4>1. i - 1 \in 1 .. Len(t) - 1 /\ (i - 1) + 1 = i /\ i \in 1 .. Len(t)
        BY <1>1, <3>2
      <4>2. Leads(t[i - 1], t[(i - 1) + 1])
        BY <4>1 DEF Chained
      <4>3. u[i] = t[i - 1] /\ u[i + 1] = t[i]
        BY <1>1, <4>1
      <4> QED BY <4>1, <4>2, <4>3
    <3> QED BY <3>1, <3>2
  <2> QED BY <2>1 DEF Chained
<1>3. u # <<>> /\ Head(u) = c
  BY <1>1
<1>4. t = <<>> => EndOf(u) = c
  BY <1>1 DEF EndOf
<1>5. t # <<>> => EndOf(u) = EndOf(t)
  <2>1. t # <<>> => Len(t) \in 1 .. Len(t) /\ EndOf(u) = u[Len(t) + 1]
    BY <1>1 DEF EndOf
  <2> QED BY <1>1, <2>1 DEF EndOf
<1> QED BY <1>1, <1>2, <1>3, <1>4, <1>5 DEF u

(* A plan with its first call replaced by another.                         *)
LEMMA ReplacedFirst ==
  ASSUME NEW A, NEW s \in Seq(A), s # <<>>, Chained(s), NEW c \in A,
         Tail(s) # <<>> => Leads(c, Head(Tail(s)))
  PROVE  /\ <<c>> \o Tail(s) \in Seq(A) /\ Chained(<<c>> \o Tail(s))
         /\ <<c>> \o Tail(s) # <<>> /\ Head(<<c>> \o Tail(s)) = c
         /\ Tail(s) = <<>> => EndOf(<<c>> \o Tail(s)) = c
         /\ Tail(s) # <<>> => EndOf(<<c>> \o Tail(s)) = EndOf(s)
<1>1. /\ Tail(s) \in Seq(A) /\ Chained(Tail(s))
      /\ Tail(s) # <<>> => EndOf(Tail(s)) = EndOf(s)
  BY RestOfPlan
<1>2. Fits(c, Tail(s))
  BY DEF Fits
<1> QED BY <1>1, <1>2, Prepended, ZenonT(60)

(* A plan with a call that there may be before it.                         *)
LEMMA Perhaps ==
  ASSUME NEW A, NEW t \in Seq(A), Chained(t), NEW c \in A, Fits(c, t), NEW s, s \in {<<>>, <<c>>}
  PROVE  /\ s \in Seq(A) /\ s \o t \in Seq(A) /\ Chained(s \o t)
         /\ s \o t # <<>> => Head(s \o t) = c \/ (t # <<>> /\ Head(s \o t) = Head(t))
         /\ t # <<>> => s \o t # <<>> /\ EndOf(s \o t) = EndOf(t)
<1>1. CASE s = <<c>>
  <2>1. s \in Seq(A)
    BY <1>1
  <2> QED BY <1>1, <2>1, Prepended
<1>2. CASE s = <<>>
  <2>1. <<>> \o t = t /\ <<>> \in Seq(A)
    OBVIOUS
  <2> QED BY <1>2, <2>1
<1> QED BY <1>1, <1>2

LEMMA AtMostOne ==
  ASSUME NEW A, NEW c \in A, NEW s, s \in {<<>>, <<c>>}
  PROVE  s \in Seq(A)
<1>1. <<>> \in Seq(A) /\ <<c>> \in Seq(A)
  OBVIOUS
<1> QED BY <1>1

LEMMA Regrouped ==
  ASSUME NEW A, NEW r \in Seq(A), NEW t \in Seq(A), NEW u \in Seq(A)
  PROVE  (r \o t) \o u = r \o (t \o u) /\ r \o t \in Seq(A)
OBVIOUS

(* Plans of none to three calls.                                           *)
LEMMA NoPlan ==
  ASSUME NEW A
  PROVE  <<>> \in Seq(A) /\ Chained(<<>>)
<1>1. Len(<<>>) = 0 /\ <<>> \in Seq(A)
  OBVIOUS
<1>2. ASSUME NEW i \in 1 .. Len(<<>>) - 1
      PROVE  FALSE
  BY <1>1
<1> QED BY <1>1, <1>2 DEF Chained

LEMMA ShortPlan ==
  ASSUME NEW A, NEW c \in A
  PROVE  /\ <<c>> \in Seq(A) /\ Chained(<<c>>)
         /\ <<c>> # <<>> /\ Head(<<c>>) = c /\ EndOf(<<c>>) = c
<1>1. Len(<<c>>) = 1 /\ <<c>> \in Seq(A)
  OBVIOUS
<1>2. ASSUME NEW i \in 1 .. Len(<<c>>) - 1
      PROVE  FALSE
  BY <1>1
<1>3. Chained(<<c>>)
  BY <1>2 DEF Chained
<1> QED BY <1>1, <1>3 DEF EndOf

LEMMA ClosingPlan ==
  ASSUME NEW A, NEW c \in A, NEW d \in A, NEW e \in A, Leads(c, d), Leads(d, e)
  PROVE  /\ <<c, d, e>> \in Seq(A) /\ Chained(<<c, d, e>>)
         /\ <<c, d, e>> # <<>> /\ Head(<<c, d, e>>) = c /\ EndOf(<<c, d, e>>) = e
<1>1. <<c, d, e>> \in Seq(A) /\ Chained(<<c, d, e>>)
  BY DEF Chained
<1> QED BY <1>1 DEF EndOf

LEMMA ErrorPlan ==
  ASSUME NEW A, NEW c \in A, NEW d \in A, Leads(c, d)
  PROVE  /\ <<c, d>> \in Seq(A) /\ Chained(<<c, d>>)
         /\ <<c, d>> # <<>> /\ Head(<<c, d>>) = c /\ EndOf(<<c, d>>) = d
<1>1. <<c, d>> \in Seq(A) /\ Chained(<<c, d>>)
  BY DEF Chained
<1> QED BY <1>1 DEF EndOf

(* An answer goes on with an event that may follow its last one.           *)
LEMMA GoesOnWellFormed ==
  ASSUME NEW s \in Seq(SSEs), WellFormed(s), NEW e \in SSEs,
         s = <<>> => e.event \in {"message_start", "json"},
         s # <<>> => Follows(EndOf(s), e)
  PROVE  WellFormed(Append(s, e))
<1> DEFINE t == Append(s, e)
<1>1. /\ t \in Seq(SSEs) /\ Len(t) = Len(s) + 1 /\ Len(s) \in Nat
      /\ \A i \in 1 .. Len(s) : t[i] = s[i]
      /\ t[Len(s) + 1] = e
  OBVIOUS
<1> HIDE DEF t
<1>2. t[1].event \in {"message_start", "json"}
  <2>1. CASE s = <<>>
    BY <1>1, <2>1
  <2>2. CASE s # <<>>
    <3>1. 1 \in 1 .. Len(s)
      BY <2>2
    <3> QED BY <1>1, <2>2, <3>1 DEF WellFormed
  <2> QED BY <2>1, <2>2
<1>3. ASSUME NEW i \in 1 .. Len(t) - 1
      PROVE  Follows(t[i], t[i + 1])
  <2>1. CASE i = Len(s)
    <3>1. s # <<>> /\ i \in 1 .. Len(s)
      BY <1>1, <2>1
    <3> QED BY <1>1, <2>1, <3>1 DEF EndOf
  <2>2. CASE i # Len(s)
    <3>1. i \in 1 .. Len(s) - 1 /\ i + 1 \in 1 .. Len(s) /\ i \in 1 .. Len(s)
      BY <1>1, <2>2
    <3> QED BY <1>1, <3>1 DEF WellFormed
  <2> QED BY <2>1, <2>2
<1> QED BY <1>2, <1>3 DEF WellFormed, t

LEMMA EndOfAppended ==
  ASSUME NEW s \in Seq(SSEs), NEW e \in SSEs
  PROVE  /\ Append(s, e) \in Seq(SSEs) /\ Append(s, e) # <<>> /\ EndOf(Append(s, e)) = e
         /\ NoEndTurn(s) /\ ~(e.event = "message_delta" /\ e.what = "end_turn") =>
              NoEndTurn(Append(s, e))
<1> DEFINE t == Append(s, e)
<1>1. /\ t \in Seq(SSEs) /\ Len(t) = Len(s) + 1 /\ Len(s) \in Nat /\ t # <<>>
      /\ \A i \in 1 .. Len(s) : t[i] = s[i]
      /\ t[Len(s) + 1] = e
  OBVIOUS
<1> HIDE DEF t
<1>2. EndOf(t) = e
  BY <1>1 DEF EndOf
<1>3. ASSUME NoEndTurn(s), ~(e.event = "message_delta" /\ e.what = "end_turn"),
             NEW i \in 1 .. Len(t), t[i].event = "message_delta"
      PROVE  t[i].what # "end_turn"
  <2>1. CASE i = Len(s) + 1
    BY <1>1, <1>3, <2>1
  <2>2. CASE i # Len(s) + 1
    <3>1. i \in 1 .. Len(s)
      BY <1>1, <2>2
    <3> QED BY <1>1, <1>3, <3>1 DEF NoEndTurn
  <2> QED BY <2>1, <2>2
<1> QED BY <1>1, <1>2, <1>3 DEF NoEndTurn, t

LEMMA NothingSent ==
  /\ <<>> \in Seq(SSEs) /\ <<JSON>> \in Seq(SSEs)
  /\ WellFormed(<<>>) /\ WellFormed(<<JSON>>)
  /\ NoEndTurn(<<>>) /\ NoEndTurn(<<JSON>>)
<1>1. JSON \in SSEs /\ JSON.event = "json"
  BY DEF JSON, SSE, SSEs, Kinds
<1>2. Len(<<>>) = 0 /\ Len(<<JSON>>) = 1 /\ <<JSON>>[1] = JSON
  OBVIOUS
<1> QED BY <1>1, <1>2 DEF WellFormed, NoEndTurn

-----------------------------------------------------------------------------
(* Steps of the writer *)

LEMMA Started ==
  ASSUME Init
  PROVE  StreamInv
<1>0. <<>> \in Seq(Calls) /\ <<>> \in Seq(Callable) /\ Len(<<>>) = 0
  OBVIOUS
<1>1. HandlerTyped /\ WriterTyped /\ FlagsTyped /\ KeepaliveTyped
  <2>1. HandlerTyped
    <3>1. calls \in Seq(Calls)
      BY <1>0 DEF Init
    <3>2. attempt \in Attempts
      <4>1. attempt = 1
        BY DEF Init
      <4> QED BY <4>1 DEF Attempts
    <3> QED BY <3>1, <3>2 DEF Init, HandlerTyped
  <2>2. WriterTyped /\ FlagsTyped
    BY DEF Init, WriterTyped, FlagsTyped
  <2>3. KeepaliveTyped
    BY DEF Init, KeepaliveTyped
  <2> QED BY <2>1, <2>2, <2>3
<1>2. OutTyped
  BY NothingSent DEF Init, OutTyped
<1>3. Planned
  <2>1. calls = <<>>
    BY DEF Init
  <2>2. Chained(calls)
    <3>1. ASSUME NEW i \in 1 .. Len(calls) - 1
          PROVE  FALSE
      BY <1>0, <2>1
    <3> QED BY <3>1 DEF Chained
  <2> QED BY <1>0, <2>1, <2>2 DEF Planned
<1>4. Fitting /\ Phased /\ Gated
  BY DEF Init, Fitting, Phased, Gated
<1>5. WellMade /\ CutSaysSo /\ ~Told
  BY NothingSent DEF Init, WellMade, CutSaysSo, Stream, Told
<1> QED BY <1>1, <1>2, <1>3, <1>4, <1>5 DEF StreamInv, StreamTyped

(* A call that is to run is one the phase allows.                          *)
LEMMA Called ==
  ASSUME StreamInv, calls # <<>>
  PROVE  /\ pc \in {"handling", "closing"}
         /\ Head(calls) \in Callable /\ Head(calls) \in Calls
         /\ Told => Last.event # "message_stop"
         /\ Told /\ Last.event = "error" => pc = "closing" /\ EndOf(calls) \notin {"fail", "error"}
<1>1. Planned /\ HandlerTyped /\ (Told => Stopped)
  BY DEF StreamInv, StreamTyped
<1>2. pc \in {"handling", "closing"}
  BY <1>1 DEF Planned
<1>3. Head(calls) \in Callable /\ Head(calls) \in Calls
  BY <1>1, RestOfPlan DEF Planned, HandlerTyped
<1> QED BY <1>1, <1>2, <1>3 DEF Stopped

LEMMA SamePhase ==
  ASSUME UNCHANGED <<pc, parsed, verdict, localStop>>
  PROVE  Callable' = Callable /\ Enders' = Enders
<1>1. Callable' = Callable
  BY DEF Callable
<1> QED BY <1>1 DEF Enders

LEMMA Returned ==
  ASSUME StreamInv, calls # <<>>, Return, UNCHANGED <<pc, parsed, verdict, localStop>>
  PROVE  /\ Planned' /\ calls' \in Seq(Calls)
         /\ calls' = <<>> => EndOf(calls) = Head(calls)
         /\ calls' # <<>> => EndOf(calls') = EndOf(calls) /\ Leads(Head(calls), Head(calls'))
         /\ (pc = "closing" \/ localStop # "") /\ calls' = <<>> => Head(calls) \in Enders
<1>1. Planned /\ calls \in Seq(Calls) /\ calls' = Tail(calls)
  BY DEF StreamInv, StreamTyped, HandlerTyped, Return
<1>2. /\ calls' \in Seq(Callable) /\ calls' \in Seq(Calls) /\ Chained(calls')
      /\ calls' = <<>> => EndOf(calls) = Head(calls)
      /\ calls' # <<>> => EndOf(calls') = EndOf(calls) /\ Leads(Head(calls), Head(calls'))
  BY <1>1, RestOfPlan DEF Planned
<1>3. Chained(calls)' = Chained(calls')
  BY DEF Chained
<1>4. EndOf(calls)' = EndOf(calls')
  BY DEF EndOf
<1>5. (pc = "closing" \/ localStop # "") => EndOf(calls) \in Enders
  BY <1>1 DEF Planned
<1>6. pc \in {"handling", "closing"}
  BY Called
<1>7. Planned'
  BY <1>2, <1>3, <1>4, <1>5, <1>6, SamePhase DEF Planned
<1> QED BY <1>2, <1>5, <1>7

(* Where a write goes.                                                     *)
LEMMA Written ==
  ASSUME StreamInv, NEW e \in SSEs, WriteSSE(e), gate # "promoting",
         pc \in {"handling", "closing"}, pc' = pc, parsed' = parsed, started',
         UNCHANGED <<keepalive, heard>>,
         Tracked => IF Stream = <<>> THEN e.event = "message_start" ELSE Follows(Last, e)
  PROVE  /\ OutTyped' /\ Gated' /\ WellMade'
         /\ Told' => Tracked /\ Last' = e
         /\ ~(e.event = "message_delta" /\ e.what = "end_turn") => CutSaysSo'
<1>1. OutTyped /\ Gated /\ WellMade /\ CutSaysSo
  BY DEF StreamInv, StreamTyped
<1>2. gate' = gate /\ gone' = gone /\ gate \in {"buffering", "direct"}
  BY <1>1 DEF WriteSSE, OutTyped
<1>3. CASE ~Tracked
  <2>1. /\ gate = "direct" /\ gone
        /\ UNCHANGED <<buf, wire>> /\ writeErr' \in BOOLEAN
    BY <1>1, <1>2, <1>3 DEF WriteSSE, Tracked, OutTyped
  <2>2. ~Tracked' /\ ~Told'
    BY <1>2, <2>1 DEF Tracked, Told
  <2>3. OutTyped' /\ Gated'
    BY <1>1, <1>2, <2>1 DEF OutTyped, Gated
  <2> QED BY <1>1, <2>1, <2>2, <2>3 DEF WellMade, CutSaysSo
<1>4. CASE Tracked
  <2>1. ~writeErr /\ UNCHANGED writeErr
    BY <1>1, <1>2, <1>4 DEF WriteSSE, Gated, Tracked
  <2>2. Stream' = Append(Stream, e)
    BY <1>1, <1>2, <1>4, <2>1 DEF WriteSSE, Stream, Tracked
  <2>3. \/ gate = "buffering" /\ buf' = Append(buf, e) /\ wire' = wire
        \/ gate = "direct" /\ wire' = Append(wire, e) /\ buf' = buf
    BY <1>2, <1>4, <2>1 DEF WriteSSE, Tracked
  <2>4. Stream \in Seq(SSEs) /\ WellFormed(Stream)
    BY <1>1, <1>4 DEF OutTyped, Stream, WellMade
  <2>5. /\ Stream' \in Seq(SSEs) /\ Stream' # <<>> /\ EndOf(Stream') = e
        /\ WellFormed(Stream')
    BY <1>4, <2>2, <2>4, GoesOnWellFormed, EndOfAppended DEF Last
  <2>6. OutTyped'
    BY <1>1, <1>2, <2>1, <2>3, EndOfAppended DEF OutTyped
  <2>7. Gated'
    BY <1>1, <1>2, <2>1, <2>3 DEF Gated
  <2>8. WellMade'
    <3>1. Tracked'
      BY <1>2, <1>4 DEF Tracked
    <3>2. WellFormed(wire')
      BY <1>1, <1>2, <2>3, <2>5 DEF WellMade, Stream
    <3>3. WellFormed(wire)' = WellFormed(wire') /\ WellFormed(Stream)' = WellFormed(Stream')
      BY DEF WellFormed
    <3> QED BY <2>5, <3>1, <3>2, <3>3 DEF WellMade
  <2>9. Last' = e
    BY <2>5 DEF Last, EndOf
  <2>10. ASSUME ~(e.event = "message_delta" /\ e.what = "end_turn")
         PROVE  CutSaysSo'
    <3>1. NoEndTurn(wire) => NoEndTurn(wire')
      BY <1>1, <2>3, <2>10, EndOfAppended DEF OutTyped
    <3>2. NoEndTurn(buf) => NoEndTurn(buf')
      BY <1>1, <2>3, <2>10, EndOfAppended DEF OutTyped
    <3>3. NoEndTurn(wire)' = NoEndTurn(wire') /\ NoEndTurn(buf)' = NoEndTurn(buf')
      BY DEF NoEndTurn
    <3> QED BY <1>1, <3>1, <3>2, <3>3 DEF CutSaysSo
  <2> QED BY <1>4, <2>6, <2>7, <2>8, <2>9, <2>10
<1> QED BY <1>3, <1>4

(* What a write of the handler leaves alone.                               *)
LEMMA Quietly ==
  ASSUME StreamInv, Quiet, UNCHANGED flags, calls' \in Seq(Calls)
  PROVE  HandlerTyped' /\ FlagsTyped' /\ KeepaliveTyped' /\ Phased'
<1>1. HandlerTyped /\ FlagsTyped /\ KeepaliveTyped /\ Phased
  BY DEF StreamInv, StreamTyped
<1>2. HandlerTyped'
  BY <1>1 DEF Quiet, HandlerTyped
<1>3. FlagsTyped'
  BY <1>1 DEF FlagsTyped, flags
<1>4. KeepaliveTyped'
  BY <1>1 DEF Quiet, ping, KeepaliveTyped
<1>5. Phased'
  BY <1>1 DEF Quiet, flags, Phased
<1> QED BY <1>2, <1>3, <1>4, <1>5

(* An event in the middle of an answer does not end it.                    *)
LEMMA StaysOpen ==
  ASSUME pc' \in {"handling", "closing"},
         Told' => Last'.event \notin {"message_stop", "error"},
         pc' = "closing" \/ localStop' # "" => calls' # <<>>
  PROVE  Told' => Stopped'
BY DEF Stopped

(* Where the writer is, as the last event tells it.                        *)
LEMMA LastSent ==
  ASSUME StreamInv, Told
  PROVE  Last \in SSEs /\ Stream # <<>> /\ Stream \in Seq(SSEs) /\ Placed /\ Stopped
<1>1. OutTyped /\ WellMade /\ Placed /\ Stopped
  BY DEF StreamInv, StreamTyped
<1>2. Stream # <<>> /\ Stream \in Seq(SSEs)
  BY <1>1 DEF WellMade, OutTyped, Stream
<1>3. Stream[Len(Stream)] \in SSEs
  BY <1>2
<1> QED BY <1>1, <1>2, <1>3 DEF Last, EndOf

LEMMA StartEvent == SSE("message_start", "", 0) \in SSEs
BY DEF SSE, SSEs, Kinds

LEMMA BlockEvent ==
  ASSUME NEW what \in BlockTypes, NEW i \in Nat,
         NEW event \in {"content_block_start", "content_block_delta", "content_block_stop"}
  PROVE  SSE(event, what, i) \in SSEs
BY DEF SSE, SSEs, Kinds

LEMMA EnsureStartedKeeps ==
  ASSUME StreamInv, EnsureStarted
  PROVE  StreamInv'
<1> DEFINE e == SSE("message_start", "", 0)
<1>1. /\ Planned /\ Fitting /\ Gated /\ WellMade /\ HandlerTyped /\ WriterTyped
  BY DEF StreamInv, StreamTyped
<1>2. /\ calls # <<>> /\ Head(calls) \in BlockTypes \cup {"start"} /\ gate # "promoting"
      /\ ~started /\ started' /\ WriteSSE(e) /\ Quiet
      /\ UNCHANGED <<calls, activeType, blockIndex, flags>>
  BY DEF EnsureStarted, Block, Running
<1>3. pc \in {"handling", "closing"} /\ pc' = pc /\ parsed' = parsed /\ UNCHANGED <<keepalive, heard>>
      /\ UNCHANGED <<verdict, localStop>>
  BY <1>2, Called DEF Quiet, ping, flags
<1>4. e \in SSEs /\ e.event = "message_start" /\ e.index = 0
  BY StartEvent DEF SSE
<1> HIDE DEF e
<1>5. Tracked => Stream = <<>>
  BY <1>1, <1>2 DEF WellMade
<1>6. /\ OutTyped' /\ Gated' /\ WellMade'
      /\ Told' => Last' = e
      /\ CutSaysSo'
  BY <1>2, <1>3, <1>4, <1>5, Written
<1>7. HandlerTyped' /\ FlagsTyped' /\ KeepaliveTyped' /\ Phased'
  BY <1>1, <1>2, Quietly DEF HandlerTyped
<1>8. WriterTyped'
  BY <1>1, <1>2 DEF WriterTyped
<1>9. Planned'
  BY <1>1, <1>2, <1>3, SamePhase DEF Planned, Chained, EndOf
<1>10. activeType = "" /\ blockIndex = 0
  BY <1>1, <1>2 DEF Fitting
<1>11. Fitting'
  BY <1>2, <1>10 DEF Fitting, BlockTypes
<1>12. Told' => Placed'
  BY <1>2, <1>4, <1>6, <1>10 DEF Placed, BlockTypes
<1>13. Told' => Stopped'
  BY <1>2, <1>3, <1>4, <1>6, StaysOpen
<1> QED BY <1>6, <1>7, <1>8, <1>9, <1>11, <1>12, <1>13 DEF StreamInv, StreamTyped

LEMMA CloseActiveBlockKeeps ==
  ASSUME StreamInv, CloseActiveBlock
  PROVE  StreamInv'
<1> DEFINE e == SSE("content_block_stop", activeType, blockIndex - 1)
<1>1. /\ Planned /\ Fitting /\ HandlerTyped /\ WriterTyped
  BY DEF StreamInv, StreamTyped
<1>2. /\ calls # <<>> /\ gate # "promoting"
      /\ activeType # "" /\ activeType' = "" /\ WriteSSE(e) /\ Quiet
      /\ UNCHANGED <<started, blockIndex, flags>>
  BY DEF CloseActiveBlock, Block, Running
<1>3. pc \in {"handling", "closing"} /\ pc' = pc /\ parsed' = parsed /\ UNCHANGED <<keepalive, heard>>
      /\ UNCHANGED <<verdict, localStop>>
  BY <1>2, Called DEF Quiet, ping, flags
<1>4. started /\ blockIndex - 1 \in Nat /\ blockIndex \in Nat /\ activeType \in BlockTypes
  <2>1. started
    BY <1>1, <1>2 DEF Fitting, WriterTyped
  <2>2. blockIndex \in Nat /\ blockIndex > 0
    BY <1>1, <1>2 DEF Fitting, WriterTyped
  <2>3. blockIndex - 1 \in Nat
    BY <2>2
  <2>4. activeType \in BlockTypes
    BY <1>1, <1>2 DEF WriterTyped
  <2> QED BY <2>1, <2>2, <2>3, <2>4
<1>5. e \in SSEs /\ e.event = "content_block_stop" /\ e.index = blockIndex - 1 /\ e.what = activeType
  BY <1>4, BlockEvent DEF SSE
<1>6. Tracked => Told
  BY <1>3, <1>4 DEF Told
<1>7. Tracked => Stream # <<>> /\ Follows(Last, e)
  <2>1. ASSUME Tracked
        PROVE  Last.event \in {"content_block_start", "content_block_delta"}
               /\ Last.what = activeType /\ Last.index = blockIndex - 1 /\ Stream # <<>>
    <3>1. Last \in SSEs /\ Placed /\ Stream # <<>>
      BY <1>6, <2>1, LastSent
    <3>2. Last.index \in Nat /\ blockIndex = Last.index + 1
      BY <1>2, <3>1 DEF Placed, SSEs
    <3>3. Last.index = blockIndex - 1
      BY <3>2
    <3> QED BY <1>2, <3>1, <3>3 DEF Placed
  <2> QED BY <1>5, <2>1 DEF Follows
<1> HIDE DEF e
<1>8. /\ OutTyped' /\ Gated' /\ WellMade'
      /\ Told' => Last' = e
      /\ CutSaysSo'
  BY <1>2, <1>3, <1>4, <1>5, <1>7, Written
<1>9. \/ Head(calls) \in BlockTypes /\ UNCHANGED calls
      \/ Head(calls) = "close" /\ Return
  BY DEF CloseActiveBlock, Block, Running
<1>10. /\ Planned' /\ calls' \in Seq(Calls)
       /\ pc' = "closing" \/ localStop' # "" => calls' # <<>>
       /\ calls' # <<>> => Head(calls') \in BlockTypes \cup {"message_delta", "truncated_delta", "error"}
  <2>1. CASE UNCHANGED calls /\ Head(calls) \in BlockTypes
    BY <1>1, <1>2, <1>3, <2>1, SamePhase DEF Planned, Chained, EndOf, HandlerTyped
  <2>2. CASE Head(calls) = "close" /\ Return
    <3>1. /\ Planned' /\ calls' \in Seq(Calls)
          /\ calls' # <<>> => Leads(Head(calls), Head(calls'))
          /\ (pc = "closing" \/ localStop # "") /\ calls' = <<>> => Head(calls) \in Enders
      BY <1>2, <1>3, <2>2, Returned
    <3>2. Head(calls) \notin Enders
      BY <2>2 DEF Enders
    <3> QED BY <1>3, <2>2, <3>1, <3>2 DEF Leads
  <2> QED BY <1>9, <2>1, <2>2
<1>11. HandlerTyped' /\ FlagsTyped' /\ KeepaliveTyped' /\ Phased'
  BY <1>2, <1>10, Quietly
<1>12. WriterTyped'
  BY <1>1, <1>2 DEF WriterTyped
<1>13. Fitting'
  BY <1>2, <1>4, <1>10 DEF Fitting, BlockTypes
<1>14. Told' => Placed'
  <2>1. blockIndex' = e.index + 1
    <3>1. blockIndex' = blockIndex /\ e.index = blockIndex - 1 /\ blockIndex \in Nat
      BY <1>2, <1>4, <1>5
    <3> QED BY <3>1
  <2>2. ~(calls' # <<>> /\ Head(calls') = "message_stop")
    BY <1>10 DEF BlockTypes
  <2> QED BY <1>2, <1>5, <1>8, <2>1, <2>2 DEF Placed
<1>15. Told' => Stopped'
  BY <1>3, <1>5, <1>8, <1>10, StaysOpen
<1> QED BY <1>8, <1>10, <1>11, <1>12, <1>13, <1>14, <1>15 DEF StreamInv, StreamTyped

(* Outside a block, and before the answer ends, a block may open.          *)
LEMMA BetweenBlocks ==
  ASSUME StreamInv, Told, activeType = "",
         Last.event \notin {"message_stop", "message_delta"}
  PROVE  /\ Last.event \in {"message_start", "content_block_stop", "error"}
         /\ Last.event \in {"message_start", "error"} => Last.index = blockIndex
         /\ Last.event = "content_block_stop" => blockIndex = Last.index + 1
BY LastSent DEF Placed, SSEs, Kinds

LEMMA OpenBlockKeeps ==
  ASSUME StreamInv, OpenBlock
  PROVE  StreamInv'
<1> DEFINE c == Head(calls)
           e == SSE("content_block_start", c, blockIndex)
<1>1. /\ Planned /\ Fitting /\ HandlerTyped /\ WriterTyped
  BY DEF StreamInv, StreamTyped
<1>2. /\ calls # <<>> /\ gate # "promoting" /\ c \in BlockTypes /\ started
      /\ activeType = "" /\ WriteSSE(e) /\ Quiet
      /\ activeType' = c /\ blockIndex' = blockIndex + 1
      /\ UNCHANGED <<started, flags>>
  BY DEF OpenBlock, Block
<1>3. pc \in {"handling", "closing"} /\ pc' = pc /\ parsed' = parsed /\ UNCHANGED <<keepalive, heard>>
      /\ UNCHANGED <<verdict, localStop>>
  BY <1>2, Called DEF Quiet, ping, flags
<1>4. blockIndex \in Nat /\ blockIndex + 1 \in Nat /\ blockIndex + 1 > 0
  <2>1. blockIndex \in Nat
    BY <1>1 DEF WriterTyped
  <2> QED BY <2>1
<1>5. e \in SSEs /\ e.event = "content_block_start" /\ e.index = blockIndex /\ e.what = c
  BY <1>2, <1>4, BlockEvent DEF SSE
<1>6. Tracked => Told
  BY <1>2, <1>3 DEF Told
<1>7. Tracked => Stream # <<>> /\ Follows(Last, e)
  <2>1. ASSUME Tracked
        PROVE  Stream # <<>> /\ Last.event \notin {"message_stop", "message_delta"}
    <3>1. Placed /\ Stream # <<>>
      BY <1>6, <2>1, LastSent
    <3> QED BY <1>2, <1>6, <2>1, <3>1, Called DEF Placed, BlockTypes
  <2>2. ASSUME Tracked
        PROVE  Follows(Last, e)
    BY <1>2, <1>5, <1>6, <2>1, <2>2, BetweenBlocks DEF Follows
  <2> QED BY <2>1, <2>2
<1>8. /\ \/ c = "tool_use" /\ calls' = <<"tool_input">> \o Tail(calls)
         \/ c = "redacted_thinking" /\ calls' = <<"close">> \o Tail(calls)
         \/ c \in {"thinking", "text"} /\ calls' = calls
  BY <1>2 DEF OpenBlock, BlockTypes
<1> HIDE DEF e
<1>9. /\ OutTyped' /\ Gated' /\ WellMade'
      /\ Told' => Last' = e
      /\ CutSaysSo'
  BY <1>2, <1>3, <1>5, <1>7, Written
<1>10. /\ Planned' /\ calls' \in Seq(Calls) /\ calls' # <<>>
       /\ Head(calls') = IF c = "tool_use" THEN "tool_input"
                         ELSE IF c = "redacted_thinking" THEN "close" ELSE c
  <2>1. CASE c \in {"thinking", "text"} /\ calls' = calls
    BY <1>1, <1>2, <1>3, <2>1, SamePhase DEF Planned, Chained, EndOf, HandlerTyped
  <2>2. ASSUME NEW d \in {"tool_input", "close"},
               IF c = "tool_use" THEN d = "tool_input" ELSE c = "redacted_thinking" /\ d = "close",
               calls' = <<d>> \o Tail(calls)
        PROVE  /\ Planned' /\ calls' \in Seq(Calls) /\ calls' # <<>>
               /\ Head(calls') = d
    <3>1. /\ calls \in Seq(Callable) /\ calls \in Seq(Calls) /\ Chained(calls)
          /\ pc = "closing" \/ localStop # "" => EndOf(calls) \in Enders
      BY <1>1, <1>2 DEF Planned, HandlerTyped
    <3>2. d \in Callable /\ d \in Calls
      <4>1. c \in Callable
        BY <1>2, Called
      <4> QED BY <1>3, <2>2, <4>1 DEF Callable, Speaking, Calls
    <3>3. Tail(calls) # <<>> => Leads(c, Head(Tail(calls)))
      BY <1>2, <3>1, RestOfPlan
    <3>4. Tail(calls) # <<>> => Leads(d, Head(Tail(calls)))
      BY <2>2, <3>3 DEF Leads
    <3>5. /\ calls' \in Seq(Callable) /\ Chained(calls')
          /\ calls' # <<>> /\ Head(calls') = d
          /\ Tail(calls) # <<>> => EndOf(calls') = EndOf(calls)
      BY <1>2, <2>2, <3>1, <3>2, <3>4, ReplacedFirst, ZenonT(60)
    <3>6. calls' \in Seq(Calls)
      BY <1>2, <2>2, <3>1, <3>2, <3>4, ReplacedFirst, ZenonT(60)
    <3>7. Tail(calls) = <<>> => EndOf(calls) \notin Enders
      <4>1. Tail(calls) = <<>> => EndOf(calls) = c
        BY <1>2, <3>1, RestOfPlan
      <4> QED BY <1>2, <4>1 DEF Enders, BlockTypes
    <3>8. Chained(calls)' = Chained(calls') /\ EndOf(calls)' = EndOf(calls')
      BY DEF Chained, EndOf
    <3>9. Planned'
      BY <1>3, <3>1, <3>5, <3>7, <3>8, SamePhase DEF Planned
    <3> QED BY <3>5, <3>6, <3>9
  <2> QED BY <1>8, <2>1, <2>2, <1>2
<1>11. HandlerTyped' /\ FlagsTyped' /\ KeepaliveTyped' /\ Phased'
  BY <1>2, <1>10, Quietly
<1>12. WriterTyped'
  BY <1>1, <1>2, <1>4 DEF WriterTyped
<1>13. Fitting'
  <2>1. started' /\ activeType' # ""
    BY <1>2 DEF BlockTypes
  <2>2. blockIndex' > 0
    BY <1>2, <1>4
  <2>3. Head(calls') \notin {"message_delta", "truncated_delta", "message_stop", "error"}
    BY <1>2, <1>10 DEF BlockTypes
  <2>4. Head(calls') = "tool_input" => activeType' = "tool_use"
    BY <1>2, <1>10 DEF BlockTypes
  <2> QED BY <2>1, <2>2, <2>3, <2>4 DEF Fitting
<1>14. Told' => Placed'
  <2>1. blockIndex' = e.index + 1
    BY <1>2, <1>5
  <2>2. Head(calls') # "message_stop" /\ activeType' # ""
    BY <1>2, <1>10 DEF BlockTypes
  <2> QED BY <1>2, <1>5, <1>9, <2>1, <2>2 DEF Placed
<1>15. Told' => Stopped'
  BY <1>3, <1>5, <1>9, <1>10, StaysOpen
<1> QED BY <1>9, <1>10, <1>11, <1>12, <1>13, <1>14, <1>15 DEF StreamInv, StreamTyped

LEMMA WriteDeltaKeeps ==
  ASSUME StreamInv, WriteDelta
  PROVE  StreamInv'
<1> DEFINE e == SSE("content_block_delta", activeType, blockIndex - 1)
<1>1. /\ Planned /\ Fitting /\ HandlerTyped /\ WriterTyped
  BY DEF StreamInv, StreamTyped
<1>2. /\ calls # <<>> /\ gate # "promoting" /\ WriteSSE(e) /\ Quiet /\ Return
      /\ UNCHANGED <<writer, flags>>
      /\ Head(calls) \in {"thinking", "text", "tool_input"}
  BY DEF WriteDelta, Block, Continues, Running
<1>3. pc \in {"handling", "closing"} /\ pc' = pc /\ parsed' = parsed /\ UNCHANGED <<keepalive, heard>>
      /\ UNCHANGED <<verdict, localStop, started, activeType, blockIndex>>
  BY <1>2, Called DEF Quiet, ping, flags, writer
<1>4. activeType # ""
  BY <1>1, <1>2 DEF Fitting, WriteDelta, Continues, Running
<1>5. started /\ blockIndex - 1 \in Nat /\ blockIndex \in Nat /\ activeType \in BlockTypes
  <2>1. started
    BY <1>1, <1>4 DEF Fitting
  <2>2. blockIndex \in Nat /\ blockIndex > 0
    BY <1>1, <1>4 DEF Fitting, WriterTyped
  <2>3. blockIndex - 1 \in Nat
    BY <2>2
  <2>4. activeType \in BlockTypes
    BY <1>1, <1>4 DEF WriterTyped
  <2> QED BY <2>1, <2>2, <2>3, <2>4
<1>6. e \in SSEs /\ e.event = "content_block_delta" /\ e.index = blockIndex - 1 /\ e.what = activeType
  BY <1>5, BlockEvent DEF SSE
<1>7. Tracked => Told
  BY <1>3, <1>5 DEF Told
<1>8. Tracked => Stream # <<>> /\ Follows(Last, e)
  <2>1. ASSUME Tracked
        PROVE  Last.event \in {"content_block_start", "content_block_delta"}
               /\ Last.what = activeType /\ Last.index = blockIndex - 1 /\ Stream # <<>>
    <3>1. Last \in SSEs /\ Placed /\ Stream # <<>>
      BY <1>7, <2>1, LastSent
    <3>2. Last.index \in Nat /\ blockIndex = Last.index + 1
      BY <1>4, <3>1 DEF Placed, SSEs
    <3>3. Last.index = blockIndex - 1
      BY <3>2
    <3> QED BY <1>4, <3>1, <3>3 DEF Placed
  <2> QED BY <1>6, <2>1 DEF Follows
<1> HIDE DEF e
<1>9. /\ OutTyped' /\ Gated' /\ WellMade'
      /\ Told' => Last' = e
      /\ CutSaysSo'
  BY <1>2, <1>3, <1>5, <1>6, <1>8, Written
<1>10. /\ Planned' /\ calls' \in Seq(Calls)
       /\ pc' = "closing" \/ localStop' # "" => calls' # <<>>
       /\ calls' # <<>> => Head(calls') \in {"thinking", "text", "close", "finish"}
  <2>1. /\ Planned' /\ calls' \in Seq(Calls)
        /\ calls' # <<>> => Leads(Head(calls), Head(calls'))
        /\ (pc = "closing" \/ localStop # "") /\ calls' = <<>> => Head(calls) \in Enders
    BY <1>2, <1>3, Returned
  <2>2. Head(calls) \notin Enders
    BY <1>2 DEF Enders
  <2> QED BY <1>2, <1>3, <2>1, <2>2 DEF Leads
<1>11. HandlerTyped' /\ FlagsTyped' /\ KeepaliveTyped' /\ Phased'
  BY <1>2, <1>10, Quietly
<1>12. WriterTyped'
  BY <1>1, <1>3 DEF WriterTyped
<1>13. Fitting'
  <2>1. started' /\ blockIndex' > 0
    BY <1>1, <1>3, <1>4, <1>5 DEF Fitting
  <2> QED BY <1>10, <2>1 DEF Fitting
<1>14. Told' => Placed'
  <2>1. blockIndex' = e.index + 1
    <3>1. blockIndex' = blockIndex /\ e.index = blockIndex - 1 /\ blockIndex \in Nat
      BY <1>3, <1>5, <1>6
    <3> QED BY <3>1
  <2>2. calls' # <<>> => Head(calls') # "message_stop"
    BY <1>10
  <2> QED BY <1>3, <1>4, <1>6, <1>9, <2>1, <2>2 DEF Placed
<1>15. Told' => Stopped'
  BY <1>3, <1>6, <1>9, <1>10, StaysOpen
<1> QED BY <1>9, <1>10, <1>11, <1>12, <1>13, <1>14, <1>15 DEF StreamInv, StreamTyped

LEMMA ClosingEvent ==
  ASSUME NEW what \in LocalStops \cup {"", "tool_use", "end_turn"}, NEW i \in Nat,
         NEW event \in {"message_delta", "message_stop", "error"}
  PROVE  SSE(event, what, i) \in SSEs
BY DEF SSE, SSEs, Kinds, BlockTypes

(* The reason a closing event gives.                                       *)
LEMMA Reasons ==
  ASSUME StreamInv, calls # <<>>, Head(calls) \in {"message_delta", "truncated_delta"}
  PROVE  /\ {StopReason, CutReason} \subseteq LocalStops \cup {"", "tool_use", "end_turn"}
         /\ CutReason # "end_turn"
         /\ Head(calls) = "message_delta" =>
              StopReason # "end_turn" \/ (pc = "closing" /\ parsed \in EOF)
<1>1. localStop \in LocalStops \cup {""} /\ Phased
  BY DEF StreamInv, StreamTyped, FlagsTyped
<1>2. /\ {StopReason, CutReason} \subseteq LocalStops \cup {"", "tool_use", "end_turn"}
      /\ CutReason # "end_turn"
  BY <1>1 DEF CutReason, StopReason, LocalStops
<1>3. pc \in {"handling", "closing"} /\ Head(calls) \in Callable
  BY Called
<1>4. Head(calls) = "message_delta" =>
        (pc = "handling" /\ localStop # "") \/ (pc = "closing" /\ parsed \in EOF)
  BY <1>3 DEF Callable, Speaking, BlockTypes, Calls
<1> QED BY <1>1, <1>2, <1>4 DEF StopReason, LocalStops

(* A closing event stands between blocks.                                  *)
LEMMA ClosingWritten ==
  ASSUME StreamInv, NEW e \in SSEs, WriteSSE(e), Quiet, Return, UNCHANGED <<writer, flags>>,
         gate # "promoting", calls # <<>>,
         Head(calls) \in {"message_delta", "truncated_delta", "message_stop", "error"},
         Told => Stream # <<>> /\ Follows(Last, e),
         ~(e.event = "message_delta" /\ e.what = "end_turn")
           \/ (pc = "closing" /\ parsed \in EOF)
  PROVE  /\ StreamTyped' /\ Planned' /\ Fitting' /\ Phased' /\ Gated' /\ WellMade' /\ CutSaysSo'
         /\ Told' => Told /\ Last' = e
         /\ UNCHANGED <<pc, verdict, localStop, activeType, blockIndex>>
         /\ activeType = "" /\ pc \in {"handling", "closing"}
         /\ calls' # <<>> => Head(calls') = "message_stop"
                               /\ Head(calls) \in {"message_delta", "truncated_delta"}
         /\ (pc = "closing" \/ localStop # "") /\ calls' = <<>> => Head(calls) \in {"message_stop", "error"}
<1>1. /\ Planned /\ Fitting /\ HandlerTyped /\ WriterTyped
  BY DEF StreamInv, StreamTyped
<1>2. pc \in {"handling", "closing"} /\ pc' = pc /\ parsed' = parsed /\ UNCHANGED <<keepalive, heard>>
      /\ UNCHANGED <<verdict, localStop, started, activeType, blockIndex>>
  BY Called DEF Quiet, ping, flags, writer
<1>3. started /\ activeType = ""
  BY <1>1 DEF Fitting, BlockTypes
<1>4. Tracked => Told
  BY <1>2, <1>3 DEF Told
<1>5. /\ OutTyped' /\ Gated' /\ WellMade'
      /\ Told' => Tracked /\ Last' = e
      /\ ~(e.event = "message_delta" /\ e.what = "end_turn") => CutSaysSo'
  BY <1>2, <1>3, <1>4, Written
<1>6. CutSaysSo'
  BY <1>2, <1>5 DEF CutSaysSo
<1>7. /\ Planned' /\ calls' \in Seq(Calls)
      /\ calls' # <<>> => Leads(Head(calls), Head(calls'))
      /\ (pc = "closing" \/ localStop # "") /\ calls' = <<>> => Head(calls) \in Enders
  BY <1>2, Returned
<1>8. calls' # <<>> => Head(calls') = "message_stop" /\ Head(calls) \in {"message_delta", "truncated_delta"}
  BY <1>7 DEF Leads
<1>9. (pc = "closing" \/ localStop # "") /\ calls' = <<>> => Head(calls) \in {"message_stop", "error"}
  BY <1>7 DEF Enders
<1>10. HandlerTyped' /\ FlagsTyped' /\ KeepaliveTyped' /\ Phased'
  BY <1>7, Quietly
<1>11. WriterTyped'
  BY <1>1, <1>2 DEF WriterTyped
<1>12. Fitting'
  BY <1>2, <1>3, <1>8 DEF Fitting, BlockTypes
<1> QED BY <1>2, <1>3, <1>4, <1>5, <1>6, <1>7, <1>8, <1>9, <1>10, <1>11, <1>12 DEF StreamTyped

LEMMA WriteClosingKeeps ==
  ASSUME StreamInv, WriteClosing
  PROVE  StreamInv'
<1>1. Quiet /\ Return /\ UNCHANGED <<writer, flags>> /\ gate # "promoting" /\ calls # <<>>
  BY DEF WriteClosing, Running
<1>2. /\ pc \in {"handling", "closing"} /\ Head(calls) \in Callable
      /\ Told => Last.event # "message_stop"
      /\ Told /\ Last.event = "error" => pc = "closing" /\ EndOf(calls) \notin {"fail", "error"}
  BY <1>1, Called
<1>3. Fitting /\ blockIndex \in Nat
  BY DEF StreamInv, StreamTyped, WriterTyped
<1>4. ASSUME NEW what \in {StopReason, CutReason}, WriteSSE(SSE("message_delta", what, 0)),
             \/ Head(calls) = "message_delta" /\ what = StopReason
             \/ Head(calls) = "truncated_delta" /\ what = CutReason
      PROVE  StreamInv'
  <2> DEFINE e == SSE("message_delta", what, 0)
  <2>1. /\ what \in LocalStops \cup {"", "tool_use", "end_turn"}
        /\ what # "end_turn" \/ (pc = "closing" /\ parsed \in EOF)
    BY <1>1, <1>4, Reasons
  <2>2. e \in SSEs /\ e.event = "message_delta" /\ e.what = what /\ WriteSSE(e)
    BY <1>4, <2>1, ClosingEvent DEF SSE
  <2>3. activeType = ""
    BY <1>1, <1>3, <1>4 DEF Fitting
  <2>4. Told => Stream # <<>> /\ Follows(Last, e)
    <3>1. ASSUME Told
          PROVE  Stream # <<>> /\ Last.event \in {"message_start", "content_block_stop", "error"}
      <4>1. Placed /\ Stream # <<>>
        BY <3>1, LastSent
      <4>2. Last.event # "message_delta"
        BY <1>4, <4>1 DEF Placed
      <4> QED BY <1>2, <2>3, <3>1, <4>1, <4>2, BetweenBlocks
    <3> QED BY <2>2, <3>1 DEF Follows
  <2> HIDE DEF e
  <2>5. /\ StreamTyped' /\ Planned' /\ Fitting' /\ Phased' /\ Gated' /\ WellMade' /\ CutSaysSo'
        /\ Told' => Told /\ Last' = e
        /\ UNCHANGED <<pc, verdict, localStop, activeType, blockIndex>>
        /\ calls' # <<>> => Head(calls') = "message_stop"
        /\ (pc = "closing" \/ localStop # "") /\ calls' = <<>> => Head(calls) \in {"message_stop", "error"}
    BY <1>1, <1>4, <2>1, <2>2, <2>4, ClosingWritten
  <2>6. calls' # <<>> /\ Head(calls') = "message_stop"
    <3>1. pc = "closing" \/ localStop # ""
      BY <1>2, <1>4 DEF Callable, Speaking, BlockTypes
    <3> QED BY <1>4, <2>5, <3>1
  <2>7. Told' => Placed'
    BY <2>2, <2>3, <2>5, <2>6 DEF Placed
  <2>8. Told' => Stopped'
    BY <1>2, <2>2, <2>5, <2>6, StaysOpen
  <2> QED BY <2>5, <2>7, <2>8 DEF StreamInv
<1>5. ASSUME Head(calls) = "message_stop", WriteSSE(SSE("message_stop", "", 0))
      PROVE  StreamInv'
  <2> DEFINE e == SSE("message_stop", "", 0)
  <2>1. e \in SSEs /\ e.event = "message_stop" /\ WriteSSE(e)
    BY <1>5, ClosingEvent DEF SSE
  <2>2. Told => Stream # <<>> /\ Follows(Last, e)
    <3>1. ASSUME Told
          PROVE  Stream # <<>> /\ Last.event = "message_delta"
      <4>1. Placed /\ Stream # <<>>
        BY <3>1, LastSent
      <4> QED BY <1>1, <1>5, <4>1 DEF Placed
    <3> QED BY <2>1, <3>1 DEF Follows
  <2> HIDE DEF e
  <2>3. /\ StreamTyped' /\ Planned' /\ Fitting' /\ Phased' /\ Gated' /\ WellMade' /\ CutSaysSo'
        /\ Told' => Told /\ Last' = e
        /\ UNCHANGED <<pc, verdict, localStop, activeType, blockIndex>> /\ activeType = ""
        /\ calls' # <<>> => Head(calls) \in {"message_delta", "truncated_delta"}
    BY <1>1, <1>5, <2>1, <2>2, ClosingWritten
  <2>4. calls' = <<>>
    BY <1>5, <2>3
  <2>5. Told' => Placed'
    BY <2>1, <2>3, <2>4 DEF Placed
  <2>6. pc = "closing" \/ (pc = "handling" /\ localStop # "")
    BY <1>2, <1>5 DEF Callable, Speaking, BlockTypes
  <2>7. Told' => Stopped'
    BY <2>1, <2>3, <2>4, <2>6 DEF Stopped
  <2> QED BY <2>3, <2>5, <2>7 DEF StreamInv
<1>6. ASSUME Head(calls) = "error", WriteSSE(SSE("error", "", blockIndex))
      PROVE  StreamInv'
  <2> DEFINE e == SSE("error", "", blockIndex)
  <2>1. e \in SSEs /\ e.event = "error" /\ e.index = blockIndex /\ WriteSSE(e)
    BY <1>3, <1>6, ClosingEvent DEF SSE
  <2>2. activeType = ""
    BY <1>1, <1>3, <1>6 DEF Fitting
  <2>3. EndOf(calls) = "error"
    <3>1. calls \in Seq(Callable) /\ Chained(calls)
      BY DEF StreamInv, Planned
    <3>2. Tail(calls) = <<>>
      BY <1>1, <1>6, <3>1, RestOfPlan DEF Leads
    <3> QED BY <1>1, <1>6, <3>1, <3>2, RestOfPlan
  <2>4. Told => Stream # <<>> /\ Follows(Last, e)
    <3>1. ASSUME Told
          PROVE  Stream # <<>> /\ Last.event \in {"message_start", "content_block_stop"}
      <4>1. Placed /\ Stream # <<>>
        BY <3>1, LastSent
      <4>2. Last.event # "message_delta" /\ Last.event # "error"
        BY <1>2, <1>6, <2>3, <3>1, <4>1 DEF Placed
      <4> QED BY <1>2, <2>2, <3>1, <4>1, <4>2, BetweenBlocks
    <3> QED BY <2>1, <3>1 DEF Follows
  <2> HIDE DEF e
  <2>5. /\ StreamTyped' /\ Planned' /\ Fitting' /\ Phased' /\ Gated' /\ WellMade' /\ CutSaysSo'
        /\ Told' => Told /\ Last' = e
        /\ UNCHANGED <<pc, verdict, localStop, activeType, blockIndex>>
        /\ calls' # <<>> => Head(calls) \in {"message_delta", "truncated_delta"}
    BY <1>1, <1>6, <2>1, <2>4, ClosingWritten
  <2>6. calls' = <<>>
    BY <1>6, <2>5
  <2>7. Told' => Placed'
    BY <2>1, <2>2, <2>5, <2>6 DEF Placed
  <2>8. pc = "closing" \/ (pc = "handling" /\ localStop = "" /\ verdict)
    <3>1. verdict \in BOOLEAN
      BY DEF StreamInv, StreamTyped, HandlerTyped
    <3> QED BY <1>2, <1>6, <3>1 DEF Callable, Speaking, BlockTypes
  <2>9. pc = "closing" => parsed' = "severed"
    <3>1. Phased /\ HandlerTyped /\ parsed' = parsed
      BY <1>1 DEF StreamInv, StreamTyped, Quiet
    <3> QED BY <1>2, <1>6, <3>1 DEF Callable, Phased, HandlerTyped, EOF
  <2>10. Told' => Stopped'
    BY <2>1, <2>5, <2>6, <2>8, <2>9 DEF Stopped
  <2> QED BY <2>5, <2>7, <2>10 DEF StreamInv
<1> QED BY <1>4, <1>5, <1>6 DEF WriteClosing, Running

(* A step that sends nothing, and leaves the gate.                         *)
LEMMA Unsent ==
  ASSUME StreamInv, UNCHANGED <<gate, out, gone, started, ping>>,
         pc' \in {"handling", "deciding", "closing"}, pc # "done", pc' = "deciding" => gate # "promoting",
         gate # "promoting" \/ (UNCHANGED <<pc, calls>>)
  PROVE  /\ OutTyped' /\ Gated' /\ WellMade' /\ KeepaliveTyped'
         /\ (Told' <=> Told) /\ Last' = Last /\ Stream' = Stream
         /\ (pc' = "closing" /\ parsed' \in EOF) \/ ~(pc = "closing" /\ parsed \in EOF) => CutSaysSo'
<1>1. OutTyped /\ Gated /\ WellMade /\ KeepaliveTyped /\ CutSaysSo
  BY DEF StreamInv, StreamTyped
<1>2. OutTyped' /\ KeepaliveTyped'
  BY <1>1 DEF OutTyped, KeepaliveTyped, out, ping
<1>3. Gated'
  BY <1>1 DEF Gated, out, ping
<1>4. (Told' <=> Told) /\ (Tracked' <=> Tracked) /\ Stream' = Stream
  BY DEF Told, Tracked, Stream, out
<1>5. Last' = Last
  BY <1>4 DEF Last, EndOf
<1>6. WellMade'
  BY <1>1, <1>4 DEF WellMade, WellFormed, out
<1>7. (pc' = "closing" /\ parsed' \in EOF) \/ ~(pc = "closing" /\ parsed \in EOF) => CutSaysSo'
  BY <1>1 DEF CutSaysSo, NoEndTurn, out
<1> QED BY <1>2, <1>3, <1>4, <1>5, <1>6, <1>7

LEMMA AlreadyDoneKeeps ==
  ASSUME StreamInv, AlreadyDone
  PROVE  StreamInv'
<1>1. /\ Planned /\ Fitting /\ HandlerTyped /\ WriterTyped
  BY DEF StreamInv, StreamTyped
<1>2. /\ calls # <<>> /\ gate # "promoting" /\ Return /\ Quiet
      /\ UNCHANGED <<writer, gate, out, gone, flags>>
      /\ Head(calls) = "start" \/ (Head(calls) = "close" /\ activeType = "")
      /\ started
  BY <1>1 DEF AlreadyDone, Running, Fitting, BlockTypes
<1>3. /\ pc \in {"handling", "closing"} /\ pc' = pc /\ parsed' = parsed /\ UNCHANGED ping
      /\ UNCHANGED <<verdict, localStop, started, activeType, blockIndex>>
  BY <1>2, Called DEF Quiet, flags, writer
<1>4. /\ Planned' /\ calls' \in Seq(Calls)
      /\ calls' # <<>> => EndOf(calls') = EndOf(calls) /\ Leads(Head(calls), Head(calls'))
      /\ (pc = "closing" \/ localStop # "") /\ calls' = <<>> => Head(calls) \in Enders
  BY <1>2, <1>3, Returned
<1>5. pc = "closing" \/ localStop # "" => calls' # <<>>
  BY <1>2, <1>4 DEF Enders
<1>6. /\ OutTyped' /\ Gated' /\ WellMade' /\ KeepaliveTyped'
      /\ (Told' <=> Told) /\ Last' = Last /\ CutSaysSo'
  BY <1>2, <1>3, Unsent
<1>7. HandlerTyped' /\ FlagsTyped' /\ Phased'
  BY <1>2, <1>4, Quietly
<1>8. WriterTyped'
  BY <1>1, <1>3 DEF WriterTyped
<1>9. calls' # <<>> => Head(calls') \in {"thinking", "text", "close", "finish"}
                         \/ (activeType = "" /\ Head(calls') \in {"message_delta", "truncated_delta", "error"})
  BY <1>2, <1>4 DEF Leads
<1>10. Fitting'
  BY <1>1, <1>2, <1>3, <1>9 DEF Fitting
<1>11. Told' => Placed'
  <2>1. Head(calls) # "message_stop" /\ (calls' # <<>> => Head(calls') # "message_stop")
    BY <1>2, <1>9
  <2> QED BY <1>3, <1>6, <2>1, LastSent DEF Placed
<1>12. Told' => Stopped'
  <2>1. ASSUME Told'
        PROVE  Stopped'
    <3>1. /\ Last'.event # "message_stop"
          /\ Last'.event = "error" => pc = "closing" /\ EndOf(calls) \notin {"fail", "error"}
      BY <1>2, <1>6, <2>1, Called
    <3>2. EndOf(calls)' = EndOf(calls')
      BY DEF EndOf
    <3> QED BY <1>3, <1>4, <1>5, <3>1, <3>2 DEF Stopped
  <2> QED BY <2>1
<1> QED BY <1>4, <1>6, <1>7, <1>8, <1>10, <1>11, <1>12 DEF StreamInv, StreamTyped

LEMMA FireVisibleOutputKeeps ==
  ASSUME StreamInv, FireVisibleOutput
  PROVE  StreamInv'
<1>1. /\ StreamTyped /\ Planned /\ Fitting /\ Phased /\ Gated /\ WellMade /\ CutSaysSo
  BY DEF StreamInv
<1>2. /\ calls # <<>> /\ Head(calls) \in {"text", "tool_use"} /\ started
      /\ gate = "buffering" /\ gate' = "promoting"
      /\ UNCHANGED <<calls, writer, out, gone, flags>> /\ Quiet
  BY DEF FireVisibleOutput, Block
<1>3. /\ pc \in {"handling", "closing"} /\ pc' = pc /\ parsed' = parsed /\ UNCHANGED <<keepalive, heard>>
      /\ UNCHANGED <<verdict, localStop, started, activeType, blockIndex, buf, wire, writeErr, calls>>
  BY <1>2, Called DEF Quiet, flags, writer, out, ping
<1>4. HandlerTyped' /\ FlagsTyped' /\ KeepaliveTyped' /\ Phased'
  BY <1>1, <1>2, Quietly DEF StreamTyped, HandlerTyped
<1>5. WriterTyped' /\ OutTyped'
  BY <1>1, <1>2, <1>3 DEF StreamTyped, WriterTyped, OutTyped
<1>6. Planned' /\ Fitting'
  BY <1>1, <1>2, <1>3, SamePhase DEF Planned, Chained, EndOf, Fitting
<1>7. Gated'
  BY <1>1, <1>2, <1>3 DEF Gated
<1>8. (Told' <=> Told) /\ (Tracked' <=> Tracked) /\ Stream' = Stream
  BY <1>2, <1>3 DEF Told, Tracked, Stream
<1>9. Last' = Last
  BY <1>8 DEF Last, EndOf
<1>10. WellMade' /\ CutSaysSo'
  BY <1>1, <1>3, <1>8 DEF WellMade, WellFormed, CutSaysSo, NoEndTurn
<1>11. Told' => Placed' /\ Stopped'
  BY <1>3, <1>8, <1>9, LastSent DEF Placed, Stopped, EndOf
<1> QED BY <1>4, <1>5, <1>6, <1>7, <1>10, <1>11 DEF StreamInv, StreamTyped

(* What was held back reaches a client that is there as it was made.       *)
LEMMA PromoteKeeps ==
  ASSUME StreamInv, Promote
  PROVE  StreamInv'
<1>1. /\ StreamTyped /\ Planned /\ Fitting /\ Phased /\ Gated /\ WellMade /\ CutSaysSo
  BY DEF StreamInv
<1>2. /\ gate = "promoting" /\ gate' = "direct" /\ buf' = <<>>
      /\ UNCHANGED <<handler, writer, writeErr, gone, flags, keepalive>>
      /\ wire' = IF gone THEN wire ELSE wire \o buf
  BY DEF Promote
<1>3. /\ UNCHANGED <<pc, attempt, parsed, verdict, calls>>
      /\ UNCHANGED <<localStop, held, started, activeType, blockIndex>>
  BY <1>2 DEF handler, writer, flags
<1>4. pc \in {"handling", "closing"} /\ started /\ wire = <<>> /\ buf \in Seq(SSEs)
  BY <1>1, <1>2 DEF Gated, StreamTyped, OutTyped
<1>5. wire' = IF gone THEN <<>> ELSE buf
  BY <1>2, <1>4
<1>6. StreamTyped'
  <2>1. OutTyped'
    BY <1>1, <1>2, <1>4, <1>5, NothingSent DEF StreamTyped, OutTyped
  <2>2. HandlerTyped' /\ WriterTyped'
    BY <1>1, <1>3 DEF StreamTyped, HandlerTyped, WriterTyped
  <2>3. FlagsTyped' /\ KeepaliveTyped'
    BY <1>1, <1>2, <1>3 DEF StreamTyped, FlagsTyped, KeepaliveTyped
  <2> QED BY <2>1, <2>2, <2>3 DEF StreamTyped
<1>7. Planned' /\ Fitting' /\ Phased'
  BY <1>1, <1>3, SamePhase DEF Planned, Chained, EndOf, Fitting, Phased
<1>8. Gated'
  BY <1>1, <1>2, <1>3, <1>4 DEF Gated
<1>9. Told' => Told /\ Stream' = Stream /\ Last' = Last
  <2>1. Told' => Told /\ Stream' = Stream
    BY <1>2, <1>3, <1>4, <1>5 DEF Told, Tracked, Stream
  <2> QED BY <2>1 DEF Last, EndOf
<1>10. WellMade'
  <2>1. Stream = buf /\ Tracked /\ WellFormed(buf)
    BY <1>1, <1>2 DEF Stream, Tracked, WellMade
  <2>2. WellFormed(wire')
    BY <1>5, <2>1, NothingSent
  <2>3. Stream' = wire' /\ WellFormed(wire)' = WellFormed(wire') /\ WellFormed(Stream)' = WellFormed(Stream')
    BY <1>2 DEF Stream, WellFormed
  <2>4. Told' => Stream' # <<>>
    BY <1>9, LastSent
  <2> QED BY <1>3, <1>4, <2>2, <2>3, <2>4 DEF WellMade
<1>11. CutSaysSo'
  <2>1. NoEndTurn(buf) => NoEndTurn(wire') /\ NoEndTurn(buf')
    BY <1>2, <1>5, NothingSent
  <2>2. NoEndTurn(wire)' = NoEndTurn(wire') /\ NoEndTurn(buf)' = NoEndTurn(buf')
    BY DEF NoEndTurn
  <2> QED BY <1>1, <1>3, <2>1, <2>2 DEF CutSaysSo
<1>12. Told' => Placed' /\ Stopped'
  BY <1>3, <1>9, LastSent DEF Placed, Stopped, EndOf
<1> QED BY <1>6, <1>7, <1>8, <1>10, <1>11, <1>12 DEF StreamInv

(* The calls of the end of a stream: what was held back, and the closing.  *)
FinalCalls(rest, d) ==
  <<"start">> \o If("thinking" \in rest, "thinking") \o If("text" \in rest, "text")
    \o <<"close", d, "message_stop">>

LEMMA Finale ==
  ASSUME NEW A, {"start", "thinking", "text", "close", "message_stop"} \subseteq A,
         NEW d \in A, d \in {"message_delta", "truncated_delta"},
         NEW rest
  PROVE  /\ FinalCalls(rest, d) \in Seq(A) /\ Chained(FinalCalls(rest, d))
         /\ FinalCalls(rest, d) # <<>> /\ Head(FinalCalls(rest, d)) = "start"
         /\ EndOf(FinalCalls(rest, d)) = "message_stop"
<1> DEFINE i == If("thinking" \in rest, "thinking")
           j == If("text" \in rest, "text")
           r == <<"close", d, "message_stop">>
<1>1. FinalCalls(rest, d) = ((<<"start">> \o i) \o j) \o r
  BY DEF FinalCalls
<1>2. i \in {<<>>, <<"thinking">>} /\ j \in {<<>>, <<"text">>}
  BY DEF If
<1>3. r \in Seq(A) /\ Chained(r) /\ r # <<>> /\ Head(r) = "close" /\ EndOf(r) = "message_stop"
  <2>1. Leads("close", d) /\ Leads(d, "message_stop")
    BY DEF Leads
  <2> QED BY <2>1, ClosingPlan
<1> HIDE DEF i, j, r
<1>4. /\ j \in Seq(A) /\ j \o r \in Seq(A) /\ Chained(j \o r)
      /\ j \o r # <<>> /\ EndOf(j \o r) = "message_stop" /\ Head(j \o r) \in {"text", "close"}
  <2>1. Fits("text", r) /\ "text" \in A
    BY <1>3 DEF Fits, Leads
  <2> QED BY <1>2, <1>3, <2>1, Perhaps
<1> DEFINE t == j \o r
<1>5. t \in Seq(A) /\ Chained(t) /\ t # <<>> /\ EndOf(t) = "message_stop" /\ Head(t) \in {"text", "close"}
  BY <1>4
<1>6. ((<<"start">> \o i) \o j) \o r = <<"start">> \o (i \o t)
  <2>1. <<"start">> \in Seq(A) /\ i \in Seq(A)
    <3>1. "thinking" \in A
      OBVIOUS
    <3> QED BY <1>2, <3>1, AtMostOne
  <2>2. <<"start">> \o i \in Seq(A)
    BY <2>1, SMTT(30)
  <2>3. ((<<"start">> \o i) \o j) \o r = (<<"start">> \o i) \o t
    BY <1>3, <1>4, <2>2, Regrouped, SMTT(30)
  <2> HIDE DEF t
  <2>4. (<<"start">> \o i) \o t = <<"start">> \o (i \o t)
    BY <1>5, <2>1, Regrouped
  <2> QED BY <2>3, <2>4
<1> HIDE DEF t
<1>7. /\ i \o t \in Seq(A) /\ Chained(i \o t)
      /\ i \o t # <<>> /\ EndOf(i \o t) = "message_stop" /\ Head(i \o t) \in {"thinking", "text", "close"}
  <2>1. Fits("thinking", t) /\ "thinking" \in A
    BY <1>5 DEF Fits, Leads
  <2> QED BY <1>2, <1>5, <2>1, Perhaps
<1> DEFINE u == i \o t
<1>8. u \in Seq(A) /\ Chained(u) /\ u # <<>> /\ EndOf(u) = "message_stop" /\ Fits("start", u)
  BY <1>7 DEF Fits, Leads
<1> HIDE DEF u
<1>9. /\ <<"start">> \o u \in Seq(A) /\ Chained(<<"start">> \o u)
      /\ <<"start">> \o u # <<>> /\ Head(<<"start">> \o u) = "start"
      /\ EndOf(<<"start">> \o u) = EndOf(u)
  <2>1. "start" \in A
    OBVIOUS
  <2> QED BY <1>8, <2>1, Prepended
<1>10. FinalCalls(rest, d) = <<"start">> \o u
  BY <1>1, <1>6 DEF u
<1> QED BY <1>8, <1>9, <1>10

LEMMA FinalizeKeeps ==
  ASSUME StreamInv, Finalize
  PROVE  StreamInv'
<1>1. /\ StreamTyped /\ Planned /\ Fitting /\ Phased
  BY DEF StreamInv
<1>2. PICK rest \in SUBSET held, stop \in {localStop, "max_tokens"} :
        /\ stop # localStop => held # {} /\ localStop = ""
        /\ calls' = <<"start">> \o If("thinking" \in rest, "thinking")
                      \o If("text" \in rest, "text")
                      \o <<"close", IF Running("finish") THEN "message_delta"
                                    ELSE "truncated_delta", "message_stop">>
        /\ held' = {} /\ localStop' = stop
  BY DEF Finalize
<1>3. /\ UNCHANGED <<pc, attempt, parsed, verdict, writer, gate, out, gone, ping>>
      /\ Running("finish") \/ Running("truncate")
  BY DEF Finalize
<1>4. calls # <<>> /\ Head(calls) \in {"finish", "truncate"} /\ gate # "promoting"
  BY <1>3 DEF Running
<1>5. /\ pc \in {"handling", "closing"} /\ Head(calls) \in Callable
      /\ Told => Last.event # "message_stop"
      /\ Told /\ Last.event = "error" => pc = "closing"
      /\ UNCHANGED <<started, activeType, blockIndex>>
  BY <1>3, <1>4, Called DEF writer
<1>6. pc = "handling" => Running("finish") /\ localStop # "" /\ localStop' = localStop
  BY <1>2, <1>3, <1>5 DEF Running, Callable, Speaking, BlockTypes
<1>7. pc = "closing" => parsed \in EOF \/ Running("truncate")
  BY <1>3, <1>5 DEF Running, Callable
<1> DEFINE d == IF Running("finish") THEN "message_delta" ELSE "truncated_delta"
<1>8. Running("truncate") => d = "truncated_delta"
  BY DEF Running
<1>9. /\ {"start", "thinking", "text", "close", "message_stop"} \subseteq Callable'
      /\ d \in Callable' /\ d \in {"message_delta", "truncated_delta"}
  <2>1. CASE pc = "handling"
    BY <1>3, <1>6, <2>1 DEF Callable, Speaking, BlockTypes
  <2>2. CASE pc = "closing" /\ parsed \in EOF
    BY <1>3, <2>2 DEF Callable, Calls, BlockTypes, EOF
  <2>3. CASE pc = "closing" /\ parsed \notin EOF
    <3>1. Phased /\ HandlerTyped /\ parsed' = parsed
      BY <1>3 DEF StreamInv, StreamTyped
    <3>2. parsed' \in {"streamErr", "severed"} /\ pc' = "closing"
      BY <1>3, <2>3, <3>1 DEF Phased, HandlerTyped
    <3> QED BY <1>3, <1>7, <1>8, <2>3, <3>2 DEF Callable, Calls, BlockTypes
  <2> QED BY <1>5, <2>1, <2>2, <2>3
<1>10. calls' = FinalCalls(rest, d)
  BY <1>2 DEF FinalCalls
<1> HIDE DEF d
<1>11. /\ calls' \in Seq(Callable') /\ Chained(calls') /\ calls' # <<>>
       /\ Head(calls') = "start" /\ EndOf(calls') = "message_stop"
  <2>1. ASSUME NEW A, {"start", "thinking", "text", "close", "message_stop"} \subseteq A, d \in A
        PROVE  /\ calls' \in Seq(A) /\ Chained(calls') /\ calls' # <<>>
               /\ Head(calls') = "start" /\ EndOf(calls') = "message_stop"
    BY <1>9, <1>10, <2>1, Finale
  <2> QED BY <1>9, <2>1
<1>12. calls' \in Seq(Calls)
  <2>1. {"start", "thinking", "text", "close", "message_stop"} \subseteq Calls /\ d \in Calls
    BY <1>9 DEF Calls, BlockTypes
  <2> QED BY <1>9, <1>10, <2>1, Finale
<1>13. Chained(calls)' = Chained(calls') /\ EndOf(calls)' = EndOf(calls')
  BY DEF Chained, EndOf
<1>14. Planned'
  BY <1>3, <1>5, <1>11, <1>13 DEF Planned, Enders
<1>15. Fitting'
  BY <1>1, <1>5, <1>11 DEF Fitting
<1>16. HandlerTyped' /\ WriterTyped'
  BY <1>1, <1>3, <1>5, <1>12 DEF StreamTyped, HandlerTyped, WriterTyped
<1>17. FlagsTyped'
  BY <1>1, <1>2 DEF StreamTyped, FlagsTyped, LocalStops
<1>18. Phased'
  BY <1>1, <1>3, <1>5, <1>6 DEF Phased
<1>19. /\ OutTyped' /\ Gated' /\ WellMade' /\ KeepaliveTyped'
       /\ (Told' <=> Told) /\ Last' = Last /\ CutSaysSo'
  BY <1>3, <1>4, <1>5, Unsent
<1>20. Told' => Placed'
  <2>1. Told => Last.event # "message_delta"
    BY <1>4, LastSent DEF Placed
  <2> QED BY <1>5, <1>11, <1>19, <2>1, LastSent DEF Placed
<1>21. Told' => Stopped'
  BY <1>3, <1>5, <1>11, <1>13, <1>19 DEF Stopped
<1> QED BY <1>14, <1>15, <1>16, <1>17, <1>18, <1>19, <1>20, <1>21 DEF StreamInv, StreamTyped

LEMMA WriteErrorKeeps ==
  ASSUME StreamInv, WriteError
  PROVE  StreamInv'
<1>1. /\ StreamTyped /\ Planned /\ Fitting /\ Phased
  BY DEF StreamInv
<1>2. /\ calls # <<>> /\ Head(calls) = "fail" /\ gate # "promoting" /\ calls' = <<"close", "error">>
      /\ UNCHANGED <<pc, attempt, parsed, verdict, writer, gate, out, gone, flags, ping>>
  BY DEF WriteError, Running
<1>3. /\ pc \in {"handling", "closing"} /\ Head(calls) \in Callable
      /\ Told => Last.event # "message_stop"
      /\ Told /\ Last.event = "error" => EndOf(calls) \notin {"fail", "error"}
      /\ UNCHANGED <<started, activeType, blockIndex, localStop, held>>
  BY <1>2, Called DEF writer, flags
<1>4. EndOf(calls) = "fail"
  <2>1. Tail(calls) = <<>>
    BY <1>1, <1>2, RestOfPlan DEF Planned, Leads
  <2> QED BY <1>1, <1>2, <2>1, RestOfPlan DEF Planned
<1>5. /\ pc = "handling" => localStop = "" /\ verdict
      /\ {"close", "error"} \subseteq Callable
  <2>1. verdict \in BOOLEAN
    BY <1>1 DEF StreamTyped, HandlerTyped
  <2>2. pc = "handling" => localStop = "" /\ verdict
    BY <1>2, <1>3, <2>1 DEF Callable, Speaking, BlockTypes, Calls
  <2>3. CASE pc = "handling"
    BY <2>2, <2>3 DEF Callable, Speaking
  <2>4. CASE pc = "closing"
    <3>1. parsed = "severed"
      BY <1>1, <1>2, <1>3, <2>4 DEF Callable, StreamTyped, HandlerTyped, Phased, EOF
    <3> QED BY <2>4, <3>1 DEF Callable, Calls, EOF
  <2> QED BY <1>3, <2>2, <2>3, <2>4
<1>6. /\ calls' \in Seq(Callable) /\ calls' \in Seq(Calls) /\ Chained(calls') /\ calls' # <<>>
      /\ Head(calls') = "close" /\ EndOf(calls') = "error"
  <2>1. Leads("close", "error")
    BY DEF Leads
  <2>2. {"close", "error"} \subseteq Calls
    BY DEF Calls
  <2>3. calls' \in Seq(Calls)
    BY <1>2, <2>1, <2>2, ErrorPlan
  <2>4. "close" \in Callable /\ "error" \in Callable
    BY <1>5
  <2> QED BY <1>2, <2>1, <2>3, <2>4, ErrorPlan
<1>7. Chained(calls)' = Chained(calls') /\ EndOf(calls)' = EndOf(calls')
  BY DEF Chained, EndOf
<1>8. Planned'
  <2>1. pc = "closing" \/ localStop # "" => pc = "closing" /\ "error" \in Enders
    BY <1>3, <1>5 DEF Enders
  <2> QED BY <1>2, <1>3, <1>6, <1>7, <2>1, SamePhase DEF Planned
<1>9. Fitting'
  BY <1>1, <1>2, <1>3, <1>6 DEF Fitting, BlockTypes
<1>10. HandlerTyped' /\ WriterTyped' /\ FlagsTyped' /\ Phased'
  BY <1>1, <1>2, <1>3, <1>6 DEF StreamTyped, HandlerTyped, WriterTyped, FlagsTyped, Phased
<1>11. /\ OutTyped' /\ Gated' /\ WellMade' /\ KeepaliveTyped'
       /\ (Told' <=> Told) /\ Last' = Last /\ CutSaysSo'
  BY <1>2, <1>3, Unsent
<1>12. Told' => Placed'
  <2>1. Told => Last.event # "message_delta"
    BY <1>2, LastSent DEF Placed
  <2> QED BY <1>3, <1>6, <1>11, <2>1, LastSent DEF Placed
<1>13. Told' => Stopped'
  BY <1>2, <1>3, <1>4, <1>5, <1>6, <1>11 DEF Stopped
<1> QED BY <1>8, <1>9, <1>10, <1>11, <1>12, <1>13 DEF StreamInv, StreamTyped

-----------------------------------------------------------------------------
(* Steps that receive an event *)

(* An event's calls, when the last one has been dealt with.                *)
LEMMA Receipt ==
  ASSUME StreamInv, pc = "reading", pc' = "handling", verdict' \in BOOLEAN,
         parsed' \in {"open"} \cup EOF, held' \subseteq Held, localStop' \in LocalStops \cup {""},
         calls' \in Seq(Calls), calls' \in Seq(Callable'), Chained(calls'),
         localStop' # "" => verdict' /\ calls' # <<>> /\ EndOf(calls') = "finish",
         calls' # <<>> => Head(calls') \in BlockTypes \cup {"finish"}
                            \/ (Head(calls') = "fail" /\ started),
         UNCHANGED <<attempt, writer, gate, out, gone, ping>>
  PROVE  StreamInv'
<1>1. /\ StreamTyped /\ Planned /\ Fitting /\ Phased /\ Gated
  BY DEF StreamInv
<1>2. calls = <<>> /\ gate # "promoting" /\ localStop = ""
  BY <1>1 DEF Planned, Gated, Phased
<1>3. UNCHANGED <<started, activeType, blockIndex>>
  BY DEF writer
<1>4. Chained(calls)' = Chained(calls') /\ EndOf(calls)' = EndOf(calls')
  BY DEF Chained, EndOf
<1>5. Planned'
  BY <1>4 DEF Planned, Enders
<1>6. Fitting'
  BY <1>1, <1>3 DEF Fitting, BlockTypes
<1>7. Phased'
  BY DEF Phased
<1>8. HandlerTyped' /\ WriterTyped' /\ FlagsTyped'
  BY <1>1, <1>3 DEF StreamTyped, HandlerTyped, WriterTyped, FlagsTyped
<1>9. /\ OutTyped' /\ Gated' /\ WellMade' /\ KeepaliveTyped'
      /\ (Told' <=> Told) /\ Last' = Last /\ CutSaysSo'
  BY <1>2, <1>3, Unsent
<1>10. Told => Last.event \notin {"message_delta", "message_stop", "error"}
  BY <1>2, LastSent DEF Placed, Stopped
<1>11. Told' => Placed'
  <2>1. calls' # <<>> => Head(calls') # "message_stop"
    BY DEF BlockTypes
  <2> QED BY <1>3, <1>9, <1>10, <2>1, LastSent DEF Placed
<1>12. Told' => Stopped'
  BY <1>9, <1>10 DEF Stopped
<1> QED BY <1>5, <1>6, <1>7, <1>8, <1>9, <1>11, <1>12 DEF StreamInv, StreamTyped

(* The calls of a delta, which may stop the answer.                        *)
FinishFor(stop) == If(stop # "", "finish")
DeltaCalls(think, text, stop) ==
  If(think, "thinking") \o If(text, "text") \o FinishFor(stop)

Stoppable(A, stop) == stop # "" => "finish" \in A

LEMMA MayFinish ==
  ASSUME NEW A, NEW stop, Stoppable(A, stop)
  PROVE  /\ FinishFor(stop) \in Seq(A) /\ Chained(FinishFor(stop))
         /\ stop # "" => FinishFor(stop) # <<>> /\ EndOf(FinishFor(stop)) = "finish"
         /\ FinishFor(stop) # <<>> => Head(FinishFor(stop)) = "finish"
<1>1. CASE stop # ""
  <2>1. FinishFor(stop) = <<"finish">>
    BY <1>1 DEF If, FinishFor
  <2> QED BY <1>1, <2>1, ShortPlan DEF Stoppable
<1>2. CASE stop = ""
  <2>1. FinishFor(stop) = <<>>
    BY <1>2 DEF If, FinishFor
  <2> QED BY <1>2, <2>1, NoPlan
<1> QED BY <1>1, <1>2

LEMMA DeltaPlan ==
  ASSUME NEW A, {"thinking", "text"} \subseteq A, NEW think, NEW text, NEW stop,
         Stoppable(A, stop)
  PROVE  /\ DeltaCalls(think, text, stop) \in Seq(A) /\ Chained(DeltaCalls(think, text, stop))
         /\ stop # "" => /\ DeltaCalls(think, text, stop) # <<>>
                         /\ EndOf(DeltaCalls(think, text, stop)) = "finish"
         /\ DeltaCalls(think, text, stop) # <<>> =>
              Head(DeltaCalls(think, text, stop)) \in {"thinking", "text", "finish"}
<1> DEFINE i == If(think, "thinking")
           j == If(text, "text")
           r == FinishFor(stop)
<1>1. DeltaCalls(think, text, stop) = (i \o j) \o r
  BY DEF DeltaCalls
<1>2. i \in {<<>>, <<"thinking">>} /\ j \in {<<>>, <<"text">>}
  BY DEF If
<1>3. /\ r \in Seq(A) /\ Chained(r)
      /\ stop # "" => r # <<>> /\ EndOf(r) = "finish"
      /\ r # <<>> => Head(r) = "finish"
  BY MayFinish
<1> HIDE DEF i, j, r
<1>4. /\ j \in Seq(A) /\ j \o r \in Seq(A) /\ Chained(j \o r)
      /\ j \o r # <<>> => Head(j \o r) \in {"text", "finish"}
      /\ r # <<>> => j \o r # <<>> /\ EndOf(j \o r) = EndOf(r)
  <2>1. Fits("text", r) /\ "text" \in A
    BY <1>3 DEF Fits, Leads
  <2>2. r \in Seq(A) /\ Chained(r)
    BY <1>3
  <2>3. /\ j \in Seq(A) /\ j \o r \in Seq(A) /\ Chained(j \o r)
        /\ j \o r # <<>> => Head(j \o r) = "text" \/ (r # <<>> /\ Head(j \o r) = Head(r))
        /\ r # <<>> => j \o r # <<>> /\ EndOf(j \o r) = EndOf(r)
    BY <1>2, <2>1, <2>2, Perhaps
  <2> QED BY <1>3, <2>3
<1> DEFINE t == j \o r
<1>5. /\ t \in Seq(A) /\ Chained(t)
      /\ t # <<>> => Head(t) \in {"text", "finish"}
      /\ r # <<>> => t # <<>> /\ EndOf(t) = EndOf(r)
  BY <1>4
<1>6. (i \o j) \o r = i \o t
  <2>1. i \in Seq(A)
    <3>1. "thinking" \in A
      OBVIOUS
    <3> QED BY <1>2, <3>1, AtMostOne
  <2>2. j \in Seq(A) /\ r \in Seq(A)
    BY <1>3, <1>4
  <2> QED BY <2>1, <2>2, Regrouped
<1> HIDE DEF t
<1>7. /\ i \o t \in Seq(A) /\ Chained(i \o t)
      /\ i \o t # <<>> => Head(i \o t) \in {"thinking", "text", "finish"}
      /\ t # <<>> => i \o t # <<>> /\ EndOf(i \o t) = EndOf(t)
  <2>1. Fits("thinking", t) /\ "thinking" \in A
    BY <1>5 DEF Fits, Leads
  <2> QED BY <1>2, <1>5, <2>1, Perhaps
<1> QED BY <1>1, <1>3, <1>5, <1>6, <1>7

LEMMA AssistantKeeps ==
  ASSUME StreamInv, pc = "reading", Assistant
  PROVE  StreamInv'
<1>1. PICK think \in BOOLEAN, text \in BOOLEAN, tail \in SUBSET Held, stop \in LocalStops \cup {""} :
        /\ held' = tail /\ localStop' = stop /\ verdict' = (stop # "") /\ pc' = "handling"
        /\ calls' = If(think, "thinking") \o If(text, "text") \o If(stop # "", "finish")
        /\ UNCHANGED <<parsed, attempt, writer, gate, out, gone, ping>>
  BY ZenonT(60) DEF Assistant, Received
<1>2. calls' = DeltaCalls(think, text, stop)
  BY <1>1 DEF DeltaCalls, FinishFor
<1>3. ASSUME NEW A, {"thinking", "text"} \subseteq A, Stoppable(A, stop)
      PROVE  /\ calls' \in Seq(A) /\ Chained(calls')
             /\ stop # "" => calls' # <<>> /\ EndOf(calls') = "finish"
             /\ calls' # <<>> => Head(calls') \in {"thinking", "text", "finish"}
  BY <1>2, <1>3, DeltaPlan
<1>4. {"thinking", "text"} \subseteq Callable' /\ Stoppable(Callable', stop)
  BY <1>1 DEF Stoppable, Callable, Speaking, BlockTypes
<1>5. {"thinking", "text"} \subseteq Calls /\ Stoppable(Calls, stop)
  BY DEF Stoppable, Calls, BlockTypes
<1>6. calls' \in Seq(Calls) /\ calls' \in Seq(Callable')
  BY <1>3, <1>4, <1>5
<1>7. /\ Chained(calls')
      /\ stop # "" => calls' # <<>> /\ EndOf(calls') = "finish"
      /\ calls' # <<>> => Head(calls') \in BlockTypes \cup {"finish"}
  BY <1>3, <1>5 DEF BlockTypes
<1>8. parsed = "open"
  BY DEF StreamInv, Phased
<1> QED BY <1>1, <1>6, <1>7, <1>8, Receipt

(* The calls of an event with one block.                                   *)
LEMMA BlockPlan ==
  ASSUME NEW A, NEW c \in A, Leads(c, "finish"), NEW stop, Stoppable(A, stop)
  PROVE  /\ <<c>> \o FinishFor(stop) \in Seq(A) /\ Chained(<<c>> \o FinishFor(stop))
         /\ stop # "" => EndOf(<<c>> \o FinishFor(stop)) = "finish"
         /\ <<c>> \o FinishFor(stop) # <<>>
         /\ Head(<<c>> \o FinishFor(stop)) = c
<1> DEFINE r == FinishFor(stop)
<1>1. /\ r \in Seq(A) /\ Chained(r)
      /\ stop # "" => r # <<>> /\ EndOf(r) = "finish"
      /\ r # <<>> => Head(r) = "finish"
  BY MayFinish
<1> HIDE DEF r
<1>2. Fits(c, r)
  BY <1>1 DEF Fits
<1>3. /\ <<c>> \o r \in Seq(A) /\ Chained(<<c>> \o r) /\ <<c>> \o r # <<>> /\ Head(<<c>> \o r) = c
      /\ r # <<>> => EndOf(<<c>> \o r) = EndOf(r)
  BY <1>1, <1>2, Prepended, ZenonT(60)
<1> QED BY <1>1, <1>3 DEF r

(* An event with one block, which may use up the budget.                   *)
LEMMA OneBlock ==
  ASSUME StreamInv, pc = "reading", NEW c \in {"thinking", "tool_use"},
         NEW stop \in {"max_tokens", ""}, parsed' \in {"open"} \cup EOF, held' \subseteq Held,
         localStop' = stop, Received(<<c>> \o FinishFor(stop), stop # "")
  PROVE  StreamInv'
<1>1. /\ verdict' = (stop # "") /\ pc' = "handling"
      /\ calls' = <<c>> \o FinishFor(stop)
      /\ UNCHANGED <<attempt, writer, gate, out, gone, ping>>
  BY DEF Received
<1>2. ASSUME NEW A, c \in A, Stoppable(A, stop)
      PROVE  /\ calls' \in Seq(A) /\ Chained(calls') /\ calls' # <<>> /\ Head(calls') = c
             /\ stop # "" => EndOf(calls') = "finish"
  <2>1. Leads(c, "finish")
    BY DEF Leads
  <2> QED BY <1>1, <1>2, <2>1, BlockPlan
<1>3. c \in Callable' /\ Stoppable(Callable', stop)
  BY <1>1 DEF Stoppable, Callable, Speaking, BlockTypes
<1>4. c \in Calls /\ Stoppable(Calls, stop) /\ c \in BlockTypes
  BY DEF Stoppable, Calls, BlockTypes
<1>5. /\ calls' \in Seq(Calls) /\ calls' \in Seq(Callable')
      /\ Chained(calls') /\ calls' # <<>> /\ Head(calls') \in BlockTypes
      /\ stop # "" => EndOf(calls') = "finish"
  BY <1>2, <1>3, <1>4
<1>6. localStop' \in LocalStops \cup {""}
  BY DEF LocalStops
<1> QED BY <1>1, <1>5, <1>6, Receipt

LEMMA ReasoningKeeps ==
  ASSUME StreamInv, pc = "reading", Reasoning
  PROVE  StreamInv'
<1>1. PICK stop \in {"max_tokens", ""} :
        /\ localStop' = stop /\ UNCHANGED <<parsed, held>>
        /\ Received(<<"thinking">> \o FinishFor(stop), stop # "")
  BY DEF Reasoning, FinishFor
<1>2. parsed = "open" /\ held \subseteq Held
  BY DEF StreamInv, Phased, StreamTyped, FlagsTyped
<1> QED BY <1>1, <1>2, OneBlock

LEMMA ToolUseKeeps ==
  ASSUME StreamInv, pc = "reading", ToolUse
  PROVE  StreamInv'
<1>1. PICK stop \in {"max_tokens", ""}, end \in {"open"} \cup EOF :
        /\ localStop' = stop /\ parsed' = end /\ UNCHANGED held
        /\ Received(<<"tool_use">> \o FinishFor(stop), stop # "")
  BY DEF ToolUse, FinishFor
<1>2. held \subseteq Held
  BY DEF StreamInv, StreamTyped, FlagsTyped
<1> QED BY <1>1, <1>2, OneBlock

LEMMA RedactedKeeps ==
  ASSUME StreamInv, pc = "reading", Redacted
  PROVE  StreamInv'
<1>1. /\ verdict' = FALSE /\ pc' = "handling" /\ calls' = <<"redacted_thinking">>
      /\ UNCHANGED <<parsed, localStop, held, attempt, writer, gate, out, gone, ping>>
  BY DEF Redacted, Received, flags
<1>2. parsed = "open" /\ localStop = "" /\ held \subseteq Held
  BY DEF StreamInv, Phased, StreamTyped, FlagsTyped
<1>3. /\ "redacted_thinking" \in Callable' /\ "redacted_thinking" \in Calls
      /\ "redacted_thinking" \in BlockTypes
  BY <1>1, <1>2 DEF Callable, Speaking, Calls, BlockTypes
<1>4. /\ calls' \in Seq(Calls) /\ calls' \in Seq(Callable')
      /\ Chained(calls') /\ Head(calls') = "redacted_thinking"
  BY <1>1, <1>3, ShortPlan
<1> QED BY <1>1, <1>2, <1>3, <1>4, Receipt

LEMMA RefusedKeeps ==
  ASSUME StreamInv, pc = "reading", Refused
  PROVE  StreamInv'
<1>1. /\ verdict' = TRUE /\ pc' = "handling" /\ calls' = If(started, "fail")
      /\ UNCHANGED <<parsed, localStop, held, attempt, writer, gate, out, gone, ping>>
  BY DEF Refused, Received, flags
<1>2. parsed = "open" /\ localStop = "" /\ held \subseteq Held
  BY DEF StreamInv, Phased, StreamTyped, FlagsTyped
<1>3. "fail" \in Callable' /\ "fail" \in Calls
  BY <1>1, <1>2 DEF Callable, Calls
<1>4. /\ calls' \in Seq(Calls) /\ calls' \in Seq(Callable') /\ Chained(calls')
      /\ calls' # <<>> => Head(calls') = "fail" /\ started
  <2>1. CASE started
    <3>1. calls' = <<"fail">>
      BY <1>1, <2>1 DEF If
    <3> QED BY <1>3, <2>1, <3>1, ShortPlan
  <2>2. CASE ~started
    <3>1. calls' = <<>>
      BY <1>1, <2>2 DEF If
    <3> QED BY <3>1, NoPlan
  <2> QED BY <2>1, <2>2
<1> QED BY <1>1, <1>2, <1>4, Receipt

-----------------------------------------------------------------------------
(* Steps that settle what comes next *)

(* Reading comes to an end.                                                *)
LEMMA Ended ==
  ASSUME StreamInv, pc \in {"reading", "handling"}, calls = <<>>, pc' = "deciding",
         parsed' \in {"streamErr", "localStop", "severed"} \cup EOF,
         UNCHANGED <<attempt, verdict, calls, writer, gate, out, gone, flags, ping>>,
         Told => IF parsed' = "localStop" THEN Last.event = "message_stop"
                 ELSE /\ Last.event # "message_stop"
                      /\ Last.event = "error" => parsed' = "streamErr",
         parsed' # "localStop" => localStop = "" \/ ~Told
  PROVE  StreamInv'
<1>1. /\ StreamTyped /\ Planned /\ Fitting /\ Gated
  BY DEF StreamInv
<1>2. gate # "promoting"
  BY <1>1 DEF Gated
<1>3. UNCHANGED <<started, activeType, blockIndex, localStop, held>>
  BY DEF writer, flags
<1>4. Planned'
  <2>1. <<>> \in Seq(Callable') /\ Chained(<<>>)
    BY NoPlan
  <2>2. Chained(calls)' = Chained(calls')
    BY DEF Chained
  <2> QED BY <2>1, <2>2 DEF Planned
<1>5. Fitting' /\ Phased'
  BY <1>1, <1>3 DEF Fitting, Phased, EOF
<1>6. HandlerTyped' /\ WriterTyped' /\ FlagsTyped'
  BY <1>1, <1>3 DEF StreamTyped, HandlerTyped, WriterTyped, FlagsTyped
<1>7. /\ OutTyped' /\ Gated' /\ WellMade' /\ KeepaliveTyped'
      /\ (Told' <=> Told) /\ Last' = Last /\ CutSaysSo'
  BY <1>2, <1>3, Unsent
<1>8. Told' => Placed'
  BY <1>3, <1>7, LastSent DEF Placed
<1>9. Told' => Stopped'
  BY <1>7 DEF Stopped
<1> QED BY <1>4, <1>5, <1>6, <1>7, <1>8, <1>9 DEF StreamInv, StreamTyped

LEMMA NoticeGoneKeeps ==
  ASSUME StreamInv, pc = "reading", NoticeGone
  PROVE  StreamInv'
<1>1. writeErr /\ calls = <<>>
  BY DEF NoticeGone, StreamInv, Planned
<1>2. ~Told
  BY <1>1 DEF StreamInv, StreamTyped, OutTyped, Gated, Told, Tracked
<1> QED BY <1>1, <1>2, Ended DEF NoticeGone

LEMMA EndsKeeps ==
  ASSUME StreamInv, pc = "reading", Ends
  PROVE  StreamInv'
<1>1. calls = <<>> /\ localStop = ""
  BY DEF StreamInv, Planned, Phased
<1>2. Told => Last.event \notin {"message_stop", "error"}
  BY LastSent DEF Stopped
<1> QED BY <1>1, <1>2, Ended DEF Ends, EOF

LEMMA HandledKeeps ==
  ASSUME StreamInv, Handled
  PROVE  StreamInv'
<1>1. /\ StreamTyped /\ Planned /\ Fitting /\ Phased /\ Gated
      /\ parsed \in {"open"} \cup EOF /\ verdict \in BOOLEAN /\ (localStop # "" => verdict)
  BY DEF StreamInv, StreamTyped, HandlerTyped, Phased, Handled
<1>2. /\ pc = "handling" /\ calls = <<>>
      /\ UNCHANGED <<attempt, verdict, calls, writer, gate, out, gone, flags, ping>>
  BY DEF Handled
<1>3. writeErr => ~Told
  BY <1>1, <1>2 DEF StreamTyped, OutTyped, Gated, Told, Tracked
<1>4. CASE parsed' # "open"
  <2>1. pc' = "deciding"
    BY <1>4 DEF Handled
  <2>2. parsed' \in {"streamErr", "localStop", "severed"} \cup EOF
    BY <1>1, <1>4 DEF Handled
  <2>3. parsed' # "localStop" => localStop = "" \/ ~Told
    BY <1>1, <1>3 DEF Handled
  <2>4. Told => IF parsed' = "localStop" THEN Last.event = "message_stop"
                ELSE /\ Last.event # "message_stop"
                     /\ Last.event = "error" => parsed' = "streamErr"
    <3>1. ASSUME Told
          PROVE  IF parsed' = "localStop" THEN Last.event = "message_stop"
                 ELSE /\ Last.event # "message_stop"
                      /\ Last.event = "error" => parsed' = "streamErr"
      <4>1. Stopped
        BY <3>1, LastSent
      <4>2. parsed' = IF ~verdict THEN parsed
                      ELSE IF localStop # "" THEN "localStop" ELSE "streamErr"
        BY <1>3, <3>1 DEF Handled
      <4> QED BY <1>1, <1>2, <4>1, <4>2 DEF Stopped, EOF
    <3> QED BY <3>1
  <2> QED BY <1>2, <2>1, <2>2, <2>3, <2>4, Ended
<1>5. CASE parsed' = "open"
  <2>1. pc' = "reading" /\ ~writeErr /\ ~verdict /\ parsed' = parsed /\ localStop = ""
    BY <1>1, <1>5 DEF Handled
  <2>2. UNCHANGED <<started, activeType, blockIndex, localStop, held, keepalive, heard, buf, wire, writeErr>>
    BY <1>2 DEF writer, flags, ping, out
  <2>3. gate # "promoting"
    BY <1>1, <1>2 DEF Gated
  <2>4. Planned'
    <3>1. <<>> \in Seq(Callable') /\ Chained(<<>>)
      BY NoPlan
    <3>2. Chained(calls)' = Chained(calls')
      BY DEF Chained
    <3> QED BY <1>2, <2>1, <2>2, <3>1, <3>2 DEF Planned
  <2>5. Fitting' /\ Phased' /\ Gated'
    BY <1>1, <1>2, <1>5, <2>1, <2>2, <2>3 DEF Fitting, Phased, Gated
  <2>6. HandlerTyped' /\ WriterTyped' /\ FlagsTyped'
    BY <1>1, <1>2, <1>5, <2>1, <2>2 DEF StreamTyped, HandlerTyped, WriterTyped, FlagsTyped
  <2>7. OutTyped' /\ KeepaliveTyped'
    BY <1>1, <1>2, <2>2 DEF StreamTyped, OutTyped, KeepaliveTyped
  <2>8. (Told' <=> Told) /\ (Tracked' <=> Tracked) /\ Stream' = Stream
    BY <1>2, <2>1, <2>2 DEF Told, Tracked, Stream
  <2>9. Last' = Last
    BY <2>8 DEF Last, EndOf
  <2>10. WellMade' /\ CutSaysSo'
    <3>1. WellMade /\ CutSaysSo
      BY DEF StreamInv
    <3> QED BY <1>2, <2>1, <2>2, <2>8, <3>1 DEF WellMade, WellFormed, CutSaysSo, NoEndTurn
  <2>11. Told' => Placed'
    BY <1>2, <2>2, <2>8, <2>9, LastSent DEF Placed
  <2>12. Told' => Stopped'
    <3>1. Told => Last.event \notin {"message_stop", "error"}
      BY <1>2, <2>1, LastSent DEF Stopped
    <3> QED BY <2>1, <2>8, <2>9, <3>1 DEF Stopped
  <2> QED BY <2>4, <2>5, <2>6, <2>7, <2>10, <2>11, <2>12 DEF StreamInv, StreamTyped
<1> QED BY <1>4, <1>5

(* A second attempt begins before the client has anything of the first.    *)
LEMMA Restarted ==
  ASSUME StreamInv, pc \in {"deciding", "closing"}, gate = "buffering", Restart
  PROVE  StreamInv' /\ wire' = <<>> /\ heard' = 0
<1>1. /\ StreamTyped /\ Gated
  BY DEF StreamInv
<1>2. wire = <<>> /\ heard = 0 /\ ~writeErr
  BY <1>1 DEF Gated
<1>3. /\ attempt' = 2 /\ pc' = "calling" /\ parsed' = "open" /\ verdict' = FALSE /\ calls' = <<>>
      /\ started' = FALSE /\ activeType' = "" /\ blockIndex' = 0
      /\ buf' = <<>> /\ held' = {} /\ localStop' = ""
      /\ UNCHANGED <<gate, wire, writeErr, gone, keepalive, heard>>
  BY DEF Restart
<1>4. /\ <<>> \in Seq(Calls) /\ <<>> \in Seq(Callable') /\ Chained(<<>>)
  BY NoPlan
<1>5. HandlerTyped'
  <2>1. attempt' \in Attempts
    <3>1. attempt' = 2
      BY <1>3
    <3> QED BY <3>1 DEF Attempts
  <2> QED BY <1>3, <1>4, <2>1 DEF HandlerTyped
<1>6. WriterTyped' /\ FlagsTyped'
  BY <1>3 DEF WriterTyped, FlagsTyped
<1>7. OutTyped' /\ KeepaliveTyped'
  BY <1>1, <1>3, NothingSent DEF StreamTyped, OutTyped, KeepaliveTyped
<1>8. Planned'
  <2>1. Chained(calls)' = Chained(calls')
    BY DEF Chained
  <2> QED BY <1>3, <1>4, <2>1 DEF Planned
<1>9. Fitting' /\ Phased'
  BY <1>3 DEF Fitting, Phased
<1>10. Gated'
  BY <1>1, <1>2, <1>3 DEF Gated
<1>11. WellMade' /\ CutSaysSo' /\ ~Told'
  BY <1>2, <1>3, NothingSent DEF WellMade, WellFormed, CutSaysSo, NoEndTurn, Stream, Told
<1> QED BY <1>2, <1>3, <1>5, <1>6, <1>7, <1>8, <1>9, <1>10, <1>11 DEF StreamInv, StreamTyped

(* An error of its own is all the client gets of a stream that is rejected. *)
LEMMA Refusal ==
  ASSUME StreamInv, pc # "done", gate = "buffering", calls = <<>>, AnswerJSON, buf' = <<>>,
         UNCHANGED <<attempt, parsed, verdict, calls, writer, gate, writeErr, gone, flags, ping>>
  PROVE  StreamInv'
<1>1. /\ StreamTyped /\ Planned /\ Fitting /\ Gated
  BY DEF StreamInv
<1>2. wire = <<>> /\ pc' = "done" /\ UNCHANGED <<keepalive, heard>>
  BY <1>1 DEF Gated, AnswerJSON, ping
<1>3. wire' \in {<<>>, <<JSON>>}
  <2>1. Append(<<>>, JSON) = <<JSON>>
    OBVIOUS
  <2> QED BY <1>2, <2>1 DEF AnswerJSON
<1>4. UNCHANGED <<started, activeType, blockIndex, localStop, held>>
  BY DEF writer, flags
<1>5. wire' \in Seq(SSEs) /\ buf' \in Seq(SSEs) /\ WellFormed(wire') /\ NoEndTurn(wire') /\ NoEndTurn(buf')
      /\ WellFormed(buf')
  BY <1>3, NothingSent
<1>6. HandlerTyped' /\ WriterTyped' /\ FlagsTyped'
  BY <1>1, <1>2, <1>4 DEF StreamTyped, HandlerTyped, WriterTyped, FlagsTyped
<1>7. OutTyped' /\ KeepaliveTyped'
  BY <1>1, <1>2, <1>5 DEF StreamTyped, OutTyped, KeepaliveTyped
<1>8. Planned'
  <2>1. <<>> \in Seq(Callable') /\ Chained(<<>>)
    BY NoPlan
  <2>2. Chained(calls)' = Chained(calls')
    BY DEF Chained
  <2> QED BY <2>1, <2>2 DEF Planned
<1>9. Fitting' /\ Phased'
  BY <1>1, <1>2, <1>4 DEF Fitting, Phased
<1>10. Gated'
  BY <1>1, <1>2, <1>3, <1>4 DEF Gated
<1>11. ~Told' /\ Stream' = buf'
  BY <1>2 DEF Told, Stream
<1>12. WellMade'
  <2>1. WellFormed(wire)' = WellFormed(wire') /\ WellFormed(Stream)' = WellFormed(Stream')
    BY DEF WellFormed
  <2> QED BY <1>5, <1>11, <2>1 DEF WellMade
<1>13. CutSaysSo'
  <2>1. NoEndTurn(wire)' = NoEndTurn(wire') /\ NoEndTurn(buf)' = NoEndTurn(buf')
    BY DEF NoEndTurn
  <2> QED BY <1>5, <2>1 DEF CutSaysSo
<1> QED BY <1>6, <1>7, <1>8, <1>9, <1>10, <1>11, <1>12, <1>13 DEF StreamInv, StreamTyped

LEMMA CallFailsKeeps ==
  ASSUME StreamInv, CallFails
  PROVE  StreamInv'
<1>1. calls = <<>> /\ gate = "buffering" /\ buf = <<>> /\ pc # "done"
  BY DEF CallFails, StreamInv, Planned, Gated
<1> QED BY <1>1, Refusal DEF CallFails

LEMMA ReconsiderKeeps ==
  ASSUME StreamInv, Reconsider \/ Broken
  PROVE  StreamInv'
<1>1. calls = <<>> /\ pc = "deciding" /\ gate = "buffering" /\ (Restart \/ Rejected)
  BY DEF Reconsider, Broken, StreamInv, Planned
<1>2. Rejected => StreamInv'
  BY <1>1, Refusal DEF Rejected
<1> QED BY <1>1, <1>2, Restarted

LEMMA CloseKeeps ==
  ASSUME StreamInv, Close
  PROVE  StreamInv'
<1>1. /\ StreamTyped /\ Planned /\ Fitting /\ Phased /\ Gated
  BY DEF StreamInv
<1>2. /\ pc = "deciding" /\ pc' = "closing" /\ calls = <<>> /\ gate # "promoting"
      /\ UNCHANGED <<attempt, parsed, verdict, writer, gate, out, gone, flags, ping>>
      /\ parsed \in EOF \/ (parsed \in {"streamErr", "severed"} /\ gate = "direct")
      /\ calls' = Ending[parsed]
  BY <1>1 DEF Close, Planned, Gated
<1>3. UNCHANGED <<started, activeType, blockIndex, localStop, held>>
  BY <1>2 DEF writer, flags
<1> DEFINE c == CASE parsed \in EOF -> "finish" [] parsed = "streamErr" -> "truncate" [] OTHER -> "fail"
<1>4. calls' = <<c>>
  BY <1>2 DEF Ending, EOF
<1>5. /\ c \in {"finish", "truncate", "fail"} /\ c \in Calls /\ c \in Callable'
      /\ c = "fail" => parsed = "severed" /\ started
      /\ c = "finish" => parsed \in EOF
      /\ c = "truncate" => parsed = "streamErr"
  BY <1>1, <1>2 DEF Callable, Calls, Gated, EOF
<1> HIDE DEF c
<1>6. /\ calls' \in Seq(Calls) /\ calls' \in Seq(Callable')
      /\ Chained(calls') /\ calls' # <<>> /\ Head(calls') = c /\ EndOf(calls') = c
  BY <1>4, <1>5, ShortPlan
<1>7. Chained(calls)' = Chained(calls') /\ EndOf(calls)' = EndOf(calls')
  BY DEF Chained, EndOf
<1>8. Planned'
  BY <1>2, <1>5, <1>6, <1>7 DEF Planned, Enders
<1>9. Fitting'
  BY <1>1, <1>3, <1>5, <1>6 DEF Fitting
<1>10. Phased'
  BY <1>1, <1>2 DEF Phased, EOF
<1>11. HandlerTyped' /\ WriterTyped' /\ FlagsTyped'
  BY <1>1, <1>2, <1>3, <1>6 DEF StreamTyped, HandlerTyped, WriterTyped, FlagsTyped
<1>12. /\ OutTyped' /\ Gated' /\ WellMade' /\ KeepaliveTyped'
       /\ (Told' <=> Told) /\ Last' = Last /\ CutSaysSo'
  BY <1>2, <1>3, Unsent
<1>13. Told' => Placed'
  <2>1. Told => Last.event # "message_delta"
    BY <1>2, LastSent DEF Placed
  <2>2. Head(calls') # "message_stop"
    BY <1>5, <1>6
  <2> QED BY <1>3, <1>6, <1>12, <2>1, <2>2, LastSent DEF Placed
<1>14. Told' => Stopped'
  <2>1. Told => /\ Last.event # "message_stop"
                /\ Last.event = "error" => parsed = "streamErr"
    BY <1>2, LastSent DEF Stopped, EOF
  <2>2. c = "fail" => parsed' # "streamErr"
    BY <1>2, <1>5
  <2> QED BY <1>2, <1>5, <1>6, <1>7, <1>12, <2>1, <2>2 DEF Stopped, EOF
<1> QED BY <1>8, <1>9, <1>10, <1>11, <1>12, <1>13, <1>14 DEF StreamInv, StreamTyped

(* The handler returns behind a stream that has been ended.                *)
LEMMA Returns ==
  ASSUME StreamInv, pc \in {"deciding", "closing"}, calls = <<>>, pc' = "done",
         pc = "deciding" => parsed = "localStop",
         UNCHANGED <<attempt, parsed, verdict, calls, writer, gate, out, gone, flags, ping>>
  PROVE  StreamInv'
<1>1. /\ StreamTyped /\ Planned /\ Fitting /\ Phased /\ Gated /\ WellMade /\ CutSaysSo
  BY DEF StreamInv
<1>2. UNCHANGED <<started, activeType, blockIndex, localStop, held, buf, wire, writeErr, keepalive, heard>>
  BY DEF writer, flags, out, ping
<1>3. HandlerTyped' /\ WriterTyped' /\ FlagsTyped'
  BY <1>1, <1>2 DEF StreamTyped, HandlerTyped, WriterTyped, FlagsTyped
<1>4. OutTyped' /\ KeepaliveTyped'
  BY <1>1, <1>2 DEF StreamTyped, OutTyped, KeepaliveTyped
<1>5. Planned'
  <2>1. <<>> \in Seq(Callable') /\ Chained(<<>>)
    BY NoPlan
  <2>2. Chained(calls)' = Chained(calls')
    BY DEF Chained
  <2> QED BY <2>1, <2>2 DEF Planned
<1>6. Fitting' /\ Phased' /\ Gated'
  BY <1>1, <1>2 DEF Fitting, Phased, Gated
<1>7. (Told' => Told) /\ (Tracked' <=> Tracked) /\ Stream' = Stream
  BY <1>2 DEF Told, Tracked, Stream
<1>8. Last' = Last
  BY <1>7 DEF Last, EndOf
<1>9. WellMade'
  BY <1>1, <1>2, <1>7 DEF WellMade, WellFormed
<1>10. CutSaysSo'
  BY <1>1, <1>2 DEF CutSaysSo, NoEndTurn
<1>11. Told' => Placed'
  BY <1>2, <1>7, <1>8, LastSent DEF Placed
<1>12. Told' => Stopped'
  <2>1. Told => Last.event = "message_stop" \/ (parsed = "severed" /\ Last.event = "error")
    BY LastSent DEF Stopped
  <2> QED BY <1>7, <1>8, <2>1 DEF Stopped
<1> QED BY <1>3, <1>4, <1>5, <1>6, <1>9, <1>10, <1>11, <1>12 DEF StreamInv, StreamTyped

LEMMA StoppedHereKeeps ==
  ASSUME StreamInv, StoppedHere
  PROVE  StreamInv'
<1>1. calls = <<>>
  BY DEF StoppedHere, StreamInv, Planned
<1> QED BY <1>1, Returns DEF StoppedHere

LEMMA ClosedKeeps ==
  ASSUME StreamInv, Closed
  PROVE  StreamInv'
<1>1. CASE parsed \in EOF /\ IsEmptyVisibleEndTurn /\ gate = "buffering"
  <2>1. Rejected => StreamInv'
    BY <1>1, Refusal DEF Closed, Rejected
  <2> QED BY <1>1, <2>1, Restarted DEF Closed
<1>2. CASE ~(parsed \in EOF /\ IsEmptyVisibleEndTurn /\ gate = "buffering")
  BY <1>2, Returns DEF Closed
<1> QED BY <1>1, <1>2

LEMMA AnsweredKeeps ==
  ASSUME StreamInv, Answered
  PROVE  StreamInv'
<1>1. /\ StreamTyped /\ Planned /\ Fitting /\ Phased /\ Gated /\ WellMade /\ CutSaysSo
  BY DEF StreamInv
<1>2. /\ pc = "calling" /\ pc' = "reading" /\ keepalive' = [keepalive EXCEPT ![attempt] = "waiting"]
      /\ calls = <<>> /\ gate = "buffering" /\ ~started
      /\ UNCHANGED <<attempt, parsed, verdict, calls, started, activeType, blockIndex, gate,
                     buf, wire, writeErr, gone, held, localStop, heard>>
  BY <1>1 DEF Answered, Planned, Gated, writer, out, flags
<1>3. HandlerTyped' /\ WriterTyped' /\ FlagsTyped'
  BY <1>1, <1>2 DEF StreamTyped, HandlerTyped, WriterTyped, FlagsTyped
<1>4. OutTyped' /\ KeepaliveTyped'
  <2>1. KeepaliveTyped'
    BY <1>1, <1>2 DEF StreamTyped, KeepaliveTyped
  <2>2. OutTyped'
    BY <1>1, <1>2 DEF StreamTyped, OutTyped
  <2> QED BY <2>1, <2>2
<1>5. Planned'
  <2>1. <<>> \in Seq(Callable') /\ Chained(<<>>)
    BY NoPlan
  <2>2. Chained(calls)' = Chained(calls')
    BY DEF Chained
  <2> QED BY <1>1, <1>2, <2>1, <2>2 DEF Planned, Phased
<1>6. Fitting' /\ Phased'
  BY <1>1, <1>2 DEF Fitting, Phased
<1>7. Gated'
  <2>1. \A a \in Attempts : keepalive'[a] = "direct" => gate' # "buffering"
    BY <1>1, <1>2 DEF StreamTyped, KeepaliveTyped, HandlerTyped, Gated
  <2> QED BY <1>1, <1>2, <2>1 DEF Gated
<1>8. ~Told' /\ (Tracked' <=> Tracked) /\ Stream' = Stream
  BY <1>2 DEF Told, Tracked, Stream
<1>9. WellMade' /\ CutSaysSo'
  BY <1>1, <1>2, <1>8 DEF WellMade, WellFormed, CutSaysSo, NoEndTurn
<1> QED BY <1>3, <1>4, <1>5, <1>6, <1>7, <1>8, <1>9 DEF StreamInv, StreamTyped

-----------------------------------------------------------------------------
(* The keepalives and the client *)

(* Nothing beside the handler changes the answer.                          *)
LEMMA Beside ==
  ASSUME StreamInv, UNCHANGED <<handler, writer, gate, buf, wire, flags>>,
         KeepaliveTyped', writeErr' \in BOOLEAN, gone' \in BOOLEAN, gone => gone',
         writeErr' => gone', gate = "buffering" => UNCHANGED <<heard, writeErr>>,
         \A a \in Attempts : keepalive'[a] = "direct" => gate # "buffering"
  PROVE  StreamInv'
<1>1. /\ StreamTyped /\ Planned /\ Fitting /\ Phased /\ Gated /\ WellMade /\ CutSaysSo
  BY DEF StreamInv
<1>2. UNCHANGED <<pc, attempt, parsed, verdict, calls, started, activeType, blockIndex, localStop, held>>
  BY DEF handler, writer, flags
<1>3. HandlerTyped' /\ WriterTyped' /\ FlagsTyped'
  BY <1>1, <1>2 DEF StreamTyped, HandlerTyped, WriterTyped, FlagsTyped
<1>4. OutTyped'
  BY <1>1 DEF StreamTyped, OutTyped
<1>5. Planned' /\ Fitting' /\ Phased'
  BY <1>1, <1>2, SamePhase DEF Planned, Chained, EndOf, Fitting, Phased
<1>6. Gated'
  BY <1>1, <1>2 DEF Gated
<1>7. (Told' => Told) /\ (Tracked' => Tracked) /\ Stream' = Stream
  BY <1>2 DEF Told, Tracked, Stream
<1>8. Last' = Last
  BY <1>7 DEF Last, EndOf
<1>9. WellMade' /\ CutSaysSo'
  BY <1>1, <1>2, <1>7 DEF WellMade, WellFormed, CutSaysSo, NoEndTurn
<1>10. Told' => Placed' /\ Stopped'
  BY <1>2, <1>7, <1>8, LastSent DEF Placed, Stopped, EndOf
<1> QED BY <1>3, <1>4, <1>5, <1>6, <1>9, <1>10 DEF StreamInv, StreamTyped

LEMMA KeepaliveKeeps ==
  ASSUME StreamInv, NEW a \in Attempts, Tick(a) \/ Keepalive(a)
  PROVE  StreamInv'
<1>1. KeepaliveTyped /\ Gated /\ writeErr \in BOOLEAN /\ gone \in BOOLEAN
  BY DEF StreamInv, StreamTyped, OutTyped
<1>2. UNCHANGED <<handler, writer, gate, buf, wire, flags, gone>>
  BY DEF Tick, Keepalive, WritePing, PingWritten, KeepaliveStops, out
<1>3. PICK new \in {"waiting", "ticked", "buffered", "direct", "stopped"} :
        /\ keepalive' = [keepalive EXCEPT ![a] = new]
        /\ new = "direct" => gate # "buffering"
  BY DEF Tick, Keepalive, WritePing, PingWritten, KeepaliveStops
<1>4. KeepaliveTyped'
  BY <1>1, <1>3 DEF KeepaliveTyped
<1>5. \A b \in Attempts : keepalive'[b] = "direct" => gate # "buffering"
  BY <1>1, <1>3 DEF KeepaliveTyped, Gated
<1>6. /\ writeErr' \in BOOLEAN /\ (writeErr' => gone')
      /\ gate = "buffering" => UNCHANGED <<heard, writeErr>>
  <2>1. CASE PingWritten(a)
    <3>1. CASE keepalive[a] = "buffered"
      BY <1>1, <1>2, <2>1, <3>1 DEF PingWritten, Gated
    <3>2. CASE keepalive[a] # "buffered"
      <4>1. gate # "buffering" /\ (IF gone THEN writeErr' \in BOOLEAN ELSE UNCHANGED writeErr)
        BY <1>1, <2>1, <3>2 DEF PingWritten, Gated
      <4> QED BY <1>1, <1>2, <4>1 DEF Gated
    <3> QED BY <3>1, <3>2
  <2>2. CASE ~PingWritten(a)
    <3>1. UNCHANGED <<heard, writeErr>>
      BY <2>2 DEF Tick, Keepalive, WritePing, KeepaliveStops, out
    <3> QED BY <1>1, <1>2, <3>1 DEF Gated
  <2> QED BY <2>1, <2>2
<1> QED BY <1>1, <1>2, <1>4, <1>5, <1>6, Beside

LEMMA ClientLeavesKeeps ==
  ASSUME StreamInv, ClientLeaves
  PROVE  StreamInv'
<1>1. KeepaliveTyped /\ Gated /\ writeErr \in BOOLEAN
  BY DEF StreamInv, StreamTyped, OutTyped
<1>2. /\ UNCHANGED <<handler, writer, gate, buf, wire, flags, heard, writeErr, keepalive>> /\ gone'
      /\ gone' \in BOOLEAN
  BY DEF ClientLeaves, out, ping
<1>3. KeepaliveTyped' /\ (\A a \in Attempts : keepalive'[a] = "direct" => gate # "buffering")
  BY <1>1, <1>2 DEF KeepaliveTyped, Gated
<1> QED BY <1>1, <1>2, <1>3, Beside

-----------------------------------------------------------------------------
(* The theorems *)

LEMMA StepKeeps ==
  ASSUME StreamInv, [Next]_vars
  PROVE  StreamInv'
<1>1. CASE CallFails \/ Answered
  BY <1>1, CallFailsKeeps, AnsweredKeeps
<1>2. CASE Receive
  BY <1>2, AssistantKeeps, ReasoningKeeps, RedactedKeeps, ToolUseKeeps, RefusedKeeps,
     NoticeGoneKeeps, EndsKeeps DEF Receive
<1>3. CASE Write
  BY <1>3, EnsureStartedKeeps, FireVisibleOutputKeeps, PromoteKeeps, CloseActiveBlockKeeps,
     OpenBlockKeeps, WriteDeltaKeeps, AlreadyDoneKeeps, FinalizeKeeps, WriteErrorKeeps,
     WriteClosingKeeps DEF Write
<1>4. CASE Settle
  BY <1>4, HandledKeeps, ReconsiderKeeps, CloseKeeps, StoppedHereKeeps, ClosedKeeps DEF Settle
<1>5. CASE ClientLeaves
  BY <1>5, ClientLeavesKeeps
<1>6. CASE \E a \in Attempts : Tick(a) \/ Keepalive(a)
  BY <1>6, KeepaliveKeeps
<1>7. CASE UNCHANGED vars
  <2>1. /\ KeepaliveTyped /\ Gated /\ writeErr \in BOOLEAN /\ gone \in BOOLEAN
    BY DEF StreamInv, StreamTyped, OutTyped
  <2>2. UNCHANGED <<handler, writer, gate, buf, wire, flags, gone, heard, writeErr, keepalive>>
    BY <1>7 DEF vars, out, ping
  <2>3. KeepaliveTyped' /\ (\A a \in Attempts : keepalive'[a] = "direct" => gate # "buffering")
    BY <2>1, <2>2 DEF KeepaliveTyped, Gated
  <2>4. writeErr' \in BOOLEAN /\ gone' \in BOOLEAN /\ (gone => gone') /\ (writeErr' => gone')
    BY <2>1, <2>2 DEF Gated
  <2> QED BY <2>2, <2>3, <2>4, Beside
<1> QED BY <1>1, <1>2, <1>3, <1>4, <1>5, <1>6, <1>7 DEF Next, Handle

(* The invariant the properties rest on.                                   *)
THEOREM StreamInvariant == StreamSpec => []StreamInv
<1>1. Init => StreamInv
  BY Started
<1>2. StreamInv /\ [Next]_vars => StreamInv'
  BY StepKeeps
<1> QED BY <1>1, <1>2, PTL DEF StreamSpec

(* However many events the upstream sends and keepalives tick, what the    *)
(* client has received is the beginning of a well-formed answer            *)
(* (streaming.go HandleEvent, GateWriter, handleStreamingResponse).        *)
THEOREM AnswersAreWellFormed == StreamSpec => []EnvelopeOK
<1>1. StreamInv => EnvelopeOK
  BY DEF StreamInv, WellMade, EnvelopeOK
<1> QED BY <1>1, StreamInvariant, PTL

(* The handler never returns in the middle of an answer that a client who  *)
(* is still there has begun to see; only a stream that breaks in the middle *)
(* of a frame, falls idle or is cancelled ends it with an error event and   *)
(* no message_stop (response.go:108-111).                                   *)
THEOREM AnswersAreFinished == StreamSpec => []NeverHalfAnswered
<1>1. StreamInv => NeverHalfAnswered
  <2> SUFFICES ASSUME StreamInv, pc = "done", ~gone, wire # <<>>
               PROVE  \/ EndOf(wire).event \in {"message_stop", "json"}
                      \/ parsed = "severed" /\ EndOf(wire).event = "error"
    BY DEF NeverHalfAnswered
  <2>1. Gated /\ Planned
    BY DEF StreamInv
  <2>2. CASE gate = "direct"
    <3>1. Told /\ Last = EndOf(wire) /\ calls = <<>>
      BY <2>1, <2>2 DEF Gated, Planned, Told, Tracked, Last, Stream
    <3> QED BY <3>1, LastSent DEF Stopped
  <2>3. CASE gate # "direct"
    <3>1. wire = <<JSON>>
      BY <2>1, <2>3 DEF Gated
    <3>2. Len(<<JSON>>) = 1 /\ <<JSON>>[1] = JSON
      OBVIOUS
    <3> QED BY <3>1, <3>2 DEF EndOf, JSON, SSE
  <2> QED BY <2>2, <2>3
<1> QED BY <1>1, StreamInvariant, PTL

(* An answer is reported complete only where the upstream's body has ended  *)
(* for readFrame, which takes a connection broken between two frames for    *)
(* such an end (frame.go:29-33): never behind an error event, a broken      *)
(* frame, the idle timeout or a cancelled context (response.go:86-111).     *)
THEOREM OnlyTheEndCompletes == StreamSpec => []CompleteOnlyAtEOF
<1>1. StreamInv => CompleteOnlyAtEOF
  BY DEF StreamInv, CutSaysSo, NoEndTurn, CompleteOnlyAtEOF
<1> QED BY <1>1, StreamInvariant, PTL

(* A retry starts over only while the client has received nothing at all   *)
(* of the first attempt (gate_writer.go:13-15).                            *)
THEOREM RetriesAreInvisible == StreamSpec => RetryIsInvisible
<1>1. StreamInv /\ [Next]_vars => [attempt' # attempt => wire' = <<>> /\ heard' = 0]_vars
  <2> SUFFICES ASSUME StreamInv, Next, attempt' # attempt
               PROVE  wire' = <<>> /\ heard' = 0
    OBVIOUS
  <2>1. Reconsider \/ Closed
    <3>1. ~ClientLeaves /\ ~(\E a \in Attempts : Tick(a) \/ Keepalive(a))
      BY DEF ClientLeaves, Tick, Keepalive, WritePing, PingWritten, KeepaliveStops, handler
    <3>2. ~CallFails /\ ~Answered /\ ~Receive
      BY DEF CallFails, Answered, Receive, Assistant, Reasoning, Redacted, ToolUse, Refused,
             Received, NoticeGone, Ends
    <3>3. ~Write
      BY DEF Write, EnsureStarted, FireVisibleOutput, Promote, CloseActiveBlock, OpenBlock,
             WriteDelta, AlreadyDone, Finalize, WriteError, WriteClosing, Quiet, handler
    <3>4. ~Handled /\ ~Broken /\ ~Close /\ ~StoppedHere
      BY DEF Handled, Broken, Rejected, Close, StoppedHere
    <3> QED BY <3>1, <3>2, <3>3, <3>4 DEF Next, Handle, Settle
  <2>2. Restart /\ gate = "buffering" /\ pc \in {"deciding", "closing"}
    BY <2>1 DEF Reconsider, Closed, Rejected
  <2> QED BY <2>2, Restarted
<1> QED BY <1>1, StreamInvariant, PTL DEF StreamSpec, RetryIsInvisible

(* On the OpenAI route the same pipeline runs behind the pipe: every step   *)
(* of the translator, and of the client behind it, leaves it alone, so that *)
(* what enters the pipe has the properties above.                          *)
THEOREM OpenAIRunsTheStream == OpenAISpec => StreamSpec
<1>1. OpenAIInit => Init
  BY DEF OpenAIInit
<1>2. [OpenAINext]_openAIVars => [Next]_vars
  <2>1. Pipeline => Next
    BY DEF Pipeline, Next
  <2>2. Translator \/ Chat \/ LeaveOpenAI => UNCHANGED vars
    BY DEF Translator, HandleFrame, Disconnected, WriteDone, Chat, ClosePipe, RelayError, LeaveOpenAI
  <2>3. UNCHANGED openAIVars => UNCHANGED vars
    BY DEF openAIVars
  <2> QED BY <2>1, <2>2, <2>3 DEF OpenAINext
<1> QED BY <1>1, <1>2, PTL DEF OpenAISpec, StreamSpec

-----------------------------------------------------------------------------
(* Behind the pipe: the blocks of an answer *)

(* A text or tool block has a delta, and the one delta of a tool block is  *)
(* its input.                                                              *)
Filled(a, b) ==
  /\ a.event = "content_block_start" /\ a.what \in {"text", "tool_use"} => b.event = "content_block_delta"
  /\ a.event = "content_block_delta" /\ a.what = "tool_use" => b.event = "content_block_stop"

Whole(s) == \A i \in 1 .. Len(s) - 1 : Filled(s[i], s[i + 1])

(* The call that a block, when it has been opened, waits for.              *)
Awaited(what) ==
  CASE what = "tool_use" -> "tool_input" [] what = "redacted_thinking" -> "close" [] OTHER -> what

Blocks ==
  /\ Whole(Stream)
  /\ Stream # <<>> /\ Last.event = "content_block_start" =>
       calls # <<>> /\ Head(calls) = Awaited(Last.what)
  /\ calls # <<>> /\ Head(calls) = "tool_input" =>
       Stream # <<>> /\ Last.event = "content_block_start"

LEMMA GoesOnWhole ==
  ASSUME NEW s \in Seq(SSEs), Whole(s), NEW e \in SSEs, s # <<>> => Filled(EndOf(s), e)
  PROVE  Whole(Append(s, e))
<1> DEFINE t == Append(s, e)
<1>1. /\ Len(t) = Len(s) + 1 /\ Len(s) \in Nat
      /\ \A i \in 1 .. Len(s) : t[i] = s[i]
      /\ t[Len(s) + 1] = e
  OBVIOUS
<1> HIDE DEF t
<1>2. ASSUME NEW i \in 1 .. Len(t) - 1
      PROVE  Filled(t[i], t[i + 1])
  <2>1. CASE i = Len(s)
    <3>1. s # <<>> /\ i \in 1 .. Len(s)
      BY <1>1, <2>1
    <3> QED BY <1>1, <2>1, <3>1 DEF EndOf
  <2>2. CASE i # Len(s)
    <3>1. i \in 1 .. Len(s) - 1 /\ i + 1 \in 1 .. Len(s) /\ i \in 1 .. Len(s)
      BY <1>1, <2>2
    <3> QED BY <1>1, <3>1 DEF Whole
  <2> QED BY <2>1, <2>2
<1> QED BY <1>2 DEF Whole, t

LEMMA NothingWhole == Whole(<<>>) /\ Whole(<<JSON>>)
<1>1. Len(<<>>) = 0 /\ Len(<<JSON>>) = 1
  OBVIOUS
<1> QED BY <1>1 DEF Whole

(* A write to a client who is there goes on with the answer.               *)
LEMMA BlocksWritten ==
  ASSUME StreamInv, Blocks, ~gone, NEW e \in SSEs, WriteSSE(e), gate # "promoting",
         Stream # <<>> => Filled(Last, e),
         e.event = "content_block_start" => calls' # <<>> /\ Head(calls') = Awaited(e.what),
         e.event # "content_block_start" /\ calls' # <<>> => Head(calls') # "tool_input"
  PROVE  Blocks'
<1>1. OutTyped /\ ~writeErr /\ gate' = gate
  BY DEF StreamInv, StreamTyped, Gated, WriteSSE
<1>2. Stream' = Append(Stream, e) /\ Stream \in Seq(SSEs)
  BY <1>1 DEF WriteSSE, Stream, OutTyped
<1>3. Whole(Append(Stream, e))
  BY <1>2, GoesOnWhole DEF Blocks, Last
<1>4. Stream' # <<>> /\ EndOf(Stream') = e
  BY <1>2, EndOfAppended
<1>5. Last' = e /\ Whole(Stream)' = Whole(Stream')
  BY <1>4 DEF Last, EndOf, Whole
<1> QED BY <1>2, <1>3, <1>4, <1>5 DEF Blocks

(* A step that writes nothing comes between blocks' events.                *)
LEMMA BlocksAlone ==
  ASSUME Blocks, Stream' = Stream,
         calls' = calls
           \/ /\ Stream # <<>> => Last.event # "content_block_start"
              /\ calls' # <<>> => Head(calls') # "tool_input"
  PROVE  Blocks'
<1>1. Last' = Last /\ Whole(Stream)' = Whole(Stream')
  BY DEF Last, EndOf, Whole
<1> QED BY <1>1 DEF Blocks

(* With no call to run, or another one than a block waits for, none is     *)
(* waiting.                                                                *)
LEMMA NotAwaited ==
  ASSUME StreamInv, Blocks, Stream # <<>>,
         calls = <<>> \/ Head(calls) \notin BlockTypes \cup {"tool_input", "close"}
           \/ (Head(calls) = "close" /\ activeType = ""),
         ~gone
  PROVE  Last.event # "content_block_start"
<1> SUFFICES ASSUME Last.event = "content_block_start"
             PROVE  FALSE
  OBVIOUS
<1>1. calls # <<>> /\ Head(calls) = Awaited(Last.what)
  BY DEF Blocks
<1>2. Planned /\ Gated /\ WellMade
  BY DEF StreamInv
<1>3. Told
  BY <1>1, <1>2 DEF Told, Tracked, Planned, WellMade
<1>4. Last \in SSEs /\ Placed
  BY <1>3, LastSent
<1>5. activeType # "" /\ Last.what = activeType
  BY <1>4 DEF Placed
<1>6. activeType \in BlockTypes
  BY <1>5 DEF StreamInv, StreamTyped, WriterTyped
<1>7. Head(calls) \in BlockTypes \cup {"tool_input", "close"}
  BY <1>1, <1>5, <1>6 DEF Awaited, BlockTypes
<1> QED BY <1>1, <1>5, <1>7

(* Where a writer whose client is there stands.                            *)
LEMMA WriterThere ==
  ASSUME StreamInv, ~gone, calls # <<>>, started
  PROVE  /\ Told /\ Last \in SSEs /\ Stream # <<>> /\ Placed
         /\ activeType \in BlockTypes \cup {""} /\ blockIndex \in Nat
         /\ activeType # "" => /\ blockIndex - 1 \in Nat /\ Last.what = activeType
                               /\ Last.event \in {"content_block_start", "content_block_delta"}
         /\ activeType = "" => Last.event \notin {"content_block_start", "content_block_delta"}
<1>1. Planned /\ Fitting /\ WriterTyped
  BY DEF StreamInv, StreamTyped
<1>2. Told
  BY <1>1 DEF Told, Tracked, Planned
<1>3. Last \in SSEs /\ Stream # <<>> /\ Placed
  BY <1>2, LastSent
<1>4. activeType # "" => blockIndex - 1 \in Nat
  <2>1. blockIndex \in Nat
    BY <1>1 DEF WriterTyped
  <2>2. blockIndex > 0 => blockIndex - 1 \in Nat
    BY <2>1
  <2> QED BY <1>1, <2>2 DEF Fitting
<1> QED BY <1>1, <1>2, <1>3, <1>4 DEF Placed, WriterTyped

LEMMA EnsureStartedBlocks ==
  ASSUME StreamInv, Blocks, ~gone, EnsureStarted
  PROVE  Blocks'
<1> DEFINE e == SSE("message_start", "", 0)
<1>1. /\ calls # <<>> /\ Head(calls) \in BlockTypes \cup {"start"} /\ gate # "promoting"
      /\ ~started /\ WriteSSE(e) /\ calls' = calls
  BY DEF EnsureStarted, Block, Running
<1>2. e \in SSEs /\ e.event = "message_start"
  BY StartEvent DEF SSE
<1> HIDE DEF e
<1>3. Stream = <<>>
  BY <1>1 DEF StreamInv, WellMade, Tracked
<1> QED BY <1>1, <1>2, <1>3, BlocksWritten DEF BlockTypes

LEMMA CloseActiveBlockBlocks ==
  ASSUME StreamInv, Blocks, ~gone, CloseActiveBlock
  PROVE  Blocks'
<1> DEFINE e == SSE("content_block_stop", activeType, blockIndex - 1)
<1>1. /\ calls # <<>> /\ gate # "promoting" /\ activeType # "" /\ WriteSSE(e)
      /\ \/ Head(calls) \in BlockTypes /\ ~Continues /\ UNCHANGED calls
         \/ Head(calls) = "close" /\ Return
  BY DEF CloseActiveBlock, Block, Running
<1>2. started
  BY <1>1 DEF StreamInv, Fitting
<1>3. /\ Last.event \in {"content_block_start", "content_block_delta"} /\ Last.what = activeType
      /\ activeType \in BlockTypes /\ blockIndex - 1 \in Nat /\ Stream # <<>>
  BY <1>1, <1>2, WriterThere
<1>4. e \in SSEs /\ e.event = "content_block_stop"
  BY <1>3, BlockEvent DEF SSE
<1> HIDE DEF e
<1>5. Last.event = "content_block_start" => activeType \notin {"text", "tool_use"}
  <2>1. Last.event = "content_block_start" => Head(calls) = Awaited(activeType)
    BY <1>3 DEF Blocks
  <2> QED BY <1>1, <2>1 DEF Awaited, Continues, BlockTypes
<1>6. Filled(Last, e)
  BY <1>3, <1>4, <1>5 DEF Filled
<1>7. calls' # <<>> => Head(calls') # "tool_input"
  <2>1. ASSUME Head(calls) = "close", Return, calls' # <<>>
        PROVE  Head(calls') # "tool_input"
    <3>1. calls \in Seq(Callable) /\ Chained(calls) /\ calls' = Tail(calls)
      BY <2>1 DEF StreamInv, Planned, Return
    <3> QED BY <1>1, <2>1, <3>1, RestOfPlan DEF Leads
  <2> QED BY <1>1, <2>1 DEF BlockTypes
<1> QED BY <1>1, <1>4, <1>6, <1>7, BlocksWritten

LEMMA OpenBlockBlocks ==
  ASSUME StreamInv, Blocks, ~gone, OpenBlock
  PROVE  Blocks'
<1> DEFINE c == Head(calls)
           e == SSE("content_block_start", c, blockIndex)
<1>1. /\ calls # <<>> /\ gate # "promoting" /\ c \in BlockTypes /\ started
      /\ activeType = "" /\ WriteSSE(e)
  BY DEF OpenBlock, Block
<1>2. /\ Last.event \notin {"content_block_start", "content_block_delta"} /\ blockIndex \in Nat
  BY <1>1, WriterThere
<1>3. e \in SSEs /\ e.event = "content_block_start" /\ e.what = c
  BY <1>1, <1>2, BlockEvent DEF SSE
<1>4. /\ \/ c = "tool_use" /\ calls' = <<"tool_input">> \o Tail(calls)
         \/ c = "redacted_thinking" /\ calls' = <<"close">> \o Tail(calls)
         \/ c \in {"thinking", "text"} /\ calls' = calls
  BY <1>1 DEF OpenBlock, BlockTypes
<1> HIDE DEF e
<1>5. Filled(Last, e)
  BY <1>2 DEF Filled
<1>6. calls' # <<>> /\ Head(calls') = Awaited(c)
  <2>1. ASSUME NEW d, calls' = <<d>> \o Tail(calls)
        PROVE  calls' # <<>> /\ Head(calls') = d
    <3>1. Tail(calls) \in Seq(Calls)
      <4>1. calls \in Seq(Calls) /\ calls # <<>>
        BY <1>1 DEF StreamInv, StreamTyped, HandlerTyped
      <4> QED BY <4>1
    <3> QED BY <2>1, <3>1
  <2> QED BY <1>1, <1>4, <2>1 DEF Awaited, BlockTypes
<1> QED BY <1>1, <1>3, <1>5, <1>6, BlocksWritten

LEMMA WriteDeltaBlocks ==
  ASSUME StreamInv, Blocks, ~gone, WriteDelta
  PROVE  Blocks'
<1> DEFINE e == SSE("content_block_delta", activeType, blockIndex - 1)
<1>1. /\ calls # <<>> /\ gate # "promoting" /\ WriteSSE(e) /\ Return
      /\ \/ Head(calls) \in {"thinking", "text"} /\ activeType = Head(calls)
         \/ Head(calls) = "tool_input" /\ activeType = "tool_use"
  BY DEF WriteDelta, Block, Continues, Running, StreamInv, Fitting
<1>2. activeType # "" /\ started
  BY <1>1 DEF StreamInv, Fitting
<1>3. /\ Last.event \in {"content_block_start", "content_block_delta"} /\ Last.what = activeType
      /\ activeType \in BlockTypes /\ blockIndex - 1 \in Nat /\ Stream # <<>>
  BY <1>1, <1>2, WriterThere
<1>4. e \in SSEs /\ e.event = "content_block_delta"
  BY <1>3, BlockEvent DEF SSE
<1> HIDE DEF e
<1>5. Filled(Last, e)
  BY <1>1, <1>3, <1>4 DEF Filled, Blocks
<1>6. calls' # <<>> => Head(calls') # "tool_input"
  <2>1. calls \in Seq(Callable) /\ Chained(calls) /\ calls' = Tail(calls)
    BY <1>1 DEF StreamInv, Planned, Return
  <2> QED BY <1>1, <2>1, RestOfPlan DEF Leads
<1> QED BY <1>1, <1>4, <1>5, <1>6, BlocksWritten

LEMMA WriteClosingBlocks ==
  ASSUME StreamInv, Blocks, ~gone, WriteClosing
  PROVE  Blocks'
<1>1. /\ calls # <<>> /\ gate # "promoting" /\ Return
      /\ Head(calls) \in {"message_delta", "truncated_delta", "message_stop", "error"}
  BY DEF WriteClosing, Running
<1>2. started /\ activeType = "" /\ blockIndex \in Nat
  BY <1>1 DEF StreamInv, Fitting, StreamTyped, WriterTyped, BlockTypes
<1>3. PICK e \in SSEs : WriteSSE(e) /\ e.event # "content_block_start"
  <2>1. Head(calls) = "message_delta" => StopReason \in LocalStops \cup {"", "tool_use", "end_turn"}
    BY <1>1, Reasons
  <2>2. Head(calls) = "truncated_delta" => CutReason \in LocalStops \cup {"", "tool_use", "end_turn"}
    BY <1>1, Reasons
  <2>3. PICK event \in {"message_delta", "message_stop", "error"},
             what \in LocalStops \cup {"", "tool_use", "end_turn"}, i \in Nat :
               WriteSSE(SSE(event, what, i))
    BY <1>2, <2>1, <2>2 DEF WriteClosing, Running
  <2>4. SSE(event, what, i) \in SSEs /\ SSE(event, what, i).event # "content_block_start"
    BY ClosingEvent DEF SSE
  <2> QED BY <2>3, <2>4
<1>4. Stream # <<>> => Filled(Last, e)
  BY <1>1, <1>2, WriterThere DEF Filled
<1>5. calls' # <<>> => Head(calls') # "tool_input"
  <2>1. calls \in Seq(Callable) /\ Chained(calls) /\ calls' = Tail(calls)
    BY <1>1 DEF StreamInv, Planned, Return
  <2> QED BY <1>1, <2>1, RestOfPlan DEF Leads
<1> QED BY <1>1, <1>3, <1>4, <1>5, BlocksWritten

(* A step of the handler that writes nothing.                              *)
LEMMA UnwrittenBlocks ==
  ASSUME StreamInv, Blocks, ~gone,
         FireVisibleOutput \/ Promote \/ AlreadyDone \/ Finalize \/ WriteError
  PROVE  Blocks'
<1>1. CASE FireVisibleOutput
  <2>1. calls' = calls /\ Stream' = Stream
    BY <1>1 DEF FireVisibleOutput, out, Stream
  <2> QED BY <2>1, BlocksAlone
<1>2. CASE Promote
  <2>1. /\ gate = "promoting" /\ gate' = "direct" /\ wire' = wire \o buf /\ calls' = calls
    BY <1>2 DEF Promote, handler
  <2>2. pc \in {"handling", "closing"} /\ wire = <<>> /\ buf \in Seq(SSEs)
    BY <2>1 DEF StreamInv, StreamTyped, OutTyped, Gated
  <2>3. Stream' = Stream
    BY <2>1, <2>2 DEF Stream
  <2> QED BY <2>1, <2>3, BlocksAlone
<1>3. CASE AlreadyDone
  <2>1. /\ calls # <<>> /\ calls' = Tail(calls) /\ Stream' = Stream
        /\ Head(calls) = "start" \/ (Head(calls) = "close" /\ activeType = "")
    BY <1>3 DEF AlreadyDone, Running, Return, out, Stream
  <2>2. Stream # <<>> => Last.event # "content_block_start"
    BY <2>1, NotAwaited DEF BlockTypes
  <2>3. calls' # <<>> => Head(calls') # "tool_input"
    <3>1. calls \in Seq(Callable) /\ Chained(calls)
      BY DEF StreamInv, Planned
    <3> QED BY <2>1, <3>1, RestOfPlan DEF Leads
  <2> QED BY <2>1, <2>2, <2>3, BlocksAlone
<1>4. CASE Finalize
  <2>1. /\ calls # <<>> /\ Head(calls) \in {"finish", "truncate"}
        /\ gate' = gate /\ buf' = buf /\ wire' = wire
    BY <1>4 DEF Finalize, Running, out
  <2>2. Stream # <<>> => Last.event # "content_block_start"
    BY <2>1, NotAwaited DEF BlockTypes
  <2>3. Head(calls') = "start"
    <3>1. PICK rest \in SUBSET held :
            calls' = FinalCalls(rest, IF Running("finish") THEN "message_delta" ELSE "truncated_delta")
      BY <1>4 DEF Finalize, FinalCalls
    <3> DEFINE d == IF Running("finish") THEN "message_delta" ELSE "truncated_delta"
    <3>2. d \in {"message_delta", "truncated_delta"} /\ calls' = FinalCalls(rest, d)
      BY <3>1
    <3>3. {"start", "thinking", "text", "close", "message_stop"} \subseteq Calls /\ d \in Calls
      BY <3>2 DEF Calls, BlockTypes
    <3> HIDE DEF d
    <3> QED BY <3>2, <3>3, Finale
  <2>4. Stream' = Stream
    BY <2>1 DEF Stream
  <2> QED BY <2>2, <2>3, <2>4, BlocksAlone
<1>5. CASE WriteError
  <2>1. /\ calls # <<>> /\ Head(calls) = "fail" /\ Head(calls') = "close" /\ Stream' = Stream
    BY <1>5 DEF WriteError, Running, out, Stream
  <2>2. Stream # <<>> => Last.event # "content_block_start"
    BY <2>1, NotAwaited DEF BlockTypes
  <2> QED BY <2>1, <2>2, BlocksAlone
<1> QED BY <1>1, <1>2, <1>3, <1>4, <1>5

(* An event asks for blocks, and not for their input.                      *)
LEMMA ReceivedBlocks ==
  ASSUME StreamInv, Blocks, ~gone, Receive
  PROVE  Blocks'
<1>1. calls = <<>> /\ Stream' = Stream
  BY DEF Receive, Assistant, Reasoning, Redacted, ToolUse, Refused, Received, NoticeGone, Ends,
         StreamInv, Planned, out, Stream
<1>2. Stream # <<>> => Last.event # "content_block_start"
  BY <1>1, NotAwaited
<1>3. ASSUME NEW think, NEW text, NEW stop, calls' = DeltaCalls(think, text, stop), calls' # <<>>
      PROVE  Head(calls') # "tool_input"
  <2>1. {"thinking", "text"} \subseteq Calls /\ Stoppable(Calls, stop)
    BY DEF Stoppable, Calls, BlockTypes
  <2> QED BY <1>3, <2>1, DeltaPlan
<1>4. ASSUME NEW c \in {"thinking", "tool_use"}, NEW k, k \in {<<>>, <<"finish">>},
             calls' = <<c>> \o k
      PROVE  Head(calls') # "tool_input"
  BY <1>4
<1>5. calls' # <<>> => Head(calls') # "tool_input"
  <2>1. CASE Assistant
    <3>1. PICK think \in BOOLEAN, text \in BOOLEAN, stop \in LocalStops \cup {""} :
            calls' = DeltaCalls(think, text, stop)
      BY <2>1, ZenonT(60) DEF Assistant, Received, DeltaCalls, FinishFor
    <3> QED BY <1>3, <3>1
  <2>2. CASE Reasoning \/ ToolUse
    BY <2>2, <1>4 DEF Reasoning, ToolUse, Received, If
  <2>3. CASE Redacted \/ Refused \/ NoticeGone \/ Ends
    BY <2>3, <1>1 DEF Redacted, Refused, Received, If, NoticeGone, Ends
  <2> QED BY <2>1, <2>2, <2>3 DEF Receive
<1> QED BY <1>1, <1>2, <1>5, BlocksAlone

LEMMA SettledBlocks ==
  ASSUME StreamInv, Blocks, ~gone, CallFails \/ Answered \/ Settle
  PROVE  Blocks'
<1>1. calls = <<>>
  BY DEF CallFails, Answered, Settle, Handled, Reconsider, Broken, Close, StoppedHere, Closed,
         StreamInv, Planned
<1>2. Stream # <<>> => Last.event # "content_block_start"
  BY <1>1, NotAwaited
<1>3. CASE Stream' = Stream /\ calls' = calls
  BY <1>3, BlocksAlone
<1>4. CASE Close
  <2>1. Stream' = Stream
    BY <1>4 DEF Close, out, Stream
  <2>2. calls' \in {<<"truncate">>, <<"fail">>, <<"finish">>}
    BY <1>4 DEF Close, Ending, EOF
  <2>3. Head(calls') # "tool_input"
    BY <2>2
  <2> QED BY <1>2, <2>1, <2>3, BlocksAlone
<1>5. CASE Stream' = <<>> /\ calls' = <<>>
  <2>1. Whole(Stream)' = Whole(Stream')
    BY DEF Whole
  <2> QED BY <1>5, <2>1, NothingWhole DEF Blocks
<1>6. CASE gate = "buffering" /\ (Restart \/ Rejected)
  <2>1. gate = "buffering" /\ UNCHANGED gate /\ buf' = <<>> /\ calls' = <<>>
    BY <1>1, <1>6 DEF Restart, Rejected
  <2> QED BY <1>5, <2>1 DEF Stream
<1>7. CASE CallFails
  <2>1. UNCHANGED <<gate, buf, calls>> /\ gate = "buffering"
    BY <1>7 DEF CallFails, StreamInv, Gated
  <2> QED BY <1>3, <2>1 DEF Stream
<1>8. \/ Close \/ CallFails
      \/ gate = "buffering" /\ (Restart \/ Rejected)
      \/ UNCHANGED <<gate, buf, wire, calls>>
  BY DEF Answered, Settle, Handled, Reconsider, Broken, StoppedHere, Closed, out
<1> QED BY <1>3, <1>4, <1>6, <1>7, <1>8 DEF Stream

-----------------------------------------------------------------------------
(* What enters the pipe *)

(* What has been sent stays as it is.                                      *)
Grown(s, t) == Len(s) <= Len(t) /\ \A i \in 1 .. Len(s) : t[i] = s[i]

LEMMA Appending ==
  ASSUME NEW s \in Seq(SSEs), NEW e
  PROVE  Grown(s, Append(s, e))
<1>1. s \in Seq(SSEs \cup {e}) /\ e \in SSEs \cup {e}
  OBVIOUS
<1>2. ASSUME NEW A, s \in Seq(A), e \in A
      PROVE  /\ Len(Append(s, e)) = Len(s) + 1 /\ Len(s) \in Nat
             /\ \A i \in 1 .. Len(s) : Append(s, e)[i] = s[i]
  BY <1>2
<1>3. /\ Len(Append(s, e)) = Len(s) + 1 /\ Len(s) \in Nat
      /\ \A i \in 1 .. Len(s) : Append(s, e)[i] = s[i]
  BY <1>1, <1>2
<1> QED BY <1>3 DEF Grown

LEMMA Staying ==
  ASSUME NEW s \in Seq(SSEs)
  PROVE  Grown(s, s)
BY DEF Grown

Runs == Handle \/ \E a \in Attempts : Tick(a) \/ Keepalive(a)

LEMMA PipelineKeeps ==
  ASSUME StreamInv, Blocks, ~gone, Runs
  PROVE  /\ StreamInv' /\ Blocks' /\ ~gone'
         /\ wire \in Seq(SSEs) /\ wire' \in Seq(SSEs) /\ Grown(wire, wire')
         /\ pc = "done" => pc' = "done" /\ wire' = wire
<1>1. StreamInv'
  BY StepKeeps DEF Runs, Next
<1>2. wire \in Seq(SSEs) /\ wire' \in Seq(SSEs)
  BY <1>1 DEF StreamInv, StreamTyped, OutTyped
<1>3. ASSUME \E a \in Attempts : Tick(a) \/ Keepalive(a)
      PROVE  UNCHANGED <<gate, buf, wire, calls, pc, gone>>
  BY <1>3 DEF Tick, Keepalive, WritePing, PingWritten, KeepaliveStops, handler, out
<1>4. Blocks'
  <2>1. CASE Handle
    BY <2>1, EnsureStartedBlocks, CloseActiveBlockBlocks, OpenBlockBlocks, WriteDeltaBlocks,
       WriteClosingBlocks, UnwrittenBlocks, ReceivedBlocks, SettledBlocks DEF Handle, Write
  <2>2. CASE \E a \in Attempts : Tick(a) \/ Keepalive(a)
    <3>1. Stream' = Stream /\ calls' = calls
      BY <1>3, <2>2 DEF Stream
    <3> QED BY <3>1, BlocksAlone
  <2> QED BY <2>1, <2>2 DEF Runs
<1>5. ~gone'
  <2>1. Handle => gone' = gone
    BY DEF Handle, CallFails, Answered, Receive, Assistant, Reasoning, Redacted, ToolUse,
       Refused, Received, NoticeGone, Ends, Write, EnsureStarted, FireVisibleOutput, Promote,
       CloseActiveBlock, OpenBlock, WriteDelta, AlreadyDone, Finalize, WriteError, WriteClosing,
       WriteSSE, Settle, Handled, Reconsider, Broken, Close, StoppedHere, Closed, Restart, Rejected
  <2> QED BY <1>3, <2>1 DEF Runs
<1>6. pc = "done" => ~Handle
  <2>1. pc = "done" => calls = <<>> /\ gate # "promoting"
    BY DEF StreamInv, Planned, Gated
  <2> QED BY <2>1 DEF Handle, CallFails, Answered, Receive, Write, EnsureStarted, FireVisibleOutput,
             Promote, CloseActiveBlock, OpenBlock, WriteDelta, AlreadyDone, Finalize, WriteError,
             WriteClosing, Block, Running, Settle, Handled, Reconsider, Broken, Close, StoppedHere,
             Closed
<1>7. pc = "done" => pc' = "done" /\ wire' = wire
  BY <1>3, <1>6 DEF Runs
<1>8. Grown(wire, wire')
  <2>1. CASE UNCHANGED wire
    BY <1>2, <2>1, Staying
  <2>2. CASE \E e : wire' = Append(wire, e)
    BY <1>2, <2>2, Appending
  <2>3. CASE Promote
    <3>1. wire = <<>>
      BY <2>3 DEF Promote, StreamInv, Gated
    <3>2. Len(<<>>) = 0
      OBVIOUS
    <3>3. Len(wire) <= Len(wire') /\ \A i \in 1 .. Len(wire) : FALSE
      BY <1>2, <3>1, <3>2
    <3> QED BY <3>3 DEF Grown
  <2>4. ASSUME NEW e, WriteSSE(e)
        PROVE  UNCHANGED wire \/ wire' = Append(wire, e)
    BY <2>4 DEF WriteSSE
  <2>5. CallFails \/ Rejected => wire' = Append(wire, JSON)
    BY DEF CallFails, Rejected, AnswerJSON
  <2>6. Write => UNCHANGED wire \/ Promote \/ \E e : wire' = Append(wire, e)
    <3>1. EnsureStarted => \E e : WriteSSE(e)
      BY DEF EnsureStarted
    <3>2. CloseActiveBlock => \E e : WriteSSE(e)
      BY DEF CloseActiveBlock
    <3>3. OpenBlock => \E e : WriteSSE(e)
      BY DEF OpenBlock
    <3>4. WriteDelta => \E e : WriteSSE(e)
      BY DEF WriteDelta
    <3>5. WriteClosing => \E e : WriteSSE(e)
      BY DEF WriteClosing
    <3>6. FireVisibleOutput \/ AlreadyDone \/ Finalize \/ WriteError => UNCHANGED wire
      BY DEF FireVisibleOutput, AlreadyDone, Finalize, WriteError, out
    <3> QED BY <2>4, <3>1, <3>2, <3>3, <3>4, <3>5, <3>6 DEF Write
  <2>7. Answered \/ Receive \/ Settle => UNCHANGED wire \/ Rejected
    BY DEF Answered, Receive, Assistant, Reasoning, Redacted, ToolUse, Refused, Received,
       NoticeGone, Ends, Settle, Handled, Reconsider, Broken, Close, StoppedHere, Closed,
       Restart, out
  <2> QED BY <1>3, <2>1, <2>2, <2>3, <2>5, <2>6, <2>7 DEF Runs, Handle
<1> QED BY <1>1, <1>2, <1>4, <1>5, <1>7, <1>8

(* What is in the pipe, read from its beginning: an error of its own, or   *)
(* the beginning of an answer whose blocks are whole.                      *)
Answering(s) == WellFormed(s) /\ Whole(s) /\ \A i \in 1 .. Len(s) : s[i].event # "json"

LEMMA InThePipe ==
  ASSUME StreamInv, Blocks, ~gone
  PROVE  /\ wire = <<JSON>> => pc = "done"
         /\ wire # <<JSON>> => Answering(wire)
         /\ pc = "done" /\ wire # <<>> /\ wire # <<JSON>> =>
              EndOf(wire).event \in {"message_stop", "error"}
<1>1. /\ OutTyped /\ Gated /\ WellMade /\ wire \in Seq(SSEs)
  BY DEF StreamInv, StreamTyped, OutTyped
<1>2. CASE gate # "direct"
  <2>1. wire = <<>> \/ (pc = "done" /\ wire = <<JSON>>)
    BY <1>1, <1>2 DEF Gated
  <2>2. wire = <<>> => Answering(wire)
    <3>1. Len(<<>>) = 0
      OBVIOUS
    <3> QED BY <3>1, NothingWhole, NothingSent DEF Answering
  <2>3. <<>> # <<JSON>>
    OBVIOUS
  <2> QED BY <2>1, <2>2, <2>3
<1>3. CASE gate = "direct"
  <2>1. Told /\ Stream = wire
    BY <1>1, <1>3 DEF Gated, Told, Tracked, Stream
  <2>2. /\ Last = EndOf(wire) /\ Last.event # "json" /\ wire # <<>> /\ Stopped
        /\ WellFormed(wire) /\ Whole(wire)
    BY <1>1, <2>1, LastSent DEF Last, Placed, WellMade, Blocks
  <2>3. ASSUME NEW i \in 1 .. Len(wire)
        PROVE  wire[i].event # "json"
    <3>1. CASE i = Len(wire)
      BY <2>2, <3>1 DEF EndOf
    <3>2. CASE i # Len(wire)
      <4>1. i \in 1 .. Len(wire) - 1
        BY <1>1, <3>2
      <4>2. Follows(wire[i], wire[i + 1])
        BY <2>2, <4>1 DEF WellFormed
      <4> QED BY <4>2 DEF Follows
    <3> QED BY <3>1, <3>2
  <2>4. wire # <<JSON>>
    <3>1. <<JSON>>[1] = JSON /\ Len(<<JSON>>) = 1 /\ JSON.event = "json"
      BY DEF JSON, SSE
    <3> QED BY <2>3, <3>1
  <2>5. pc = "done" => EndOf(wire).event \in {"message_stop", "error"}
    BY <2>2 DEF Stopped, StreamInv, Planned
  <2> QED BY <2>2, <2>3, <2>4, <2>5 DEF Answering
<1> QED BY <1>2, <1>3

-----------------------------------------------------------------------------
(* The translator *)

ChunkSet == [chunk : {"role", "tool", "content", "arguments", "finish", "done", "error"},
             what : {"", "tool_calls", "length", "stop", "content_filter"}, index : Nat]

TranslatorTyped ==
  /\ stage \in {"running", "closed", "returned"}
  /\ reader \in {"reading", "work", "finished", "left"}
  /\ inbox \in Seq(SSEs) /\ toolBlocks \in Seq(Nat) /\ chunks \in Seq(ChunkSet)
  /\ finish \in {"", "tool_calls", "length", "stop"}
  /\ sentFinal \in BOOLEAN /\ left \in BOOLEAN

(* The translator has read the first At events, and holds those behind     *)
(* them; of an error of its own it has read none.                          *)
At == IF BufferedErr THEN 0 ELSE Len(wire) - Len(inbox)

Piped ==
  /\ Len(inbox) <= Len(wire) /\ \A k \in 1 .. Len(inbox) : inbox[k] = wire[At + k]
  /\ BufferedErr => inbox = <<>>
  /\ reader = "work" => inbox # <<>>
  /\ reader \in {"reading", "finished"} => inbox = <<>>
  /\ reader = "left" => left \/ (wire # <<>> /\ ~BufferedErr)
  /\ stage # "running" => pc = "done"
  /\ reader = "finished" => stage # "running"

(* The tool calls among the first n events, of which each has its index    *)
(* and its chunk.                                                          *)
ToolsRead(n) == {i \in 1 .. n : IsTool(wire[i])}

Numbered(n) ==
  /\ Cardinality(ToolsRead(n)) = Len(toolBlocks)
  /\ Cardinality(Heads(Len(chunks))) = Len(toolBlocks)
  /\ \A i, j \in 1 .. Len(toolBlocks) : i < j => toolBlocks[i] < toolBlocks[j]
  /\ n = 0 \/ wire[n].event = "message_start" => toolBlocks = <<>>
  /\ n > 0 /\ wire[n].event \in {"content_block_start", "content_block_delta", "content_block_stop"} =>
       \A i \in 1 .. Len(toolBlocks) : toolBlocks[i] <= wire[n].index
  /\ n > 0 /\ IsTool(wire[n]) =>
       toolBlocks # <<>> /\ toolBlocks[Len(toolBlocks)] = wire[n].index

(* Text begins with its block.                                             *)
TextEvent(e, event) == e.event = event /\ e.what = "text"

Texted(n) ==
  /\ (\E i \in 1 .. Len(chunks) : chunks[i].chunk = "content") <=>
       \E i \in 1 .. n : TextEvent(wire[i], "content_block_delta")
  /\ n > 0 /\ (TextEvent(wire[n], "content_block_start") \/ TextEvent(wire[n], "content_block_delta")) =>
       \E i \in 1 .. n : TextEvent(wire[i], "content_block_start")
  /\ (\E i \in 1 .. n : TextEvent(wire[i], "content_block_delta")) =>
       \E i \in 1 .. n : TextEvent(wire[i], "content_block_start")

(* The reason is that of the one message_delta, and is told once.          *)
Finishing(n) ==
  /\ \A i \in 1 .. n : wire[i].event = "message_delta" =>
       /\ wire[n].event \in {"message_delta", "message_stop"}
       /\ finish = MapFinishReason(wire[i].what, toolBlocks # <<>>)
  /\ n > 0 /\ wire[n].event \in {"message_delta", "message_stop"} =>
       \E i \in 1 .. n : wire[i].event = "message_delta"
  /\ \A i \in 1 .. Len(chunks) : chunks[i].chunk = "finish" =>
       n > 0 /\ wire[n].event = "message_stop" /\ chunks[i].what = finish
  /\ sentFinal => n > 0 /\ wire[n].event = "message_stop"
  /\ n > 0 /\ wire[n].event = "message_stop" =>
       \E i \in 1 .. Len(chunks) : chunks[i].chunk = "finish"

(* The last chunk stands where the last event read does.                   *)
Going(c) == c.chunk \in {"role", "content", "arguments"}

Position(n) ==
  /\ n > 0 => wire[n].event # "error"
  /\ reader \in {"reading", "work"} =>
       IF n = 0 THEN chunks = <<>>
       ELSE /\ chunks # <<>>
            /\ IsTool(wire[n]) =>
                 EndOf(chunks).chunk = "tool" /\ EndOf(chunks).index = Len(toolBlocks) - 1
            /\ wire[n].event = "message_stop" => EndOf(chunks).chunk = "finish"
            /\ ~IsTool(wire[n]) /\ wire[n].event # "message_stop" => Going(EndOf(chunks))
  /\ reader = "finished" =>
       IF n = 0 THEN stage = "closed" \/ ~BufferedErr => chunks = <<Done>>
       ELSE wire[n].event = "message_stop"

Read(n) == Numbered(n) /\ Texted(n) /\ Finishing(n) /\ Position(n)

HeadsOf(s, n) == {i \in 1 .. n : s[i].chunk = "tool"}

Orderly(s) ==
  /\ s # <<>> => s[1].chunk \in {"role", "done"}
  /\ \A i \in 1 .. Len(s) - 1 : ChunkFollows(s[i], s[i + 1])
  /\ \A i \in HeadsOf(s, Len(s)) : s[i].index = Cardinality(HeadsOf(s, i - 1))

Listening == ~left /\ reader # "left"

OpenAIInv ==
  /\ StreamInv /\ Blocks /\ ~gone
  /\ TranslatorTyped /\ Piped /\ Orderly(chunks)
  /\ Listening => \E n \in Nat : n = At /\ Read(n)

-----------------------------------------------------------------------------
(* Numbering *)

LEMMA SetGrows ==
  ASSUME NEW n \in Nat, NEW S, S \subseteq 1 .. n, NEW T,
         T = S \/ T = S \cup {n + 1}
  PROVE  /\ Cardinality(S) \in Nat /\ Cardinality(T) \in Nat
         /\ T = S => Cardinality(T) = Cardinality(S)
         /\ T = S \cup {n + 1} => Cardinality(T) = Cardinality(S) + 1
<1>1. IsFiniteSet(S)
  <2>1. IsFiniteSet(1 .. n)
    BY FS_Interval
  <2> QED BY <2>1, FS_Subset
<1>2. n + 1 \notin S
  OBVIOUS
<1>3. Cardinality(S) \in Nat
  BY <1>1, FS_CardinalityType
<1>4. T = S \cup {n + 1} => Cardinality(T) = Cardinality(S) + 1
  BY <1>1, <1>2, FS_AddElement
<1> QED BY <1>3, <1>4

LEMMA Added ==
  ASSUME NEW A, NEW s \in Seq(A), NEW e \in A
  PROVE  /\ Append(s, e) \in Seq(A) /\ Len(Append(s, e)) = Len(s) + 1 /\ Len(s) \in Nat
         /\ \A i \in 1 .. Len(s) : Append(s, e)[i] = s[i]
         /\ Append(s, e)[Len(s) + 1] = e /\ Append(s, e) # <<>> /\ EndOf(Append(s, e)) = e
<1>1. /\ Append(s, e) \in Seq(A) /\ Len(Append(s, e)) = Len(s) + 1 /\ Len(s) \in Nat
      /\ \A i \in 1 .. Len(s) : Append(s, e)[i] = s[i]
      /\ Append(s, e)[Len(s) + 1] = e /\ Append(s, e) # <<>>
  OBVIOUS
<1> QED BY <1>1 DEF EndOf

LEMMA HeadsGrow ==
  ASSUME NEW s \in Seq(ChunkSet), NEW c \in ChunkSet
  PROVE  /\ \A n \in 0 .. Len(s) : HeadsOf(Append(s, c), n) = HeadsOf(s, n)
         /\ HeadsOf(s, Len(s)) \subseteq 1 .. Len(s)
         /\ HeadsOf(Append(s, c), Len(s) + 1) =
              IF c.chunk = "tool" THEN HeadsOf(s, Len(s)) \cup {Len(s) + 1} ELSE HeadsOf(s, Len(s))
<1> DEFINE t == Append(s, c)
<1>1. /\ t \in Seq(ChunkSet) /\ Len(s) \in Nat
      /\ \A i \in 1 .. Len(s) : t[i] = s[i]
      /\ t[Len(s) + 1] = c
  OBVIOUS
<1> HIDE DEF t
<1>2. ASSUME NEW n \in 0 .. Len(s)
      PROVE  HeadsOf(t, n) = HeadsOf(s, n)
  <2>1. 1 .. n \subseteq 1 .. Len(s)
    BY <1>1
  <2> QED BY <1>1, <2>1 DEF HeadsOf
<1>3. 1 .. Len(s) + 1 = (1 .. Len(s)) \cup {Len(s) + 1}
  BY <1>1
<1>4. HeadsOf(t, Len(s) + 1) =
        IF c.chunk = "tool" THEN HeadsOf(s, Len(s)) \cup {Len(s) + 1} ELSE HeadsOf(s, Len(s))
  BY <1>1, <1>3 DEF HeadsOf
<1> QED BY <1>2, <1>4 DEF HeadsOf, t

(* A chunk that may stand behind the last one.                             *)
LEMMA OrderGoesOn ==
  ASSUME NEW s \in Seq(ChunkSet), Orderly(s), NEW c \in ChunkSet,
         s = <<>> => c.chunk \in {"role", "done"},
         s # <<>> => ChunkFollows(EndOf(s), c),
         c.chunk = "tool" => c.index = Cardinality(HeadsOf(s, Len(s)))
  PROVE  /\ Orderly(Append(s, c)) /\ Append(s, c) \in Seq(ChunkSet)
         /\ Append(s, c) # <<>> /\ EndOf(Append(s, c)) = c
<1> DEFINE t == Append(s, c)
<1>1. /\ t \in Seq(ChunkSet) /\ Len(t) = Len(s) + 1 /\ Len(s) \in Nat /\ t # <<>>
      /\ \A i \in 1 .. Len(s) : t[i] = s[i]
      /\ t[Len(s) + 1] = c /\ EndOf(t) = c
  BY Added
<1>2. /\ \A n \in 0 .. Len(s) : HeadsOf(t, n) = HeadsOf(s, n)
      /\ HeadsOf(t, Len(s) + 1) =
           IF c.chunk = "tool" THEN HeadsOf(s, Len(s)) \cup {Len(s) + 1} ELSE HeadsOf(s, Len(s))
  BY HeadsGrow
<1> HIDE DEF t
<1>3. t[1].chunk \in {"role", "done"}
  <2>1. CASE s = <<>>
    BY <1>1, <2>1
  <2>2. CASE s # <<>>
    <3>1. 1 \in 1 .. Len(s)
      BY <2>2
    <3> QED BY <1>1, <2>2, <3>1 DEF Orderly
  <2> QED BY <2>1, <2>2
<1>4. ASSUME NEW i \in 1 .. Len(t) - 1
      PROVE  ChunkFollows(t[i], t[i + 1])
  <2>1. CASE i = Len(s)
    <3>1. s # <<>> /\ i \in 1 .. Len(s)
      BY <1>1, <2>1
    <3> QED BY <1>1, <2>1, <3>1 DEF EndOf
  <2>2. CASE i # Len(s)
    <3>1. i \in 1 .. Len(s) - 1 /\ i + 1 \in 1 .. Len(s) /\ i \in 1 .. Len(s)
      BY <1>1, <2>2
    <3> QED BY <1>1, <3>1 DEF Orderly
  <2> QED BY <2>1, <2>2
<1>5. ASSUME NEW i \in HeadsOf(t, Len(t))
      PROVE  t[i].index = Cardinality(HeadsOf(t, i - 1))
  <2>1. CASE i \in HeadsOf(s, Len(s))
    <3>1. i \in 1 .. Len(s) /\ i - 1 \in 0 .. Len(s)
      BY <1>1, <2>1 DEF HeadsOf
    <3> QED BY <1>1, <1>2, <2>1, <3>1 DEF Orderly
  <2>2. CASE i \notin HeadsOf(s, Len(s))
    <3>1. i = Len(s) + 1 /\ c.chunk = "tool"
      BY <1>1, <1>2, <1>5, <2>2
    <3>2. i - 1 = Len(s) /\ Len(s) \in 0 .. Len(s)
      BY <1>1, <3>1
    <3> QED BY <1>1, <1>2, <3>1, <3>2
  <2> QED BY <2>1, <2>2
<1> QED BY <1>1, <1>3, <1>4, <1>5 DEF Orderly, t

-----------------------------------------------------------------------------
(* Reading an event *)

Reading(n, f) ==
  /\ Answering(wire) /\ wire \in Seq(SSEs)
  /\ n \in Nat /\ n < Len(wire) /\ f = wire[n + 1]
  /\ TranslatorTyped /\ reader = "work" /\ Read(n)

(* What may come behind the last event read.                               *)
LEMMA NextEvent ==
  ASSUME NEW n, NEW f, Reading(n, f)
  PROVE  /\ n \in Nat /\ n + 1 \in 1 .. Len(wire) /\ f \in SSEs /\ f.event # "json"
         /\ n = 0 => f.event = "message_start"
         /\ n > 0 => /\ n \in 1 .. Len(wire) /\ wire[n] \in SSEs
                     /\ wire[n].event \notin {"json", "error"}
                     /\ Follows(wire[n], f) /\ Filled(wire[n], f)
<1>1. /\ n \in Nat /\ Len(wire) \in Nat /\ n + 1 \in 1 .. Len(wire) /\ f = wire[n + 1]
      /\ wire \in Seq(SSEs) /\ Answering(wire)
  BY DEF Reading
<1>2. f \in SSEs /\ f.event # "json"
  BY <1>1 DEF Answering
<1>3. ASSUME n = 0
      PROVE  f.event = "message_start"
  <2>1. f = wire[1] /\ wire # <<>>
    BY <1>1, <1>3
  <2> QED BY <1>1, <1>2, <2>1 DEF Answering, WellFormed
<1>4. ASSUME n > 0
      PROVE  /\ n \in 1 .. Len(wire) /\ wire[n] \in SSEs
             /\ wire[n].event \notin {"json", "error"}
             /\ Follows(wire[n], f) /\ Filled(wire[n], f)
  <2>1. n \in 1 .. Len(wire) /\ n \in 1 .. Len(wire) - 1
    BY <1>1, <1>4
  <2>2. wire[n].event # "error"
    BY <1>4 DEF Reading, Read, Position
  <2> QED BY <1>1, <2>1, <2>2 DEF Answering, WellFormed, Whole
<1> QED BY <1>1, <1>2, <1>3, <1>4

(* A tool's input belongs to the last tool.                                *)
LEMMA LastTool ==
  ASSUME NEW n, NEW f, Reading(n, f), f.event = "content_block_delta", f.what = "tool_use"
  PROVE  /\ n > 0 /\ IsTool(wire[n]) /\ ToolIndex(f.index) = Len(toolBlocks) - 1
         /\ toolBlocks # <<>>
<1>1. n > 0 /\ n \in Nat
  BY NextEvent
<1>2. IsTool(wire[n]) /\ wire[n].index = f.index
  BY <1>1, NextEvent DEF Follows, Filled, IsTool
<1>3. /\ toolBlocks # <<>> /\ toolBlocks[Len(toolBlocks)] = f.index /\ toolBlocks \in Seq(Nat)
      /\ \A i, j \in 1 .. Len(toolBlocks) : i < j => toolBlocks[i] < toolBlocks[j]
  BY <1>1, <1>2 DEF Reading, Read, Numbered, TranslatorTyped
<1> DEFINE k == CHOOSE m \in DOMAIN toolBlocks : toolBlocks[m] = f.index
<1>4. DOMAIN toolBlocks = 1 .. Len(toolBlocks) /\ Len(toolBlocks) \in 1 .. Len(toolBlocks)
  BY <1>3
<1>5. k \in 1 .. Len(toolBlocks) /\ toolBlocks[k] = toolBlocks[Len(toolBlocks)]
  BY <1>3, <1>4
<1> HIDE DEF k
<1>6. k = Len(toolBlocks)
  <2>1. k < Len(toolBlocks) => toolBlocks[k] < toolBlocks[Len(toolBlocks)]
    BY <1>3, <1>4, <1>5
  <2>2. toolBlocks[Len(toolBlocks)] \in Nat /\ Len(toolBlocks) \in Nat
    BY <1>3, <1>4
  <2> QED BY <1>5, <2>1, <2>2
<1> QED BY <1>1, <1>2, <1>3, <1>6 DEF ToolIndex, k

(* The chunks of each event, and where they stand.                         *)
ToRole(f) == f.event = "message_start" /\ Emitted(f) = <<Chunk("role", "", 0)>>
ToTool(f) == IsTool(f) /\ Emitted(f) = <<Chunk("tool", "", Len(toolBlocks))>>
ToContent(f) == TextEvent(f, "content_block_delta") /\ Emitted(f) = <<Chunk("content", "", 0)>>
ToArguments(f) ==
  /\ f.event = "content_block_delta" /\ f.what = "tool_use"
  /\ Emitted(f) = <<Chunk("arguments", "", Len(toolBlocks) - 1)>>
ToFinish(f) ==
  f.event = "message_stop" /\ finish # "" /\ Emitted(f) = <<Chunk("finish", finish, 0)>>
ToError(f) ==
  f.event = "error" /\ Emitted(f) = <<Chunk("finish", "content_filter", 0), Done>>
ToNothing(f) ==
  /\ Emitted(f) = <<>> /\ ~IsTool(f) /\ ~TextEvent(f, "content_block_delta")
  /\ f.event \notin {"message_start", "message_stop", "error"}

LEMMA NextChunk ==
  ASSUME NEW n, NEW f, Reading(n, f)
  PROVE  \/ n = 0 /\ chunks = <<>> /\ ToRole(f)
         \/ /\ n > 0 /\ chunks # <<>> /\ Going(EndOf(chunks))
            /\ ToTool(f) \/ ToContent(f) \/ ToError(f) \/ ToNothing(f)
                 \/ (ToFinish(f) /\ wire[n].event = "message_delta")
         \/ /\ n > 0 /\ chunks # <<>> /\ IsTool(wire[n]) /\ ToArguments(f) /\ toolBlocks # <<>>
            /\ EndOf(chunks).chunk = "tool" /\ EndOf(chunks).index = Len(toolBlocks) - 1
<1>1. /\ n \in Nat /\ f \in SSEs /\ f.event # "json"
      /\ n = 0 => f.event = "message_start"
      /\ n > 0 => /\ wire[n] \in SSEs /\ wire[n].event \notin {"json", "error"}
                  /\ Follows(wire[n], f) /\ Filled(wire[n], f)
  BY NextEvent
<1>2. Position(n) /\ Finishing(n) /\ Numbered(n) /\ reader = "work"
  BY DEF Reading, Read
<1>3. CASE n = 0
  <2>1. chunks = <<>>
    BY <1>2, <1>3 DEF Position
  <2>2. ToRole(f)
    BY <1>1, <1>3 DEF ToRole, Emitted, IsTool
  <2> QED BY <1>3, <2>1, <2>2
<1>4. CASE n > 0
  <2>1. /\ chunks # <<>>
        /\ IsTool(wire[n]) =>
             EndOf(chunks).chunk = "tool" /\ EndOf(chunks).index = Len(toolBlocks) - 1
        /\ wire[n].event = "message_stop" => EndOf(chunks).chunk = "finish"
        /\ ~IsTool(wire[n]) /\ wire[n].event # "message_stop" => Going(EndOf(chunks))
    BY <1>2, <1>4 DEF Position
  <2>2. CASE f.event = "content_block_delta" /\ f.what = "tool_use"
    <3>1. IsTool(wire[n]) /\ toolBlocks # <<>> /\ ToolIndex(f.index) = Len(toolBlocks) - 1
      BY <2>2, LastTool
    <3>2. ToArguments(f)
      BY <2>2, <3>1 DEF ToArguments, Emitted, IsTool
    <3> QED BY <1>4, <2>1, <3>1, <3>2
  <2>3. CASE ~(f.event = "content_block_delta" /\ f.what = "tool_use")
    <3>1. Going(EndOf(chunks))
      BY <1>1, <1>4, <2>1, <2>3 DEF Follows, Filled, IsTool
    <3>2. CASE f.event = "message_stop"
      <4>1. wire[n].event = "message_delta"
        BY <1>1, <1>4, <3>2 DEF Follows
      <4>2. ~sentFinal
        BY <1>2, <4>1 DEF Finishing
      <4>3. PICK i \in 1 .. n : finish = MapFinishReason(wire[i].what, toolBlocks # <<>>)
        BY <1>2, <1>4, <4>1 DEF Finishing
      <4>4. finish # ""
        BY <4>3 DEF MapFinishReason
      <4>5. ToFinish(f)
        BY <3>2, <4>2, <4>4 DEF ToFinish, Emitted, FinishChunk, IsTool
      <4> QED BY <1>4, <2>1, <3>1, <4>1, <4>5
    <3>3. CASE f.event = "error"
      <4>1. ToError(f)
        BY <3>3 DEF ToError, Emitted, IsTool
      <4> QED BY <1>4, <2>1, <3>1, <4>1
    <3>4. CASE IsTool(f)
      <4>1. ToTool(f)
        BY <3>4 DEF ToTool, Emitted, IsTool
      <4> QED BY <1>4, <2>1, <3>1, <4>1
    <3>5. CASE TextEvent(f, "content_block_delta")
      <4>1. ToContent(f)
        BY <3>5 DEF ToContent, Emitted, IsTool, TextEvent
      <4> QED BY <1>4, <2>1, <3>1, <4>1
    <3>6. CASE ~IsTool(f) /\ ~TextEvent(f, "content_block_delta") /\ f.event \notin {"message_stop", "error"}
      <4>1. f.event # "message_start"
        BY <1>1, <1>4 DEF Follows
      <4>2. ToNothing(f)
        BY <2>3, <3>6, <4>1 DEF ToNothing, Emitted, TextEvent
      <4> QED BY <1>4, <2>1, <3>1, <4>2
    <3> QED BY <3>2, <3>3, <3>4, <3>5, <3>6
  <2> QED BY <2>2, <2>3
<1> QED BY <1>1, <1>3, <1>4

-----------------------------------------------------------------------------
(* What the translator has after an event *)

LEMMA Joined ==
  ASSUME NEW A, NEW s \in Seq(A), NEW c \in A, NEW d \in A
  PROVE  /\ s \o <<>> = s /\ s \o <<c>> = Append(s, c)
         /\ s \o <<c, d>> = Append(Append(s, c), d)
OBVIOUS

LEMMA LengthOf ==
  ASSUME NEW A, NEW s \in Seq(A)
  PROVE  Len(s) \in Nat /\ (s # <<>> => Len(s) - 1 \in Nat)
OBVIOUS

(* Its chunks remain in order, and end where the event does.               *)
LEMMA FrameOrder ==
  ASSUME NEW n, NEW f, Reading(n, f), Orderly(chunks), ~left, chunks' = chunks \o Emitted(f),
         Cardinality(HeadsOf(chunks, Len(chunks))) = Len(toolBlocks)
  PROVE  /\ Orderly(chunks') /\ chunks' \in Seq(ChunkSet) /\ chunks' # <<>>
         /\ f.event = "message_stop" => EndOf(chunks').chunk = "finish"
         /\ IsTool(f) => /\ EndOf(chunks').chunk = "tool"
                         /\ EndOf(chunks').index = Len(toolBlocks)
         /\ ~IsTool(f) /\ f.event \notin {"message_stop", "error"} => Going(EndOf(chunks'))
<1>0. finish \in {"", "tool_calls", "length", "stop"}
  BY DEF Reading, TranslatorTyped
<1>1. chunks \in Seq(ChunkSet) /\ toolBlocks \in Seq(Nat)
  BY DEF Reading, TranslatorTyped
<1>2. Len(toolBlocks) \in Nat /\ (toolBlocks # <<>> => Len(toolBlocks) - 1 \in Nat)
  BY <1>1, LengthOf
<1>3. ASSUME NEW c \in ChunkSet, Emitted(f) = <<c>>,
             chunks = <<>> => c.chunk = "role",
             chunks # <<>> => ChunkFollows(EndOf(chunks), c),
             c.chunk = "tool" => c.index = Len(toolBlocks)
      PROVE  Orderly(chunks') /\ chunks' \in Seq(ChunkSet) /\ chunks' # <<>> /\ EndOf(chunks') = c
  <2>1. chunks' = Append(chunks, c)
    <3>1. chunks' = chunks \o <<c>>
      BY <1>3
    <3>2. chunks \o <<c>> = Append(chunks, c)
      BY <1>1, Joined
    <3> QED BY <3>1, <3>2
  <2> QED BY <1>1, <1>3, <2>1, OrderGoesOn
<1>4. CASE n = 0 /\ chunks = <<>> /\ ToRole(f)
  <2> DEFINE c == Chunk("role", "", 0)
  <2>1. c \in ChunkSet /\ c.chunk = "role" /\ Emitted(f) = <<c>>
    BY <1>4 DEF ToRole, Chunk, ChunkSet
  <2> HIDE DEF c
  <2>2. Orderly(chunks') /\ chunks' \in Seq(ChunkSet) /\ chunks' # <<>> /\ EndOf(chunks') = c
    BY <1>3, <1>4, <2>1
  <2> QED BY <1>4, <2>1, <2>2 DEF ToRole, Going, IsTool
<1>5. CASE chunks # <<>> /\ Going(EndOf(chunks)) /\ ToTool(f)
  <2> DEFINE c == Chunk("tool", "", Len(toolBlocks))
  <2>1. c \in ChunkSet /\ c.chunk = "tool" /\ c.index = Len(toolBlocks) /\ Emitted(f) = <<c>>
    BY <1>2, <1>5 DEF ToTool, Chunk, ChunkSet
  <2> HIDE DEF c
  <2>2. Orderly(chunks') /\ chunks' \in Seq(ChunkSet) /\ chunks' # <<>> /\ EndOf(chunks') = c
    BY <1>3, <1>5, <2>1 DEF ChunkFollows, Going
  <2> QED BY <1>5, <2>1, <2>2 DEF ToTool, IsTool
<1>6. CASE chunks # <<>> /\ Going(EndOf(chunks)) /\ ToContent(f)
  <2> DEFINE c == Chunk("content", "", 0)
  <2>1. c \in ChunkSet /\ c.chunk = "content" /\ Emitted(f) = <<c>>
    BY <1>6 DEF ToContent, Chunk, ChunkSet
  <2> HIDE DEF c
  <2>2. Orderly(chunks') /\ chunks' \in Seq(ChunkSet) /\ chunks' # <<>> /\ EndOf(chunks') = c
    BY <1>3, <1>6, <2>1 DEF ChunkFollows, Going
  <2> QED BY <1>6, <2>1, <2>2 DEF ToContent, TextEvent, IsTool, Going
<1>7. CASE chunks # <<>> /\ Going(EndOf(chunks)) /\ ToFinish(f)
  <2> DEFINE c == Chunk("finish", finish, 0)
  <2>1. c \in ChunkSet /\ c.chunk = "finish" /\ Emitted(f) = <<c>>
    BY <1>0, <1>7 DEF ToFinish, Chunk, ChunkSet
  <2> HIDE DEF c
  <2>2. Orderly(chunks') /\ chunks' \in Seq(ChunkSet) /\ chunks' # <<>> /\ EndOf(chunks') = c
    BY <1>3, <1>7, <2>1 DEF ChunkFollows, Going
  <2> QED BY <1>7, <2>1, <2>2 DEF ToFinish, IsTool
<1>8. CASE chunks # <<>> /\ ToArguments(f) /\ toolBlocks # <<>>
           /\ EndOf(chunks).chunk = "tool" /\ EndOf(chunks).index = Len(toolBlocks) - 1
  <2> DEFINE c == Chunk("arguments", "", Len(toolBlocks) - 1)
  <2>1. Len(toolBlocks) - 1 \in Nat
    BY <1>2, <1>8
  <2>2. c \in ChunkSet /\ c.chunk = "arguments" /\ c.index = Len(toolBlocks) - 1 /\ Emitted(f) = <<c>>
    BY <1>8, <2>1 DEF ToArguments, Chunk, ChunkSet
  <2> HIDE DEF c
  <2>3. ChunkFollows(EndOf(chunks), c)
    BY <1>8, <2>2 DEF ChunkFollows
  <2>4. Orderly(chunks') /\ chunks' \in Seq(ChunkSet) /\ chunks' # <<>> /\ EndOf(chunks') = c
    BY <1>3, <1>8, <2>2, <2>3
  <2> QED BY <1>8, <2>2, <2>4 DEF ToArguments, IsTool, Going
<1>9. CASE chunks # <<>> /\ Going(EndOf(chunks)) /\ ToNothing(f)
  <2>1. chunks' = chunks
    <3>1. chunks' = chunks \o <<>>
      BY <1>9 DEF ToNothing
    <3>2. chunks \o <<>> = chunks
      BY <1>1
    <3> QED BY <3>1, <3>2
  <2> QED BY <1>1, <1>9, <2>1 DEF ToNothing
<1>10. CASE chunks # <<>> /\ Going(EndOf(chunks)) /\ ToError(f)
  <2> DEFINE c == Chunk("finish", "content_filter", 0)
  <2>1. /\ c \in ChunkSet /\ c.chunk = "finish" /\ Done \in ChunkSet /\ Done.chunk = "done"
        /\ Emitted(f) = <<c, Done>>
    BY <1>10 DEF ToError, Chunk, ChunkSet, Done
  <2> HIDE DEF c
  <2>2. chunks' = Append(Append(chunks, c), Done)
    <3>1. chunks' = chunks \o <<c, Done>>
      BY <2>1
    <3>2. c \in ChunkSet /\ Done \in ChunkSet
      BY <2>1
    <3>3. chunks \o <<c, Done>> = Append(Append(chunks, c), Done)
      BY <1>1, <3>2, Joined
    <3> QED BY <3>1, <3>3
  <2>3. /\ Orderly(Append(chunks, c)) /\ Append(chunks, c) \in Seq(ChunkSet)
        /\ Append(chunks, c) # <<>> /\ EndOf(Append(chunks, c)) = c
    <3>1. ChunkFollows(EndOf(chunks), c)
      BY <1>10, <2>1 DEF ChunkFollows, Going
    <3> QED BY <1>1, <1>10, <2>1, <3>1, OrderGoesOn
  <2>4. ChunkFollows(c, Done)
    BY <2>1 DEF ChunkFollows
  <2>5. Orderly(chunks') /\ chunks' \in Seq(ChunkSet) /\ chunks' # <<>>
    BY <2>1, <2>2, <2>3, <2>4, OrderGoesOn
  <2> QED BY <1>10, <2>5 DEF ToError, IsTool
<1> QED BY <1>4, <1>5, <1>6, <1>7, <1>8, <1>9, <1>10, NextChunk

LEMMA OneMore ==
  ASSUME NEW n \in Nat
  PROVE  1 .. n + 1 = (1 .. n) \cup {n + 1} /\ n + 1 \notin 1 .. n /\ n + 1 \in 1 .. n + 1
OBVIOUS

Has(s, kind) == \E i \in 1 .. Len(s) : s[i].chunk = kind

LEMMA HasMore ==
  ASSUME NEW s \in Seq(ChunkSet), NEW c \in ChunkSet, NEW kind
  PROVE  Has(Append(s, c), kind) <=> Has(s, kind) \/ c.chunk = kind
<1> DEFINE t == Append(s, c)
<1>1. /\ Len(t) = Len(s) + 1 /\ Len(s) \in Nat
      /\ \A i \in 1 .. Len(s) : t[i] = s[i]
      /\ t[Len(s) + 1] = c
  BY Added
<1> HIDE DEF t
<1>2. 1 .. Len(t) = (1 .. Len(s)) \cup {Len(s) + 1}
  BY <1>1, OneMore
<1> QED BY <1>1, <1>2 DEF Has, t

(* An event that is no error adds one chunk or none.                       *)
LEMMA FrameAdds ==
  ASSUME NEW n, NEW f, Reading(n, f), chunks' = chunks \o Emitted(f), f.event # "error"
  PROVE  \/ ToNothing(f) /\ chunks' = chunks
         \/ \E c \in ChunkSet :
              /\ chunks' = Append(chunks, c)
              /\ c.chunk = "tool" <=> IsTool(f)
              /\ c.chunk = "content" <=> TextEvent(f, "content_block_delta")
              /\ c.chunk = "finish" <=> f.event = "message_stop"
              /\ c.chunk = "finish" =>
                   n > 0 /\ wire[n].event = "message_delta" /\ c.what = finish /\ finish # ""
<1>0. finish \in {"", "tool_calls", "length", "stop"}
  BY DEF Reading, TranslatorTyped
<1>1. chunks \in Seq(ChunkSet) /\ toolBlocks \in Seq(Nat)
  BY DEF Reading, TranslatorTyped
<1>2. Len(toolBlocks) \in Nat /\ (toolBlocks # <<>> => Len(toolBlocks) - 1 \in Nat)
  BY <1>1, LengthOf
<1>3. ASSUME NEW c \in ChunkSet, Emitted(f) = <<c>>
      PROVE  chunks' = Append(chunks, c)
  <2>1. chunks' = chunks \o <<c>>
    BY <1>3
  <2>2. chunks \o <<c>> = Append(chunks, c)
    BY <1>1, Joined
  <2> QED BY <2>1, <2>2
<1>4. CASE ToRole(f)
  <2> DEFINE c == Chunk("role", "", 0)
  <2>1. c \in ChunkSet /\ c.chunk = "role" /\ Emitted(f) = <<c>>
    BY <1>4 DEF ToRole, Chunk, ChunkSet
  <2> HIDE DEF c
  <2> QED BY <1>3, <1>4, <2>1 DEF ToRole, IsTool, TextEvent
<1>5. CASE ToTool(f)
  <2> DEFINE c == Chunk("tool", "", Len(toolBlocks))
  <2>1. c \in ChunkSet /\ c.chunk = "tool" /\ Emitted(f) = <<c>>
    BY <1>2, <1>5 DEF ToTool, Chunk, ChunkSet
  <2> HIDE DEF c
  <2> QED BY <1>3, <1>5, <2>1 DEF ToTool, IsTool, TextEvent
<1>6. CASE ToContent(f)
  <2> DEFINE c == Chunk("content", "", 0)
  <2>1. c \in ChunkSet /\ c.chunk = "content" /\ Emitted(f) = <<c>>
    BY <1>6 DEF ToContent, Chunk, ChunkSet
  <2> HIDE DEF c
  <2> QED BY <1>3, <1>6, <2>1 DEF ToContent, IsTool, TextEvent
<1>7. CASE n > 0 /\ ToFinish(f) /\ wire[n].event = "message_delta"
  <2> DEFINE c == Chunk("finish", finish, 0)
  <2>1. c \in ChunkSet /\ c.chunk = "finish" /\ c.what = finish /\ Emitted(f) = <<c>>
    BY <1>0, <1>7 DEF ToFinish, Chunk, ChunkSet
  <2> HIDE DEF c
  <2> QED BY <1>3, <1>7, <2>1 DEF ToFinish, IsTool, TextEvent
<1>8. CASE ToArguments(f) /\ toolBlocks # <<>>
  <2> DEFINE c == Chunk("arguments", "", Len(toolBlocks) - 1)
  <2>1. c \in ChunkSet /\ c.chunk = "arguments" /\ Emitted(f) = <<c>>
    BY <1>2, <1>8 DEF ToArguments, Chunk, ChunkSet
  <2> HIDE DEF c
  <2> QED BY <1>3, <1>8, <2>1 DEF ToArguments, IsTool, TextEvent
<1>9. CASE ToNothing(f)
  <2>1. chunks' = chunks \o <<>>
    BY <1>9 DEF ToNothing
  <2>2. chunks \o <<>> = chunks
    BY <1>1
  <2> QED BY <1>9, <2>1, <2>2
<1> QED BY <1>4, <1>5, <1>6, <1>7, <1>8, <1>9, NextChunk DEF ToError

(* No tool block has a number that a later block has.                      *)
LEMMA Ahead ==
  ASSUME NEW n, NEW f, Reading(n, f),
         f.event \in {"content_block_start", "content_block_delta", "content_block_stop"},
         NEW i \in 1 .. Len(toolBlocks)
  PROVE  /\ toolBlocks[i] \in Nat /\ f.index \in Nat /\ toolBlocks[i] <= f.index
         /\ f.event = "content_block_start" => toolBlocks[i] < f.index
<1>1. Numbered(n) /\ toolBlocks \in Seq(Nat)
  BY DEF Reading, Read, TranslatorTyped
<1>2. toolBlocks[i] \in Nat /\ toolBlocks # <<>>
  BY <1>1
<1>3. /\ n > 0 /\ n \in Nat /\ wire[n].index \in Nat /\ f.index \in Nat /\ wire[n].event # "error"
      /\ Follows(wire[n], f)
  <2>1. n \in Nat /\ f \in SSEs /\ (n = 0 => f.event = "message_start")
    BY NextEvent
  <2>2. n > 0
    BY <2>1
  <2>3. wire[n] \in SSEs /\ wire[n].event # "error" /\ Follows(wire[n], f)
    BY <2>2, NextEvent
  <2> QED BY <2>1, <2>2, <2>3 DEF SSEs
<1>4. CASE wire[n].event = "message_start"
  BY <1>1, <1>2, <1>4 DEF Numbered
<1>5. CASE wire[n].event # "message_start"
  <2>1. /\ wire[n].event \in {"content_block_start", "content_block_delta", "content_block_stop"}
        /\ IF f.event = "content_block_start" THEN f.index = wire[n].index + 1
                                             ELSE f.index = wire[n].index
    BY <1>3, <1>5 DEF Follows
  <2>2. toolBlocks[i] <= wire[n].index
    BY <1>1, <1>3, <2>1 DEF Numbered
  <2>3. CASE f.event = "content_block_start"
    <3>1. f.index = wire[n].index + 1
      BY <2>1, <2>3
    <3>2. toolBlocks[i] < f.index /\ toolBlocks[i] <= f.index
      BY <1>2, <1>3, <2>2, <3>1
    <3> QED BY <1>2, <1>3, <3>2
  <2>4. CASE f.event # "content_block_start"
    BY <1>2, <1>3, <2>1, <2>2, <2>4
  <2> QED BY <2>3, <2>4
<1> QED BY <1>4, <1>5

LEMMA FrameNumbered ==
  ASSUME NEW n, NEW f, Reading(n, f), f.event # "error",
         chunks' = chunks \o Emitted(f), wire' = wire,
         toolBlocks' = IF IsTool(f) THEN Append(toolBlocks, f.index) ELSE toolBlocks
  PROVE  Numbered(n + 1)'
<1>1. /\ Numbered(n) /\ toolBlocks \in Seq(Nat) /\ chunks \in Seq(ChunkSet)
  BY DEF Reading, Read, TranslatorTyped
<1>2. n \in Nat /\ f.index \in Nat /\ wire[n + 1] = f
  <2>1. n \in Nat /\ f \in SSEs
    BY NextEvent
  <2> QED BY <2>1 DEF Reading, SSEs
<1>3. Len(toolBlocks) \in Nat
  BY <1>1
<1>4. IF IsTool(f)
      THEN /\ toolBlocks' \in Seq(Nat) /\ Len(toolBlocks') = Len(toolBlocks) + 1
           /\ \A i \in 1 .. Len(toolBlocks) : toolBlocks'[i] = toolBlocks[i]
           /\ toolBlocks'[Len(toolBlocks) + 1] = f.index /\ toolBlocks' # <<>>
      ELSE toolBlocks' = toolBlocks
  BY <1>1, <1>2, Added
<1>5. Cardinality(ToolsRead(n + 1))' = Len(toolBlocks')
  <2> DEFINE T == {i \in 1 .. n + 1 : IsTool(wire[i])}
  <2>1. /\ IsTool(f) => T = ToolsRead(n) \cup {n + 1}
        /\ ~IsTool(f) => T = ToolsRead(n)
    BY <1>2, OneMore DEF ToolsRead
  <2>2. ToolsRead(n) \subseteq 1 .. n
    BY DEF ToolsRead
  <2>3. ToolsRead(n + 1)' = T
    BY DEF ToolsRead, IsTool
  <2> HIDE DEF T
  <2>4. CASE IsTool(f)
    <3>1. Cardinality(T) = Cardinality(ToolsRead(n)) + 1
      BY <1>2, <2>1, <2>2, <2>4, SetGrows
    <3> QED BY <1>1, <1>4, <2>3, <2>4, <3>1 DEF Numbered
  <2>5. CASE ~IsTool(f)
    BY <1>1, <1>4, <2>1, <2>3, <2>5 DEF Numbered
  <2> QED BY <2>4, <2>5
<1>6. Cardinality(Heads(Len(chunks)))' = Len(toolBlocks')
  <2>1. Heads(Len(chunks))' = HeadsOf(chunks', Len(chunks')) /\ Heads(Len(chunks)) = HeadsOf(chunks, Len(chunks))
    BY DEF Heads, HeadsOf
  <2>2. CASE ToNothing(f) /\ chunks' = chunks
    BY <1>1, <1>4, <2>1, <2>2 DEF ToNothing, Numbered
  <2>3. ASSUME NEW c \in ChunkSet, chunks' = Append(chunks, c), c.chunk = "tool" <=> IsTool(f)
        PROVE  Cardinality(Heads(Len(chunks)))' = Len(toolBlocks')
    <3>1. /\ HeadsOf(chunks, Len(chunks)) \subseteq 1 .. Len(chunks)
          /\ HeadsOf(chunks', Len(chunks) + 1) =
              IF c.chunk = "tool" THEN HeadsOf(chunks, Len(chunks)) \cup {Len(chunks) + 1}
              ELSE HeadsOf(chunks, Len(chunks))
          /\ Len(chunks') = Len(chunks) + 1 /\ Len(chunks) \in Nat
      <4>1. /\ HeadsOf(chunks, Len(chunks)) \subseteq 1 .. Len(chunks)
            /\ HeadsOf(Append(chunks, c), Len(chunks) + 1) =
                 IF c.chunk = "tool" THEN HeadsOf(chunks, Len(chunks)) \cup {Len(chunks) + 1}
                 ELSE HeadsOf(chunks, Len(chunks))
        BY <1>1, HeadsGrow
      <4>2. Len(Append(chunks, c)) = Len(chunks) + 1 /\ Len(chunks) \in Nat
        BY <1>1, Added
      <4> QED BY <2>3, <4>1, <4>2
    <3>2. CASE IsTool(f)
      <4> DEFINE S == HeadsOf(chunks, Len(chunks))
                 T == HeadsOf(chunks', Len(chunks'))
                 k == Len(chunks)
      <4>1. k \in Nat /\ S \subseteq 1 .. k /\ T = S \cup {k + 1}
        BY <2>3, <3>1, <3>2
      <4> HIDE DEF S, T, k
      <4>2. Cardinality(T) = Cardinality(S) + 1
        BY <4>1, SetGrows, ZenonT(60)
      <4> QED BY <1>1, <1>4, <2>1, <3>2, <4>2 DEF Numbered, S, T
    <3>3. CASE ~IsTool(f)
      BY <1>1, <1>4, <2>1, <2>3, <3>1, <3>3 DEF Numbered
    <3> QED BY <3>2, <3>3
  <2> QED BY <2>2, <2>3, FrameAdds
<1>7. \A i, j \in 1 .. Len(toolBlocks') : i < j => toolBlocks'[i] < toolBlocks'[j]
  <2>1. CASE IsTool(f)
    <3> SUFFICES ASSUME NEW i \in 1 .. Len(toolBlocks'), NEW j \in 1 .. Len(toolBlocks'), i < j
                 PROVE  toolBlocks'[i] < toolBlocks'[j]
      OBVIOUS
    <3>1. i \in 1 .. Len(toolBlocks) /\ toolBlocks'[i] = toolBlocks[i]
      BY <1>3, <1>4, <2>1
    <3>2. CASE j = Len(toolBlocks) + 1
      <4>1. toolBlocks[i] < f.index
        BY <2>1, <3>1, Ahead DEF IsTool
      <4> QED BY <1>4, <2>1, <3>1, <3>2, <4>1
    <3>3. CASE j # Len(toolBlocks) + 1
      <4>1. j \in 1 .. Len(toolBlocks) /\ toolBlocks'[j] = toolBlocks[j]
        BY <1>3, <1>4, <2>1, <3>3
      <4> QED BY <1>1, <3>1, <4>1 DEF Numbered
    <3> QED BY <3>2, <3>3
  <2>2. CASE ~IsTool(f)
    BY <1>1, <1>4, <2>2 DEF Numbered
  <2> QED BY <2>1, <2>2
<1>8. n + 1 = 0 \/ f.event = "message_start" => toolBlocks' = <<>>
  <2>1. n + 1 # 0
    BY <1>2
  <2>2. ASSUME f.event = "message_start"
        PROVE  toolBlocks' = <<>>
    <3>1. n = 0
      BY <2>2, NextEvent DEF Follows
    <3> QED BY <1>1, <1>4, <2>2, <3>1 DEF Numbered, IsTool
  <2> QED BY <2>1, <2>2
<1>9. f.event \in {"content_block_start", "content_block_delta", "content_block_stop"} =>
        \A i \in 1 .. Len(toolBlocks') : toolBlocks'[i] <= f.index
  <2> SUFFICES ASSUME f.event \in {"content_block_start", "content_block_delta", "content_block_stop"},
                      NEW i \in 1 .. Len(toolBlocks')
               PROVE  toolBlocks'[i] <= f.index
    OBVIOUS
  <2>1. CASE i \in 1 .. Len(toolBlocks)
    <3>1. toolBlocks'[i] = toolBlocks[i]
      BY <1>4, <2>1
    <3> QED BY <2>1, <3>1, Ahead
  <2>2. CASE i \notin 1 .. Len(toolBlocks)
    <3>1. IsTool(f)
      BY <1>4, <2>2
    <3>2. i = Len(toolBlocks) + 1
      BY <1>3, <1>4, <2>2, <3>1
    <3> QED BY <1>2, <1>4, <3>1, <3>2
  <2> QED BY <2>1, <2>2
<1>10. IsTool(f) => toolBlocks' # <<>> /\ toolBlocks'[Len(toolBlocks')] = f.index
  BY <1>4
<1>11. wire'[n + 1] = f /\ IsTool(wire[n + 1])' = IsTool(f)
  BY <1>2 DEF IsTool
<1> QED BY <1>5, <1>6, <1>7, <1>8, <1>9, <1>10, <1>11 DEF Numbered

LEMMA FrameTexted ==
  ASSUME NEW n, NEW f, Reading(n, f), f.event # "error",
         chunks' = chunks \o Emitted(f), wire' = wire
  PROVE  Texted(n + 1)'
<1> DEFINE Delta(e) == TextEvent(e, "content_block_delta")
           Begin(e) == TextEvent(e, "content_block_start")
<1>1. Texted(n) /\ chunks \in Seq(ChunkSet)
  BY DEF Reading, Read, TranslatorTyped
<1>2. n \in Nat /\ wire[n + 1] = f
  BY NextEvent DEF Reading
<1>3. 1 .. n + 1 = (1 .. n) \cup {n + 1}
  BY <1>2, OneMore
<1>4. /\ (\E i \in 1 .. n + 1 : Delta(wire[i])) <=> (\E i \in 1 .. n : Delta(wire[i])) \/ Delta(f)
      /\ (\E i \in 1 .. n + 1 : Begin(wire[i])) <=> (\E i \in 1 .. n : Begin(wire[i])) \/ Begin(f)
  BY <1>2, <1>3
<1>5. Has(chunks', "content") <=> Has(chunks, "content") \/ Delta(f)
  <2>1. CASE ToNothing(f) /\ chunks' = chunks
    BY <2>1 DEF ToNothing
  <2>2. ASSUME NEW c \in ChunkSet, chunks' = Append(chunks, c),
               c.chunk = "content" <=> Delta(f)
        PROVE  Has(chunks', "content") <=> Has(chunks, "content") \/ Delta(f)
    BY <1>1, <2>2, HasMore
  <2> QED BY <2>1, <2>2, FrameAdds
<1>6. Delta(f) => \E i \in 1 .. n : Begin(wire[i])
  <2>1. ASSUME Delta(f)
        PROVE  n > 0 /\ (Begin(wire[n]) \/ Delta(wire[n]))
    <3>1. n > 0
      BY <1>2, <2>1, NextEvent DEF TextEvent
    <3>2. Follows(wire[n], f)
      BY <3>1, NextEvent
    <3> QED BY <2>1, <3>1, <3>2 DEF Follows, TextEvent
  <2> QED BY <1>1, <2>1 DEF Texted
<1>7. /\ Has(chunks, "content") <=> \E i \in 1 .. n : Delta(wire[i])
      /\ (\E i \in 1 .. n : Delta(wire[i])) => \E i \in 1 .. n : Begin(wire[i])
  BY <1>1 DEF Texted, Has
<1>8. /\ Has(chunks', "content") <=> \E i \in 1 .. n + 1 : Delta(wire[i])
      /\ Begin(f) \/ Delta(f) => \E i \in 1 .. n + 1 : Begin(wire[i])
      /\ (\E i \in 1 .. n + 1 : Delta(wire[i])) => \E i \in 1 .. n + 1 : Begin(wire[i])
  BY <1>4, <1>5, <1>6, <1>7
<1>9. wire' = wire /\ wire[n + 1] = f
  BY <1>2
<1> QED BY <1>8, <1>9 DEF Texted, Has, TextEvent

LEMMA FrameFinishing ==
  ASSUME NEW n, NEW f, Reading(n, f), f.event # "error",
         chunks' = chunks \o Emitted(f), wire' = wire,
         toolBlocks' = IF IsTool(f) THEN Append(toolBlocks, f.index) ELSE toolBlocks,
         finish' = FinishReason(f), sentFinal' = (sentFinal \/ f.event = "message_stop")
  PROVE  Finishing(n + 1)'
<1>1. Finishing(n) /\ chunks \in Seq(ChunkSet)
  BY DEF Reading, Read, TranslatorTyped
<1>2. n \in Nat /\ wire[n + 1] = f /\ n + 1 > 0
  BY NextEvent DEF Reading
<1>3. 1 .. n + 1 = (1 .. n) \cup {n + 1}
  BY <1>2, OneMore
<1>4. n = 0 \/ Follows(wire[n], f)
  BY <1>2, NextEvent
<1> DEFINE Closing(e) == e.event \in {"message_delta", "message_stop"}
<1>5. ASSUME n > 0, Closing(wire[n])
      PROVE  f.event = "message_stop" /\ finish' = finish /\ toolBlocks' = toolBlocks
  BY <1>4, <1>5 DEF Follows, FinishReason, IsTool
<1>6. ASSUME NEW i \in 1 .. n + 1, wire[i].event = "message_delta"
      PROVE  Closing(f) /\ finish' = MapFinishReason(wire[i].what, toolBlocks' # <<>>)
  <2>1. CASE i \in 1 .. n
    <3>1. n > 0 /\ Closing(wire[n]) /\ finish = MapFinishReason(wire[i].what, toolBlocks # <<>>)
      BY <1>1, <1>2, <1>6, <2>1 DEF Finishing
    <3> QED BY <1>5, <3>1
  <2>2. CASE i = n + 1
    BY <1>2, <1>6, <2>2 DEF FinishReason, IsTool
  <2> QED BY <1>3, <2>1, <2>2
<1>7. Closing(f) => \E i \in 1 .. n + 1 : wire[i].event = "message_delta"
  <2>1. CASE f.event = "message_delta"
    BY <1>2, <1>3, <2>1
  <2>2. CASE f.event = "message_stop"
    <3>1. n > 0
      BY <1>2, <2>2, NextEvent
    <3>2. wire[n].event = "message_delta"
      BY <1>2, <1>4, <2>2, <3>1 DEF Follows
    <3> QED BY <1>1, <1>3, <3>1, <3>2 DEF Finishing
  <2> QED BY <2>1, <2>2
<1>8. /\ \A i \in 1 .. Len(chunks') : chunks'[i].chunk = "finish" =>
            f.event = "message_stop" /\ chunks'[i].what = finish'
      /\ f.event = "message_stop" => Has(chunks', "finish")
  <2>1. ASSUME Has(chunks, "finish")
        PROVE  FALSE
    <3>1. n > 0 /\ wire[n].event = "message_stop"
      BY <1>1, <2>1 DEF Finishing, Has
    <3> QED BY <1>2, <1>4, <3>1 DEF Follows
  <2>2. CASE ToNothing(f) /\ chunks' = chunks
    BY <2>1, <2>2 DEF ToNothing, Has
  <2>3. ASSUME NEW c \in ChunkSet, chunks' = Append(chunks, c),
               c.chunk = "finish" <=> f.event = "message_stop",
               c.chunk = "finish" => c.what = finish /\ wire[n].event = "message_delta" /\ n > 0
        PROVE  /\ \A i \in 1 .. Len(chunks') : chunks'[i].chunk = "finish" =>
                     f.event = "message_stop" /\ chunks'[i].what = finish'
               /\ f.event = "message_stop" => Has(chunks', "finish")
    <3>1. /\ Len(chunks') = Len(chunks) + 1 /\ Len(chunks) \in Nat
          /\ \A i \in 1 .. Len(chunks) : chunks'[i] = chunks[i]
          /\ chunks'[Len(chunks) + 1] = c
      BY <1>1, <2>3, Added
    <3>2. 1 .. Len(chunks') = (1 .. Len(chunks)) \cup {Len(chunks) + 1}
      BY <3>1, OneMore
    <3>3. c.chunk = "finish" => c.what = finish'
      BY <1>5, <2>3
    <3>4. \A i \in 1 .. Len(chunks) : chunks[i].chunk # "finish"
      BY <2>1 DEF Has
    <3> QED BY <2>3, <3>1, <3>2, <3>3, <3>4 DEF Has
  <2>4. CASE ~(ToNothing(f) /\ chunks' = chunks)
    <3>1. PICK c \in ChunkSet :
            /\ chunks' = Append(chunks, c)
            /\ c.chunk = "finish" <=> f.event = "message_stop"
            /\ c.chunk = "finish" => c.what = finish /\ wire[n].event = "message_delta" /\ n > 0
      BY <2>4, FrameAdds, Zenon
    <3> QED BY <2>3, <3>1
  <2> QED BY <2>2, <2>4
<1>9. sentFinal' => f.event = "message_stop"
  <2>1. ~(n > 0 /\ wire[n].event = "message_stop")
    BY <1>2, <1>4 DEF Follows
  <2> QED BY <1>1, <2>1 DEF Finishing
<1>10. wire' = wire /\ wire[n + 1] = f
  BY <1>2
<1>11. /\ \A i \in 1 .. n + 1 : wire'[i].event = "message_delta" =>
             /\ wire'[n + 1].event \in {"message_delta", "message_stop"}
             /\ finish' = MapFinishReason(wire'[i].what, toolBlocks' # <<>>)
       /\ wire'[n + 1].event \in {"message_delta", "message_stop"} =>
             \E i \in 1 .. n + 1 : wire'[i].event = "message_delta"
  BY <1>6, <1>7, <1>10
<1> QED BY <1>2, <1>8, <1>9, <1>10, <1>11 DEF Finishing, Has

LEMMA FramePosition ==
  ASSUME NEW n, NEW f, Reading(n, f), f.event # "error", Orderly(chunks), ~left,
         chunks' = chunks \o Emitted(f), wire' = wire,
         toolBlocks' = IF IsTool(f) THEN Append(toolBlocks, f.index) ELSE toolBlocks,
         reader' \in {"reading", "work"}
  PROVE  Position(n + 1)'
<1>1. n \in Nat /\ wire[n + 1] = f /\ n + 1 > 0 /\ n + 1 # 0
  BY NextEvent DEF Reading
<1>2. Cardinality(HeadsOf(chunks, Len(chunks))) = Len(toolBlocks) /\ toolBlocks \in Seq(Nat)
  BY DEF Reading, Read, Numbered, Heads, HeadsOf, TranslatorTyped
<1>3. /\ chunks' # <<>>
      /\ f.event = "message_stop" => EndOf(chunks').chunk = "finish"
      /\ IsTool(f) => EndOf(chunks').chunk = "tool" /\ EndOf(chunks').index = Len(toolBlocks)
      /\ ~IsTool(f) /\ f.event # "message_stop" => Going(EndOf(chunks'))
  BY <1>2, FrameOrder
<1>4. IsTool(f) => Len(toolBlocks') - 1 = Len(toolBlocks)
  <2>1. f \in SSEs
    BY NextEvent
  <2>2. f.index \in Nat
    BY <2>1 DEF SSEs
  <2>3. Len(Append(toolBlocks, f.index)) = Len(toolBlocks) + 1 /\ Len(toolBlocks) \in Nat
    BY <1>2, <2>2
  <2> QED BY <2>3
<1>5. EndOf(chunks)' = EndOf(chunks') /\ wire'[n + 1] = f /\ (IsTool(wire[n + 1])' <=> IsTool(f))
  BY <1>1 DEF EndOf, IsTool
<1> QED BY <1>1, <1>3, <1>4, <1>5 DEF Position, Going

-----------------------------------------------------------------------------
(* The steps of the translator *)

(* Where the pipe stands when there is something to handle.                *)
LEMMA AtWork ==
  ASSUME OpenAIInv, reader = "work", ~left
  PROVE  /\ Reading(At, Head(inbox)) /\ At = Len(wire) - Len(inbox) /\ ~BufferedErr
         /\ inbox # <<>> /\ Tail(inbox) \in Seq(SSEs) /\ Len(Tail(inbox)) = Len(inbox) - 1
         /\ \A k \in 1 .. Len(Tail(inbox)) : Tail(inbox)[k] = inbox[k + 1]
         /\ Len(inbox) \in Nat /\ Len(wire) \in Nat
<1>0. \E n \in Nat : n = At /\ Read(n)
  BY DEF OpenAIInv, Listening
<1>1. /\ Piped /\ TranslatorTyped /\ Read(At)
      /\ inbox # <<>> /\ ~BufferedErr /\ inbox \in Seq(SSEs) /\ wire \in Seq(SSEs)
  BY <1>0 DEF OpenAIInv, Piped, TranslatorTyped, StreamInv, StreamTyped, OutTyped
<1>2. inbox \in Seq(SSEs) /\ wire \in Seq(SSEs) /\ inbox # <<>>
  BY <1>1
<1>3. /\ Len(inbox) \in Nat \ {0} /\ Len(wire) \in Nat /\ Head(inbox) = inbox[1]
      /\ Tail(inbox) \in Seq(SSEs) /\ Len(Tail(inbox)) = Len(inbox) - 1
      /\ \A k \in 1 .. Len(Tail(inbox)) : Tail(inbox)[k] = inbox[k + 1]
  BY <1>2
<1>4. At = Len(wire) - Len(inbox)
  BY <1>1 DEF At
<1>5. Len(inbox) <= Len(wire) /\ \A k \in 1 .. Len(inbox) : inbox[k] = wire[At + k]
  BY <1>1 DEF Piped
<1>6. At \in Nat /\ At < Len(wire) /\ Head(inbox) = wire[At + 1]
  <2>1. 1 \in 1 .. Len(inbox)
    BY <1>3
  <2> QED BY <1>3, <1>4, <1>5, <2>1
<1>7. Answering(wire)
  BY <1>1, InThePipe DEF OpenAIInv, BufferedErr
<1> QED BY <1>1, <1>3, <1>4, <1>6, <1>7 DEF Reading

(* The stream does not move under the translator.                          *)
LEMMA StreamAlone ==
  ASSUME StreamInv, Blocks, ~gone, UNCHANGED vars
  PROVE  StreamInv' /\ Blocks' /\ ~gone' /\ UNCHANGED <<pc, wire>> /\ BufferedErr' = BufferedErr
<1>1. UNCHANGED <<gate, buf, wire, calls, pc, gone>>
  BY DEF vars, handler, out
<1>2. Stream' = Stream /\ BufferedErr' = BufferedErr
  BY <1>1 DEF Stream, BufferedErr
<1> QED BY <1>1, <1>2, StepKeeps, BlocksAlone

LEMMA HandleFrameKeeps ==
  ASSUME OpenAIInv, HandleFrame
  PROVE  OpenAIInv'
<1>0. PICK n, f : n = At /\ f = Head(inbox)
  OBVIOUS
<1>1. /\ reader = "work" /\ ~left /\ inbox' = Tail(inbox) /\ UNCHANGED <<vars, stage, left>>
      /\ chunks' = chunks \o Emitted(f)
      /\ toolBlocks' = IF IsTool(f) THEN Append(toolBlocks, f.index) ELSE toolBlocks
      /\ finish' = FinishReason(f) /\ sentFinal' = (sentFinal \/ f.event = "message_stop")
      /\ reader' = CASE f.event = "error" -> "left"
                     [] f.event # "error" /\ Len(inbox) = 1 -> "reading"
                     [] OTHER -> "work"
  BY <1>0 DEF HandleFrame, Write200
<1>2. /\ Reading(n, f) /\ n = Len(wire) - Len(inbox) /\ ~BufferedErr
      /\ inbox # <<>> /\ inbox' \in Seq(SSEs) /\ Len(inbox') = Len(inbox) - 1
      /\ \A k \in 1 .. Len(inbox') : inbox'[k] = inbox[k + 1]
      /\ Len(inbox) \in Nat /\ Len(wire) \in Nat
  BY <1>0, <1>1, AtWork
<1>3. /\ StreamInv' /\ Blocks' /\ ~gone' /\ wire' = wire /\ pc' = pc /\ ~BufferedErr'
      /\ Piped /\ TranslatorTyped /\ Orderly(chunks)
  BY <1>1, <1>2, StreamAlone DEF OpenAIInv
<1>4. /\ n \in Nat /\ f \in SSEs /\ n + 1 \in 1 .. Len(wire)
  BY <1>2, NextEvent
<1>5. At' = n + 1
  <2>1. At' = Len(wire') - Len(inbox')
    BY <1>3 DEF At
  <2> QED BY <1>2, <1>3, <2>1
<1>6. Orderly(chunks') /\ chunks' \in Seq(ChunkSet)
  <2>1. Cardinality(HeadsOf(chunks, Len(chunks))) = Len(toolBlocks)
    BY <1>2 DEF Reading, Read, Numbered, Heads, HeadsOf
  <2> QED BY <1>1, <1>2, <1>3, <2>1, FrameOrder
<1>7. reader' = "left" => f.event = "error"
  BY <1>1
<1>8. f.event # "error" => reader' \in {"reading", "work"}
  BY <1>1
<1>9. TranslatorTyped'
  <2>1. toolBlocks' \in Seq(Nat)
    <3>1. toolBlocks \in Seq(Nat) /\ f.index \in Nat
      BY <1>3, <1>4 DEF TranslatorTyped, SSEs
    <3> QED BY <1>1, <3>1, Added
  <2>2. finish' \in {"", "tool_calls", "length", "stop"}
    BY <1>1, <1>3 DEF TranslatorTyped, FinishReason, MapFinishReason
  <2>3. reader' \in {"reading", "work", "finished", "left"}
    BY <1>1
  <2>4. sentFinal' \in BOOLEAN
    BY <1>1, <1>3 DEF TranslatorTyped
  <2> QED BY <1>1, <1>2, <1>3, <1>6, <2>1, <2>2, <2>3, <2>4 DEF TranslatorTyped
<1>10. Piped'
  <2>1. Len(inbox') <= Len(wire') /\ \A k \in 1 .. Len(inbox') : inbox'[k] = wire'[At' + k]
    <3>1. Len(inbox) <= Len(wire) /\ \A k \in 1 .. Len(inbox) : inbox[k] = wire[n + k]
      BY <1>0, <1>3 DEF Piped
    <3>2. ASSUME NEW k \in 1 .. Len(inbox')
          PROVE  inbox'[k] = wire'[At' + k]
      <4>1. k + 1 \in 1 .. Len(inbox) /\ n + (k + 1) = (n + 1) + k
        BY <1>2, <1>4
      <4> QED BY <1>2, <1>3, <1>5, <3>1, <4>1
    <3>3. Len(inbox') <= Len(wire')
      BY <1>2, <1>3, <3>1
    <3> QED BY <3>2, <3>3
  <2>2. reader' = "reading" => inbox' = <<>>
    <3>1. reader' = "reading" => Len(inbox) = 1
      BY <1>1
    <3>2. Len(inbox) = 1 => Len(inbox') = 0
      BY <1>2
    <3>3. Len(inbox') = 0 => inbox' = <<>>
      BY <1>2
    <3> QED BY <3>1, <3>2, <3>3
  <2>3. reader' = "work" => inbox' # <<>>
    <3>1. reader' = "work" => Len(inbox) # 1
      BY <1>1
    <3>2. inbox' = <<>> => Len(inbox') = 0
      OBVIOUS
    <3> QED BY <1>2, <3>1, <3>2
  <2>4. reader' # "finished"
    BY <1>1
  <2>5. wire # <<>>
    BY <1>4
  <2> QED BY <1>1, <1>3, <2>1, <2>2, <2>3, <2>4, <2>5 DEF Piped
<1>11. Listening' => \E m \in Nat : m = At' /\ Read(m)'
  <2>1. ASSUME Listening'
        PROVE  Read(n + 1)'
    <3>1. f.event # "error"
      BY <1>1, <2>1 DEF Listening
    <3>2. Numbered(n + 1)' /\ Texted(n + 1)'
      BY <1>1, <1>2, <1>3, <3>1, FrameNumbered, FrameTexted
    <3>3. Finishing(n + 1)' /\ Position(n + 1)'
      BY <1>1, <1>2, <1>3, <1>8, <3>1, FrameFinishing, FramePosition
    <3> QED BY <3>2, <3>3 DEF Read
  <2>2. n + 1 \in Nat
    BY <1>4
  <2> QED BY <1>5, <2>1, <2>2
<1> QED BY <1>3, <1>6, <1>9, <1>10, <1>11 DEF OpenAIInv

(* What has been read stays read, as the pipe fills.                       *)
LEMMA ReadStays ==
  ASSUME NEW n \in Nat, Read(n), \A i \in 1 .. n : wire'[i] = wire[i],
         UNCHANGED <<toolBlocks, finish, sentFinal, chunks>>,
         \/ reader \in {"reading", "work"} /\ reader' \in {"reading", "work"}
         \/ /\ reader' = reader /\ (BufferedErr' <=> BufferedErr)
            /\ stage' = "closed" => stage = "closed"
  PROVE  Read(n)'
<1>1. n > 0 => wire'[n] = wire[n]
  <2>1. n > 0 => n \in 1 .. n
    OBVIOUS
  <2> QED BY <2>1
<1>2. /\ \A i \in 1 .. n : IsTool(wire[i])' = IsTool(wire[i])
      /\ n > 0 => IsTool(wire[n])' = IsTool(wire[n])
  BY <1>1 DEF IsTool
<1>3. ToolsRead(n)' = ToolsRead(n) /\ Heads(Len(chunks))' = Heads(Len(chunks))
  BY <1>2 DEF ToolsRead, Heads
<1>4. Numbered(n)'
  BY <1>1, <1>2, <1>3 DEF Read, Numbered
<1>5. Texted(n)'
  <2>1. ASSUME NEW event
        PROVE  /\ \A i \in 1 .. n : TextEvent(wire[i], event)' <=> TextEvent(wire[i], event)
               /\ n > 0 => (TextEvent(wire[n], event)' <=> TextEvent(wire[n], event))
    BY <1>1 DEF TextEvent
  <2> QED BY <2>1 DEF Read, Texted
<1>6. Finishing(n)'
  BY <1>1 DEF Read, Finishing
<1>7. Position(n)'
  <2>1. EndOf(chunks)' = EndOf(chunks)
    BY DEF EndOf
  <2> QED BY <1>1, <1>2, <2>1 DEF Read, Position, Going
<1> QED BY <1>4, <1>5, <1>6, <1>7 DEF Read

LEMMA Suffix ==
  ASSUME NEW A, NEW t \in Seq(A), NEW m \in Nat, m <= Len(t),
         NEW r, r = SubSeq(t, m + 1, Len(t))
  PROVE  /\ r \in Seq(A) /\ Len(r) = Len(t) - m
         /\ \A k \in 1 .. Len(r) : r[k] = t[m + k]
         /\ r = <<>> <=> Len(t) = m
<1>1. Len(t) \in Nat
  OBVIOUS
<1>2. \A i \in m + 1 .. Len(t) : t[i] \in A
  BY <1>1
<1>3. r \in Seq(A)
  BY <1>1, <1>2
<1>4. Len(r) = Len(t) - m
  <2>1. CASE m = Len(t)
    <3>1. m + 1 > Len(t)
      BY <1>1, <2>1
    <3> QED BY <1>1, <2>1, <3>1
  <2>2. CASE m < Len(t)
    BY <1>1, <2>2
  <2> QED BY <1>1, <2>1, <2>2
<1>5. \A k \in 1 .. Len(r) : r[k] = t[m + k]
  BY <1>1, <1>4
<1>6. r = <<>> <=> Len(r) = 0
  <2>1. r = <<>> => Len(r) = 0
    OBVIOUS
  <2>2. Len(r) = 0 => r = <<>>
    BY <1>3
  <2> QED BY <2>1, <2>2
<1>7. r = <<>> <=> Len(t) = m
  BY <1>1, <1>4, <1>6
<1> QED BY <1>3, <1>4, <1>5, <1>7

(* What the pipeline writes is behind what the translator has read.        *)
LEMMA PipeFills ==
  ASSUME OpenAIInv, Pipeline
  PROVE  /\ Piped' /\ TranslatorTyped' /\ At' = At
         /\ At \in Nat /\ \A i \in 1 .. At : wire'[i] = wire[i]
         /\ StreamInv' /\ Blocks' /\ ~gone'
         /\ \/ reader \in {"reading", "work"} /\ reader' \in {"reading", "work"}
            \/ reader' = reader /\ reader = "left"
            \/ reader' = reader /\ (BufferedErr' <=> BufferedErr)
<1>1. /\ Runs
      /\ Sent # <<>> => reader = "reading"
      /\ Sent # <<>> => inbox' = Sent /\ reader' = "work"
      /\ Sent = <<>> => inbox' = inbox /\ reader' = reader
      /\ UNCHANGED <<stage, toolBlocks, finish, sentFinal, chunks, left>>
  BY DEF Pipeline, Runs, client
<1>2. /\ StreamInv' /\ Blocks' /\ ~gone' /\ wire \in Seq(SSEs) /\ wire' \in Seq(SSEs)
      /\ Grown(wire, wire') /\ (pc = "done" => pc' = "done" /\ wire' = wire)
  <2>1. StreamInv /\ Blocks /\ ~gone
    BY DEF OpenAIInv
  <2> QED BY <1>1, <2>1, PipelineKeeps
<1>3. BufferedErr => wire' = wire /\ BufferedErr' /\ Sent = <<>>
  <2>1. wire = <<JSON>> => pc = "done"
    BY InThePipe DEF OpenAIInv
  <2> QED BY <1>2, <2>1 DEF BufferedErr, Sent
<1>4. /\ Piped /\ TranslatorTyped /\ Len(wire) \in Nat /\ Len(wire') \in Nat
      /\ Len(inbox) \in Nat /\ inbox \in Seq(SSEs)
      /\ Len(wire) <= Len(wire') /\ \A i \in 1 .. Len(wire) : wire'[i] = wire[i]
  <2>1. Piped /\ TranslatorTyped /\ inbox \in Seq(SSEs)
    BY DEF OpenAIInv, TranslatorTyped
  <2> QED BY <1>2, <2>1, LengthOf DEF Grown
<1>5. CASE BufferedErr
  <2>1. wire' = wire /\ BufferedErr' /\ inbox' = inbox /\ reader' = reader
    BY <1>1, <1>3, <1>5
  <2>2. At = 0 /\ At' = 0
    BY <1>5, <2>1 DEF At
  <2>3. Piped'
    BY <1>1, <1>2, <1>4, <1>5, <2>1, <2>2 DEF Piped
  <2>4. TranslatorTyped'
    BY <1>1, <1>4, <2>1 DEF TranslatorTyped
  <2> QED BY <1>2, <1>5, <2>1, <2>2, <2>3, <2>4
<1>6. CASE ~BufferedErr /\ BufferedErr'
  <2>1. wire = <<>>
    <3>1. Len(wire') = 1 /\ wire'[1] = JSON
      BY <1>6 DEF BufferedErr
    <3>2. ASSUME Len(wire) = 1
          PROVE  FALSE
      <4>1. wire[1] = JSON
        BY <1>4, <3>1, <3>2
      <4>2. wire = <<JSON>>
        BY <1>2, <3>2, <4>1
      <4> QED BY <1>6, <4>2 DEF BufferedErr
    <3>3. Len(wire) \in Nat /\ Len(wire) <= 1
      BY <1>4, <3>1
    <3>4. ASSUME NEW k \in Nat, k <= 1, k # 1
          PROVE  k = 0
      BY <3>4
    <3>5. Len(wire) = 0
      BY <3>2, <3>3, <3>4
    <3> QED BY <1>2, <3>5
  <2>2. inbox = <<>>
    <3>1. Len(inbox) <= Len(wire)
      BY <1>4 DEF Piped
    <3>2. Len(wire) = 0
      BY <2>1
    <3>3. Len(inbox) = 0
      BY <1>4, <3>1, <3>2
    <3> QED BY <1>4, <3>3
  <2>3. Sent = <<>>
    BY <1>6 DEF Sent, BufferedErr
  <2>4. inbox' = inbox /\ reader' = reader
    BY <1>1, <2>3
  <2>5. At = 0 /\ At' = 0
    <3>1. Len(wire) = 0 /\ Len(inbox) = 0
      BY <2>1, <2>2
    <3> QED BY <1>6, <3>1 DEF At
  <2>6. Piped'
    <3>1. Len(inbox') = 0
      BY <2>2, <2>4
    <3>2. Len(inbox') <= Len(wire') /\ \A k \in 1 .. Len(inbox') : inbox'[k] = wire'[At' + k]
      BY <1>4, <3>1
    <3>3. reader # "work"
      BY <1>4, <2>2 DEF Piped
    <3>4. reader' = "left" => left'
      BY <1>1, <1>4, <2>1, <2>4 DEF Piped
    <3>5. stage' # "running" => pc' = "done"
      BY <1>1, <1>2, <1>4 DEF Piped
    <3>6. reader' = "finished" => stage' # "running"
      BY <1>1, <1>4, <2>4 DEF Piped
    <3> QED BY <2>2, <2>4, <3>2, <3>3, <3>4, <3>5, <3>6 DEF Piped
  <2>7. TranslatorTyped'
    BY <1>1, <1>4, <2>4 DEF TranslatorTyped
  <2>8. stage = "running" \/ wire' = wire
    BY <1>2, <1>4 DEF Piped
  <2>9. reader # "finished" /\ reader # "work"
    <3>1. wire' # wire
      BY <1>6 DEF BufferedErr
    <3> QED BY <1>4, <2>2, <2>8, <3>1 DEF Piped
  <2>10. reader \in {"reading", "left"}
    BY <1>4, <2>9 DEF TranslatorTyped
  <2>11. At' = At /\ At \in Nat /\ \A i \in 1 .. At : wire'[i] = wire[i]
    BY <2>5
  <2>12. \/ reader \in {"reading", "work"} /\ reader' \in {"reading", "work"}
         \/ reader' = reader /\ reader = "left"
    BY <2>4, <2>10
  <2> QED BY <1>2, <2>6, <2>7, <2>11, <2>12
<1>7. CASE ~BufferedErr /\ ~BufferedErr'
  <2>1. Sent = SubSeq(wire', Len(wire) + 1, Len(wire'))
    BY <1>7 DEF Sent, BufferedErr
  <2>2. /\ Sent \in Seq(SSEs) /\ Len(Sent) = Len(wire') - Len(wire)
        /\ \A k \in 1 .. Len(Sent) : Sent[k] = wire'[Len(wire) + k]
        /\ Sent = <<>> <=> Len(wire') = Len(wire)
    <3>1. wire' \in Seq(SSEs) /\ Len(wire) \in Nat /\ Len(wire) <= Len(wire')
      BY <1>2, <1>4
    <3>2. PICK m, r : m = Len(wire) /\ r = Sent
      OBVIOUS
    <3>3. r = SubSeq(wire', m + 1, Len(wire')) /\ m \in Nat /\ m <= Len(wire')
      BY <2>1, <3>1, <3>2
    <3>4. PICK t : t = wire'
      OBVIOUS
    <3>5. /\ r \in Seq(SSEs) /\ Len(r) = Len(t) - m
          /\ \A k \in 1 .. Len(r) : r[k] = t[m + k]
          /\ r = <<>> <=> Len(t) = m
      BY <3>1, <3>3, <3>4, Suffix
    <3> QED BY <3>2, <3>4, <3>5
  <2>3. At = Len(wire) - Len(inbox) /\ At' = Len(wire') - Len(inbox')
    BY <1>7 DEF At
  <2>4. Len(inbox) <= Len(wire) /\ \A k \in 1 .. Len(inbox) : inbox[k] = wire[At + k]
    BY <1>4 DEF Piped
  <2>5. At \in Nat /\ At <= Len(wire) /\ \A i \in 1 .. At : wire'[i] = wire[i]
    BY <1>4, <2>3, <2>4
  <2>6. Sent # <<>> => Len(inbox) = 0
    <3>1. Sent # <<>> => inbox = <<>>
      BY <1>1, <1>4 DEF Piped
    <3> QED BY <3>1
  <2>7. /\ At' = At /\ inbox' \in Seq(SSEs) /\ Len(inbox') <= Len(wire')
        /\ \A k \in 1 .. Len(inbox') : inbox'[k] = wire'[At + k]
    <3>1. CASE Sent = <<>>
      <4>1. Len(wire') = Len(wire) /\ inbox' = inbox
        BY <1>1, <2>2, <3>1
      <4>2. ASSUME NEW k \in 1 .. Len(inbox)
            PROVE  inbox[k] = wire'[At + k]
        <5>1. At + k \in 1 .. Len(wire)
          BY <1>4, <2>3, <2>5
        <5> QED BY <1>4, <2>4, <5>1
      <4> QED BY <1>4, <2>3, <2>4, <4>1, <4>2
    <3>2. CASE Sent # <<>>
      <4>1. inbox' = Sent /\ At = Len(wire)
        BY <1>1, <1>4, <2>3, <2>6, <3>2
      <4>2. Len(inbox') = Len(wire') - Len(wire) /\ inbox' \in Seq(SSEs)
        BY <2>2, <4>1
      <4>3. At' = At /\ Len(inbox') <= Len(wire')
        BY <1>4, <2>3, <4>1, <4>2
      <4>4. \A k \in 1 .. Len(inbox') : inbox'[k] = wire'[At + k]
        BY <2>2, <4>1
      <4> QED BY <4>2, <4>3, <4>4
    <3> QED BY <3>1, <3>2
  <2>8. wire # <<>> => wire' # <<>>
    <3>1. wire # <<>> => Len(wire) # 0
      BY <1>2
    <3>2. wire' = <<>> => Len(wire') = 0
      OBVIOUS
    <3> QED BY <1>4, <3>1, <3>2
  <2>9. Piped'
    <3>1. stage' # "running" => pc' = "done"
      BY <1>1, <1>2, <1>4 DEF Piped
    <3>2. /\ reader' = "work" => inbox' # <<>>
          /\ reader' \in {"reading", "finished"} => inbox' = <<>>
          /\ reader' = "finished" => stage' # "running"
          /\ reader' = "left" => left' \/ (wire' # <<>> /\ ~BufferedErr')
      BY <1>1, <1>4, <1>7, <2>8 DEF Piped
    <3> QED BY <1>7, <2>7, <3>1, <3>2 DEF Piped
  <2>10. reader' \in {"reading", "work", "finished", "left"}
    BY <1>1, <1>4 DEF TranslatorTyped
  <2>11. TranslatorTyped'
    BY <1>1, <1>4, <2>7, <2>10 DEF TranslatorTyped
  <2>12. \/ reader \in {"reading", "work"} /\ reader' \in {"reading", "work"}
         \/ reader' = reader
    <3>1. Sent = <<>> => reader' = reader
      BY <1>1
    <3>2. Sent # <<>> => reader = "reading" /\ reader' = "work"
      BY <1>1
    <3> QED BY <3>1, <3>2
  <2>13. (BufferedErr' <=> BufferedErr)
    BY <1>7
  <2>14. At' = At /\ At \in Nat /\ \A i \in 1 .. At : wire'[i] = wire[i]
    BY <2>5, <2>7
  <2> QED BY <1>2, <2>9, <2>11, <2>12, <2>13, <2>14
<1> QED BY <1>5, <1>6, <1>7

LEMMA PipelineStepKeeps ==
  ASSUME OpenAIInv, Pipeline
  PROVE  OpenAIInv'
<1>1. /\ Piped' /\ TranslatorTyped' /\ At' = At
      /\ At \in Nat /\ \A i \in 1 .. At : wire'[i] = wire[i]
      /\ StreamInv' /\ Blocks' /\ ~gone'
      /\ \/ reader \in {"reading", "work"} /\ reader' \in {"reading", "work"}
         \/ reader' = reader /\ reader = "left"
         \/ reader' = reader /\ (BufferedErr' <=> BufferedErr)
  BY PipeFills
<1>2. UNCHANGED <<stage, toolBlocks, finish, sentFinal, chunks, left>>
  BY DEF Pipeline, client
<1>3. Orderly(chunks)'
  <2>1. Orderly(chunks')
    BY <1>2 DEF OpenAIInv
  <2> QED BY <1>2, <2>1 DEF Orderly, ChunkFollows, HeadsOf
<1>4. PICK n : n = At
  OBVIOUS
<1>5. ASSUME Listening'
      PROVE  \E m \in Nat : m = At' /\ Read(m)'
  <2>1. reader' # "left" /\ Listening
    BY <1>1, <1>2, <1>5 DEF Listening
  <2>2. n \in Nat /\ Read(n)
    BY <1>4, <2>1 DEF OpenAIInv
  <2>3. Read(n)'
    BY <1>1, <1>2, <1>4, <2>1, <2>2, ReadStays
  <2> QED BY <1>1, <1>4, <2>2, <2>3
<1> QED BY <1>1, <1>3, <1>5 DEF OpenAIInv

LEMMA PipeStill ==
  ASSUME OpenAIInv, UNCHANGED <<vars, inbox>>
  PROVE  /\ StreamInv' /\ Blocks' /\ ~gone' /\ wire' = wire /\ pc' = pc
         /\ BufferedErr' <=> BufferedErr
         /\ At' = At
         /\ Len(inbox') <= Len(wire') /\ \A k \in 1 .. Len(inbox') : inbox'[k] = wire'[At' + k]
         /\ BufferedErr' => inbox' = <<>>
<1>1. /\ StreamInv' /\ Blocks' /\ ~gone' /\ wire' = wire /\ pc' = pc
      /\ BufferedErr' <=> BufferedErr
  BY StreamAlone DEF OpenAIInv
<1>2. At' = At
  BY <1>1 DEF At
<1> QED BY <1>1, <1>2 DEF OpenAIInv, Piped

LEMMA ClosePipeKeeps ==
  ASSUME OpenAIInv, ClosePipe
  PROVE  OpenAIInv'
<1>1. /\ stage = "running" /\ pc = "done" /\ stage' = "closed"
      /\ UNCHANGED <<vars, reader, inbox, toolBlocks, finish, sentFinal, chunks, left>>
  BY DEF ClosePipe, translator, client
<1>2. /\ StreamInv' /\ Blocks' /\ ~gone' /\ wire' = wire /\ pc' = pc /\ At' = At
      /\ BufferedErr' <=> BufferedErr
      /\ Len(inbox') <= Len(wire') /\ \A k \in 1 .. Len(inbox') : inbox'[k] = wire'[At' + k]
  BY <1>1, PipeStill
<1>3. reader # "finished"
  BY <1>1 DEF OpenAIInv, Piped
<1>4. Piped'
  BY <1>1, <1>2 DEF OpenAIInv, Piped
<1>5. TranslatorTyped' /\ Orderly(chunks')
  BY <1>1 DEF OpenAIInv, TranslatorTyped
<1>6. PICK n : n = At
  OBVIOUS
<1>7. ASSUME Listening'
      PROVE  \E m \in Nat : m = At' /\ Read(m)'
  <2>1. Listening /\ reader \in {"reading", "work"}
    BY <1>1, <1>3, <1>7 DEF Listening, OpenAIInv, TranslatorTyped
  <2>2. n \in Nat /\ Read(n)
    BY <1>6, <2>1 DEF OpenAIInv
  <2>3. Read(n)'
    BY <1>1, <1>2, <2>1, <2>2, ReadStays
  <2> QED BY <1>2, <1>6, <2>2, <2>3
<1> QED BY <1>2, <1>4, <1>5, <1>7 DEF OpenAIInv

(* The client or the translator is gone.                                   *)
LEMMA LeavingKeeps ==
  ASSUME OpenAIInv, Disconnected \/ LeaveOpenAI
  PROVE  OpenAIInv'
<1>1. /\ left' /\ (reader' = "left" \/ reader' = reader)
      /\ left' \in BOOLEAN
      /\ UNCHANGED <<vars, stage, inbox, toolBlocks, finish, sentFinal, chunks>>
  BY DEF Disconnected, LeaveOpenAI, translator, client, OpenAIInv, TranslatorTyped
<1>2. /\ StreamInv' /\ Blocks' /\ ~gone' /\ wire' = wire /\ pc' = pc /\ At' = At
      /\ BufferedErr' <=> BufferedErr
      /\ Len(inbox') <= Len(wire') /\ \A k \in 1 .. Len(inbox') : inbox'[k] = wire'[At' + k]
  BY <1>1, PipeStill
<1>3. Piped'
  BY <1>1, <1>2 DEF OpenAIInv, Piped
<1>4. TranslatorTyped' /\ Orderly(chunks')
  BY <1>1 DEF OpenAIInv, TranslatorTyped
<1>5. ~Listening'
  BY <1>1 DEF Listening
<1> QED BY <1>2, <1>3, <1>4, <1>5 DEF OpenAIInv

(* What comes behind the stream: [DONE] or an error body.                  *)
LEMMA ToldBehind ==
  ASSUME OpenAIInv, NEW n \in Nat, Read(n), NEW c \in ChunkSet, c.chunk \in {"done", "error"},
         chunks' = Append(chunks, c), UNCHANGED <<wire, toolBlocks, finish, sentFinal>>
  PROVE  Numbered(n)' /\ Texted(n)' /\ Finishing(n)'
<1>1. chunks \in Seq(ChunkSet)
  BY DEF OpenAIInv, TranslatorTyped
<1>2. c.chunk # "tool" /\ c.chunk # "content" /\ c.chunk # "finish"
  OBVIOUS
<1>3. /\ Len(chunks') = Len(chunks) + 1 /\ Len(chunks) \in Nat
      /\ \A i \in 1 .. Len(chunks) : chunks'[i] = chunks[i]
      /\ chunks'[Len(chunks) + 1] = c
  BY <1>1, Added
<1>4. Heads(Len(chunks))' = Heads(Len(chunks))
  <2>1. HeadsOf(Append(chunks, c), Len(chunks) + 1) = HeadsOf(chunks, Len(chunks))
    BY <1>1, <1>2, HeadsGrow
  <2> QED BY <1>3, <2>1 DEF Heads, HeadsOf
<1>5. Numbered(n)'
  <2>1. ToolsRead(n)' = ToolsRead(n)
    BY DEF ToolsRead, IsTool
  <2> QED BY <1>4, <2>1 DEF Read, Numbered, IsTool
<1>6. Texted(n)'
  <2>1. Has(chunks', "content") <=> Has(chunks, "content")
    BY <1>1, <1>2, HasMore
  <2> QED BY <2>1 DEF Read, Texted, Has, TextEvent
<1>7. Finishing(n)'
  <2>1. 1 .. Len(chunks') = (1 .. Len(chunks)) \cup {Len(chunks) + 1}
    BY <1>3, OneMore
  <2>2. Has(chunks', "finish") <=> Has(chunks, "finish")
    BY <1>1, <1>2, HasMore
  <2>3. \A i \in 1 .. Len(chunks') : chunks'[i].chunk = "finish" =>
          n > 0 /\ wire[n].event = "message_stop" /\ chunks'[i].what = finish
    BY <1>2, <1>3, <2>1 DEF Read, Finishing
  <2> QED BY <2>2, <2>3 DEF Read, Finishing, Has
<1> QED BY <1>5, <1>6, <1>7

LEMMA DoneChunks ==
  /\ Done \in ChunkSet /\ Done.chunk = "done"
  /\ ErrorBody \in ChunkSet /\ ErrorBody.chunk = "error"
BY DEF Done, ErrorBody, Chunk, ChunkSet

LEMMA WriteDoneKeeps ==
  ASSUME OpenAIInv, WriteDone
  PROVE  OpenAIInv'
<1>1. /\ stage = "closed" /\ reader = "reading" /\ reader' = "finished"
      /\ left => chunks' = chunks
      /\ ~left => chunks' = chunks \o <<Done>>
      /\ UNCHANGED <<vars, stage, inbox, toolBlocks, finish, sentFinal, left>>
  BY DEF WriteDone, Write200
<1>2. /\ StreamInv' /\ Blocks' /\ ~gone' /\ wire' = wire /\ pc' = pc /\ At' = At
      /\ BufferedErr' <=> BufferedErr
      /\ Len(inbox') <= Len(wire') /\ \A k \in 1 .. Len(inbox') : inbox'[k] = wire'[At' + k]
  BY <1>1, PipeStill
<1>3. inbox = <<>> /\ pc = "done" /\ chunks \in Seq(ChunkSet) /\ wire \in Seq(SSEs)
  BY <1>1 DEF OpenAIInv, Piped, TranslatorTyped, StreamInv, StreamTyped, OutTyped
<1>4. Piped'
  BY <1>1, <1>2, <1>3 DEF OpenAIInv, Piped
<1>5. CASE left
  <2>1. TranslatorTyped' /\ Orderly(chunks') /\ ~Listening'
    BY <1>1, <1>5 DEF OpenAIInv, TranslatorTyped, Listening
  <2> QED BY <1>2, <1>4, <2>1 DEF OpenAIInv
<1>6. CASE ~left
  <2>1. PICK n \in Nat : n = At /\ Read(n)
    BY <1>1, <1>6 DEF OpenAIInv, Listening
  <2>2. chunks' = Append(chunks, Done)
    <3>1. chunks \o <<Done>> = Append(chunks, Done)
      BY <1>3, DoneChunks, Joined
    <3> QED BY <1>1, <1>6, <3>1
  <2>3. n > 0 => wire[n].event = "message_stop"
    <3>1. ASSUME n > 0
          PROVE  ~BufferedErr /\ n = Len(wire)
      <4>1. ~BufferedErr
        BY <2>1, <3>1 DEF At
      <4>2. Len(inbox) = 0 /\ Len(wire) \in Nat
        BY <1>3, LengthOf
      <4> QED BY <2>1, <4>1, <4>2 DEF At
    <3>2. ASSUME n > 0
          PROVE  wire[n].event \in {"message_stop", "error"}
      <4>1. wire # <<>>
        <5>1. wire = <<>> => Len(wire) = 0
          OBVIOUS
        <5> QED BY <3>1, <3>2, <5>1
      <4>2. EndOf(wire).event \in {"message_stop", "error"}
        BY <1>3, <3>1, <3>2, <4>1, InThePipe DEF OpenAIInv, BufferedErr
      <4> QED BY <3>1, <3>2, <4>2 DEF EndOf
    <3>3. n > 0 => wire[n].event # "error"
      BY <2>1 DEF Read, Position
    <3> QED BY <3>2, <3>3
  <2>4. IF n = 0 THEN chunks = <<>> ELSE chunks # <<>> /\ EndOf(chunks).chunk = "finish"
    <3>1. Position(n)
      BY <2>1 DEF Read
    <3>2. n # 0 => n > 0
      BY <2>1
    <3> QED BY <1>1, <2>3, <3>1, <3>2 DEF Position
  <2>5. Orderly(chunks') /\ chunks' \in Seq(ChunkSet)
    <3>1. chunks # <<>> => ChunkFollows(EndOf(chunks), Done)
      BY <2>4, DoneChunks DEF ChunkFollows
    <3>2. Orderly(chunks) /\ Done.chunk # "tool"
      BY DoneChunks DEF OpenAIInv
    <3> QED BY <1>3, <2>2, <3>1, <3>2, DoneChunks, OrderGoesOn
  <2>6. Numbered(n)' /\ Texted(n)' /\ Finishing(n)'
    BY <1>1, <1>2, <2>1, <2>2, DoneChunks, ToldBehind
  <2>7. Position(n)'
    <3>1. n = 0 => chunks' = <<Done>>
      BY <2>2, <2>4
    <3>2. n > 0 => wire'[n].event = "message_stop"
      BY <1>2, <2>3
    <3>3. n # 0 => n > 0
      BY <2>1
    <3> QED BY <1>1, <3>1, <3>2, <3>3 DEF Position
  <2>8. TranslatorTyped'
    BY <1>1, <2>5 DEF OpenAIInv, TranslatorTyped
  <2>9. \E m \in Nat : m = At' /\ Read(m)'
    BY <1>2, <2>1, <2>6, <2>7 DEF Read
  <2> QED BY <1>2, <1>4, <2>5, <2>8, <2>9 DEF OpenAIInv
<1> QED BY <1>5, <1>6

LEMMA RelayErrorKeeps ==
  ASSUME OpenAIInv, RelayError
  PROVE  OpenAIInv'
<1>1. /\ stage = "closed" /\ reader \in {"finished", "left"} /\ stage' = "returned"
      /\ BufferedErr /\ ~left => chunks' = Append(chunks, ErrorBody)
      /\ ~(BufferedErr /\ ~left) => chunks' = chunks
      /\ UNCHANGED <<vars, reader, inbox, toolBlocks, finish, sentFinal, left>>
  BY DEF RelayError, translator
<1>2. /\ StreamInv' /\ Blocks' /\ ~gone' /\ wire' = wire /\ pc' = pc /\ At' = At
      /\ BufferedErr' <=> BufferedErr
      /\ Len(inbox') <= Len(wire') /\ \A k \in 1 .. Len(inbox') : inbox'[k] = wire'[At' + k]
  BY <1>1, PipeStill
<1>3. Piped'
  BY <1>1, <1>2 DEF OpenAIInv, Piped
<1>4. CASE BufferedErr /\ ~left
  <2>1. reader = "finished" /\ Listening
    BY <1>1, <1>4 DEF OpenAIInv, Piped, Listening
  <2>2. PICK n \in Nat : n = At /\ Read(n)
    BY <2>1 DEF OpenAIInv
  <2>3. n = 0 /\ chunks = <<Done>>
    <3>1. n = 0
      BY <1>4, <2>2 DEF At
    <3> QED BY <1>1, <2>1, <2>2, <3>1 DEF Read, Position
  <2>4. chunks' = Append(chunks, ErrorBody) /\ chunks \in Seq(ChunkSet)
    BY <1>1, <1>4 DEF OpenAIInv, TranslatorTyped
  <2>5. Orderly(chunks') /\ chunks' \in Seq(ChunkSet)
    <3>1. chunks # <<>> /\ EndOf(chunks) = Done
      BY <2>3 DEF EndOf
    <3>2. ChunkFollows(EndOf(chunks), ErrorBody)
      BY <3>1, DoneChunks DEF ChunkFollows
    <3>3. Orderly(chunks) /\ ErrorBody.chunk # "tool"
      BY DoneChunks DEF OpenAIInv
    <3> QED BY <2>4, <3>1, <3>2, <3>3, DoneChunks, OrderGoesOn
  <2>6. Numbered(n)' /\ Texted(n)' /\ Finishing(n)'
    BY <1>1, <1>2, <2>2, <2>4, DoneChunks, ToldBehind
  <2>7. Position(n)'
    BY <1>1, <1>2, <1>4, <2>1, <2>3 DEF Position
  <2>8. TranslatorTyped'
    BY <1>1, <2>5 DEF OpenAIInv, TranslatorTyped
  <2>9. \E m \in Nat : m = At' /\ Read(m)'
    BY <1>2, <2>2, <2>6, <2>7 DEF Read
  <2> QED BY <1>2, <1>3, <2>5, <2>8, <2>9 DEF OpenAIInv
<1>5. CASE ~(BufferedErr /\ ~left)
  <2>1. TranslatorTyped' /\ Orderly(chunks')
    BY <1>1, <1>5 DEF OpenAIInv, TranslatorTyped
  <2>2. PICK n : n = At
    OBVIOUS
  <2>3. ASSUME Listening'
        PROVE  \E m \in Nat : m = At' /\ Read(m)'
    <3>1. Listening
      BY <1>1, <2>3 DEF Listening
    <3>2. n \in Nat /\ Read(n)
      BY <2>2, <3>1 DEF OpenAIInv
    <3>3. stage' = "closed" => stage = "closed"
      BY <1>1
    <3>4. Read(n)'
      BY <1>1, <1>2, <1>5, <3>2, <3>3, ReadStays
    <3> QED BY <1>2, <2>2, <3>2, <3>4
  <2> QED BY <1>2, <1>3, <2>1, <2>3 DEF OpenAIInv
<1> QED BY <1>4, <1>5

LEMMA NothingHappens ==
  ASSUME OpenAIInv, UNCHANGED openAIVars
  PROVE  OpenAIInv'
<1>1. UNCHANGED <<vars, stage, reader, inbox, toolBlocks, finish, sentFinal, chunks, left>>
  BY DEF openAIVars, translator, client
<1>2. /\ StreamInv' /\ Blocks' /\ ~gone' /\ wire' = wire /\ pc' = pc /\ At' = At
      /\ BufferedErr' <=> BufferedErr
      /\ Len(inbox') <= Len(wire') /\ \A k \in 1 .. Len(inbox') : inbox'[k] = wire'[At' + k]
  BY <1>1, PipeStill
<1>3. Piped'
  BY <1>1, <1>2 DEF OpenAIInv, Piped
<1>4. TranslatorTyped' /\ Orderly(chunks')
  BY <1>1 DEF OpenAIInv, TranslatorTyped
<1>5. PICK n : n = At
  OBVIOUS
<1>6. ASSUME Listening'
      PROVE  \E m \in Nat : m = At' /\ Read(m)'
  <2>1. Listening
    BY <1>1, <1>6 DEF Listening
  <2>2. n \in Nat /\ Read(n)
    BY <1>5, <2>1 DEF OpenAIInv
  <2>3. Read(n)'
    BY <1>1, <1>2, <2>2, ReadStays
  <2> QED BY <1>2, <1>5, <2>2, <2>3
<1> QED BY <1>2, <1>3, <1>4, <1>6 DEF OpenAIInv

LEMMA OpenAIStarts == OpenAIInit => OpenAIInv
<1> SUFFICES ASSUME OpenAIInit
             PROVE  OpenAIInv
  OBVIOUS
<1>1. /\ Init /\ stage = "running" /\ reader = "reading" /\ inbox = <<>>
      /\ toolBlocks = <<>> /\ finish = "" /\ sentFinal = FALSE /\ chunks = <<>> /\ left = FALSE
      /\ wire = <<>> /\ buf = <<>> /\ calls = <<>> /\ gone = FALSE /\ gate = "buffering"
  BY DEF OpenAIInit, Init
<1>2. StreamInv
  BY <1>1, Started
<1>3. /\ wire = <<>> /\ inbox = <<>> /\ toolBlocks = <<>> /\ chunks = <<>>
      /\ Len(wire) = 0 /\ Len(inbox) = 0 /\ Len(toolBlocks) = 0 /\ Len(chunks) = 0
  <2>1. Len(<<>>) = 0
    OBVIOUS
  <2> QED BY <1>1, <2>1
<1>4. Blocks
  <2>1. Stream = <<>> /\ calls = <<>>
    BY <1>1 DEF Stream
  <2> QED BY <2>1, NothingWhole DEF Blocks
<1>5. TranslatorTyped
  <2>1. inbox \in Seq(SSEs) /\ toolBlocks \in Seq(Nat) /\ chunks \in Seq(ChunkSet)
    BY <1>3
  <2> QED BY <1>1, <2>1 DEF TranslatorTyped
<1>6. ~BufferedErr /\ At = 0
  <2>1. <<>> # <<JSON>>
    OBVIOUS
  <2>2. ~BufferedErr
    BY <1>3, <2>1 DEF BufferedErr
  <2> QED BY <1>3, <2>2 DEF At
<1>7. Piped
  <2>1. Len(inbox) <= Len(wire) /\ \A k \in 1 .. Len(inbox) : inbox[k] = wire[At + k]
    BY <1>3
  <2> QED BY <1>1, <1>3, <1>6, <2>1 DEF Piped
<1>8. Orderly(chunks)
  <2>1. HeadsOf(chunks, Len(chunks)) = {} /\ 1 .. Len(chunks) - 1 = {}
    BY <1>3 DEF HeadsOf
  <2> QED BY <1>3, <2>1 DEF Orderly
<1>9. Read(0)
  <2>1. ToolsRead(0) = {} /\ Heads(Len(chunks)) = {} /\ ~(0 > 0)
        /\ 1 .. 0 = {} /\ 1 .. Len(chunks) = {} /\ 1 .. Len(toolBlocks) = {}
    BY <1>3 DEF ToolsRead, Heads
  <2>2. Cardinality({}) = 0
    BY FS_EmptySet
  <2>3. Numbered(0)
    BY <1>3, <2>1, <2>2 DEF Numbered
  <2>4. Texted(0)
    BY <2>1 DEF Texted
  <2>5. Finishing(0)
    BY <1>1, <2>1 DEF Finishing
  <2>6. Position(0)
    BY <1>1, <1>3, <2>1 DEF Position
  <2> QED BY <2>3, <2>4, <2>5, <2>6 DEF Read
<1> QED BY <1>1, <1>2, <1>4, <1>5, <1>6, <1>7, <1>8, <1>9 DEF OpenAIInv

-----------------------------------------------------------------------------
(* The theorems of the OpenAI route *)

(* The translator's place in the pipe holds of every reachable state.      *)
THEOREM OpenAIInvariant == OpenAISpec => []OpenAIInv
<1>1. OpenAIInit => OpenAIInv
  BY OpenAIStarts
<1>2. OpenAIInv /\ [OpenAINext]_openAIVars => OpenAIInv'
  BY PipelineStepKeeps, HandleFrameKeeps, LeavingKeeps, WriteDoneKeeps, ClosePipeKeeps,
     RelayErrorKeeps, NothingHappens DEF OpenAINext, Translator, Chat
<1> QED BY <1>1, <1>2, PTL DEF OpenAISpec

(* At every moment the client of the OpenAI route has the beginning of a   *)
(* well-formed stream of chunks, whose tool calls are numbered from 0 up   *)
(* (translate_stream.go).                                                  *)
THEOREM ChunksAreWellFormed == OpenAISpec => []ChunksWellFormed
<1>1. OpenAIInv => ChunksWellFormed
  <2>1. Heads(Len(chunks)) = HeadsOf(chunks, Len(chunks))
    BY DEF Heads, HeadsOf
  <2>2. \A i : Heads(i - 1) = HeadsOf(chunks, i - 1)
    BY DEF Heads, HeadsOf
  <2> QED BY <2>1, <2>2 DEF OpenAIInv, Orderly, ChunksWellFormed
<1> QED BY <1>1, OpenAIInvariant, PTL

(* The text of an answer is never left unfilled.                           *)
LEMMA TextIsFilled ==
  ASSUME NEW s \in Seq(SSEs), Answering(s), s # <<>>, EndOf(s).event = "message_stop",
         NEW i \in 1 .. Len(s), TextEvent(s[i], "content_block_start")
  PROVE  \E j \in 1 .. Len(s) : TextEvent(s[j], "content_block_delta")
<1>1. s[i].event = "content_block_start" /\ s[i].what = "text"
  BY DEF TextEvent
<1>2. i # Len(s)
  BY <1>1 DEF EndOf
<1>3. i \in 1 .. Len(s) - 1 /\ i + 1 \in 1 .. Len(s)
  <2>1. Len(s) \in Nat
    BY LengthOf
  <2> QED BY <1>2, <2>1
<1>4. Follows(s[i], s[i + 1]) /\ Filled(s[i], s[i + 1])
  BY <1>3 DEF Answering, WellFormed, Whole
<1>5. TextEvent(s[i + 1], "content_block_delta")
  BY <1>1, <1>4 DEF Follows, Filled, TextEvent
<1> QED BY <1>3, <1>5

(* A client that read to the end of a stream knows of the answer's text,   *)
(* its tool calls and its end what it would without streaming.             *)
THEOREM ConversionsAgree == OpenAISpec => []StreamAgrees
<1>1. ASSUME OpenAIInv, reader = "finished", ~left, Len(chunks) > 1, wire # <<JSON>>
      PROVE  ConvertAssistantContent(wire)
             = [text |-> \E i \in DOMAIN chunks : chunks[i].chunk = "content",
                toolCalls |-> Cardinality(Heads(Len(chunks))),
                finish |-> chunks[CHOOSE i \in DOMAIN chunks : chunks[i].chunk = "finish"].what]
  <2>1. /\ wire \in Seq(SSEs) /\ chunks \in Seq(ChunkSet) /\ toolBlocks \in Seq(Nat)
        /\ DOMAIN wire = 1 .. Len(wire) /\ DOMAIN chunks = 1 .. Len(chunks) /\ Len(wire) \in Nat
    <3>1. wire \in Seq(SSEs) /\ chunks \in Seq(ChunkSet) /\ toolBlocks \in Seq(Nat)
      BY <1>1 DEF OpenAIInv, TranslatorTyped, StreamInv, StreamTyped, OutTyped
    <3> QED BY <3>1
  <2>2. PICK n \in Nat : n = At /\ Read(n)
    BY <1>1 DEF OpenAIInv, Listening
  <2>3. n = Len(wire)
    <3>1. inbox = <<>> /\ ~BufferedErr
      BY <1>1 DEF OpenAIInv, Piped, BufferedErr
    <3>2. Len(inbox) = 0
      BY <3>1
    <3> QED BY <2>1, <2>2, <3>1, <3>2 DEF At
  <2>4. n > 0 /\ wire[n].event = "message_stop"
    <3>1. n # 0
      <4>1. n = 0 => chunks = <<Done>>
        BY <1>1, <2>2 DEF Read, Position, BufferedErr
      <4>2. Len(<<Done>>) = 1
        OBVIOUS
      <4>3. n = 0 => Len(chunks) = 1
        BY <4>1, <4>2
      <4>4. Len(chunks) # 1
        <5>1. Len(chunks) \in Nat /\ Len(chunks) > 1
          BY <1>1, <2>1, LengthOf
        <5>2. ASSUME NEW k \in Nat, k > 1
              PROVE  k # 1
          BY <5>2
        <5> QED BY <5>1, <5>2
      <4> QED BY <4>3, <4>4
    <3>2. n # 0 => wire[n].event = "message_stop"
      BY <1>1, <2>2 DEF Read, Position
    <3> QED BY <2>2, <3>1, <3>2
  <2>5. wire # <<>> /\ Answering(wire) /\ EndOf(wire).event = "message_stop"
    <3>1. wire = <<>> => Len(wire) = 0
      OBVIOUS
    <3> QED BY <1>1, <2>3, <2>4, <3>1, InThePipe DEF OpenAIInv, EndOf
  <2> DEFINE blocks == {i \in DOMAIN wire : wire[i].event = "content_block_start"}
             tools == {i \in blocks : wire[i].what = "tool_use"}
  <2>6. tools = ToolsRead(n)
    BY <2>1, <2>3 DEF ToolsRead, IsTool
  <2>7. (\E i \in blocks : wire[i].what = "text")
          <=> \E i \in DOMAIN chunks : chunks[i].chunk = "content"
    <3>1. (\E i \in blocks : wire[i].what = "text")
            <=> \E i \in 1 .. n : TextEvent(wire[i], "content_block_start")
      BY <2>1, <2>3 DEF TextEvent
    <3>2. (\E i \in 1 .. n : TextEvent(wire[i], "content_block_start"))
            => \E i \in 1 .. n : TextEvent(wire[i], "content_block_delta")
      BY <2>1, <2>3, <2>5, TextIsFilled
    <3> QED BY <2>1, <2>2, <3>1, <3>2 DEF Read, Texted
  <2>8. Cardinality(tools) = Cardinality(Heads(Len(chunks))) /\ Cardinality(tools) = Len(toolBlocks)
    BY <2>2, <2>6 DEF Read, Numbered
  <2>9. tools # {} <=> toolBlocks # <<>>
    <3>1. IsFiniteSet(tools)
      <4>1. IsFiniteSet(1 .. n) /\ tools \subseteq 1 .. n
        BY <2>1, <2>2, <2>3, FS_Interval
      <4> HIDE DEF tools
      <4> QED BY <4>1, FS_Subset
    <3>2. Cardinality(tools) = 0 <=> tools = {}
      BY <3>1, FS_EmptySet
    <3>3. Len(toolBlocks) = 0 <=> toolBlocks = <<>>
      BY <2>1
    <3> QED BY <2>8, <3>2, <3>3
  <2>10. Reason(wire) = wire[CHOOSE i \in DOMAIN wire : wire[i].event = "message_delta"].what
    BY DEF Reason
  <2>11. finish = MapFinishReason(Reason(wire), toolBlocks # <<>>)
    <3>1. \E i \in DOMAIN wire : wire[i].event = "message_delta"
      BY <2>1, <2>2, <2>3, <2>4 DEF Read, Finishing
    <3>2. PICK k \in DOMAIN wire : /\ k = CHOOSE i \in DOMAIN wire : wire[i].event = "message_delta"
                                   /\ wire[k].event = "message_delta"
      BY <3>1
    <3>3. finish = MapFinishReason(wire[k].what, toolBlocks # <<>>)
      BY <2>1, <2>2, <2>3, <3>2 DEF Read, Finishing
    <3> QED BY <2>10, <3>2, <3>3
  <2>12. finish = MapFinishReason(Reason(wire), tools # {})
    <3> HIDE DEF tools
    <3> QED BY <2>9, <2>11 DEF MapFinishReason
  <2>13. chunks[CHOOSE i \in DOMAIN chunks : chunks[i].chunk = "finish"].what = finish
    <3>1. \E i \in DOMAIN chunks : chunks[i].chunk = "finish"
      BY <2>1, <2>2, <2>4 DEF Read, Finishing
    <3>2. \A i \in DOMAIN chunks : chunks[i].chunk = "finish" => chunks[i].what = finish
      BY <2>1, <2>2 DEF Read, Finishing
    <3> QED BY <3>1, <3>2
  <2>14. ConvertAssistantContent(wire)
         = [text |-> \E i \in blocks : wire[i].what = "text",
            toolCalls |-> Cardinality(tools),
            finish |-> MapFinishReason(Reason(wire), tools # {})]
    BY DEF ConvertAssistantContent
  <2> HIDE DEF tools, blocks
  <2>15. (\E i \in blocks : wire[i].what = "text") = (\E i \in DOMAIN chunks : chunks[i].chunk = "content")
    BY <2>7
  <2> QED BY <2>8, <2>12, <2>13, <2>14, <2>15
<1>2. OpenAIInv => StreamAgrees
  BY <1>1 DEF StreamAgrees
<1> QED BY <1>2, OpenAIInvariant, PTL

=============================================================================
