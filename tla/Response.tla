------------------------------ MODULE Response ------------------------------
(***************************************************************************)
(* A request to /v1/messages once it has credentials: callAndHandle        *)
(* streams the answer (SSEStream) or collects it (NonStreaming), as the    *)
(* client has asked.                                                       *)
(***************************************************************************)
EXTENDS SSEStream, NonStreaming

VARIABLE stream  \* inv.req.Stream

responseVars == <<vars, stream, collectVars>>

(* What the client asks of the model is abstracted in a stream. *)
ResponseInit ==
  /\ Init /\ CollectInit
  /\ stream \in BOOLEAN
  /\ stream => request = CHOOSE q \in ModelRequests : TRUE

(* handleStreamingResponse and its keepalives, and the client. *)
Streaming == stream /\ Next /\ UNCHANGED <<stream, collectVars>>

HandlesStream == stream /\ Handle /\ UNCHANGED <<stream, collectVars>>
KeepsAlive(a) == stream /\ Keepalive(a) /\ UNCHANGED <<stream, collectVars>>

(* handleNonStreamingResponse *)
Collecting == ~stream /\ CollectNext /\ UNCHANGED <<stream, vars>>
CollectingEnds == ~stream /\ CollectEnds /\ UNCHANGED <<stream, vars>>

ResponseNext == Streaming \/ Collecting

(* While the handler or a keepalive can go on, one of them does: the       *)
(* upstream's silence is ended by the idle reader's timeout, its talk by   *)
(* its end.  That each of them is not starved by another is not assumed.   *)
GoesOn == HandlesStream \/ CollectingEnds \/ \E a \in Attempts : KeepsAlive(a)

ResponseSpec == ResponseInit /\ [][ResponseNext]_responseVars /\ WF_responseVars(GoesOn)

-----------------------------------------------------------------------------
(* The request ends in either way, and with it every keepalive goroutine,  *)
(* the abandoned attempt's too.                                            *)
RequestEnds ==
  <>[](IF stream
       THEN pc = "done" /\ \A a \in Attempts : keepalive[a] \in {"stopped", "unborn"}
       ELSE stage = "done")

=============================================================================
