----------------------------- MODULE MessageCall -----------------------------
(***************************************************************************)
(* A request's rotation (Rotation) with the upstream calls it makes        *)
(* (UpstreamCall): a call begins with each of the rotation's calls, its    *)
(* token refresher is the pool's GetToken (main.go), and what it ends with *)
(* is what the rotation goes on with.                                      *)
(***************************************************************************)
EXTENDS Rotation

CONSTANTS
  TheRequest,   \* the one request
  MaxRetries,
  Endpoints

VARIABLES endpoint, attempt, renewed, phase, seen

C == INSTANCE UpstreamCall

(* ctx.Err() of a wait: the client has gone away, or the handler's deadline *)
(* (Service.requestTimeout) has passed, which classifyTransportError takes *)
(* for a timeout of the transport.                                         *)
Cancelled ==
  [status |-> 0, exception |-> "None", reason |-> "none", banned |-> FALSE, busy |-> FALSE]
DeadlineExceeded == [Cancelled EXCEPT !.exception = "Transport"]

ASSUME MessageCallAssumption ==
  /\ Requests = {TheRequest} /\ MaxRetries \in Nat /\ Endpoints \in Nat \ {0}
  /\ {Cancelled, DeadlineExceeded} \subseteq Errors

callVars == <<endpoint, attempt, renewed, phase, seen>>
messageVars == <<rotationVars, callVars>>

MessageInit == RotationInit /\ C!CallInit

Calling == stage[TheRequest] = "calling"

(* The next call begins anew.                                              *)
NewCall ==
  endpoint' = 1 /\ attempt' = 0 /\ renewed' = FALSE /\ phase' = "running" /\ seen' = <<>>

(* The rotation between its calls.                                         *)
Rotates ==
  /\ ~Calling
  /\ Advance(TheRequest)
  /\ UNCHANGED callVars

(* A request to upstream, which answers it.                                *)
Exchanges ==
  /\ Calling
  /\ \/ C!Respond
     \/ \E e \in Errors : C!Retry(e) \/ C!CancelRetry(e) \/ C!FailOver(e) \/ C!GiveUp(e)
  /\ UNCHANGED rotationVars

(* A rejected token; the refresher asks the pool again, and its token may  *)
(* be another account's.                                                   *)
Renews ==
  /\ Calling
  /\ \E e \in Errors : C!Renew(e)
  /\ Reauthorize(TheRequest)

LastErrors ==
  IF phase = "cancelled" THEN {Cancelled, DeadlineExceeded} ELSE {seen[Len(seen)].error}

(* The call returns an error, *)
Fails ==
  /\ phase \in {"failed", "cancelled"}
  /\ \E e \in LastErrors : CallFails(TheRequest, e)
  /\ NewCall

(* or a response.                                                          *)
Succeeds ==
  /\ phase = "responded"
  /\ Respond(TheRequest) \/ RetryCall(TheRequest)
  /\ NewCall

Proceeds == Rotates \/ Exchanges \/ Renews \/ Fails \/ Succeeds

MessageNext == Proceeds \/ (Tick /\ UNCHANGED <<local, callVars>>)

MessageSpec == MessageInit /\ [][MessageNext]_messageVars

(* The handler runs on: its transport has timeouts.                        *)
FairMessageSpec == MessageSpec /\ WF_messageVars(Proceeds)

-----------------------------------------------------------------------------
(* The properties of the call, as it is made here.                         *)

(* When a call fails because a quota has run out, it has run out at every  *)
(* endpoint.                                                               *)
QuotaGoneEverywhere == C!QuotaGoneEverywhere

=============================================================================
