---------------------------- MODULE UpstreamCall ----------------------------
(***************************************************************************)
(* One call of HTTPClient.GenerateAssistantResponse: up to MaxRetries + 1  *)
(* requests to each endpoint, and the next endpoint when one has run out   *)
(* of quota.                                                               *)
(***************************************************************************)
EXTENDS UpstreamErrors, Sequences

CONSTANTS
  Errors,     \* the errors upstream answers with
  MaxRetries,
  Endpoints   \* the number of endpoints; 1 with the legacy headers

VARIABLES
  endpoint, attempt,
  renewed,  \* the token is not the one the call began with
  phase,    \* "running", or how the call ended; "failed" with its last error
  seen      \* history: the endpoint, the token and the error of each request

callVars == <<endpoint, attempt, renewed, phase, seen>>

CallInit ==
  endpoint = 1 /\ attempt = 0 /\ renewed = FALSE /\ phase = "running" /\ seen = <<>>

Running == phase = "running"

(* Which errors callOneEndpoint answers with another request, apart from   *)
(* the rejected tokens.                                                    *)
TriesAgain(e) ==
  \/ e.status = 0
  \/ e.status \in {429, 500, 502} /\ ~IsBan(e)
  \/ e.status \in {200, 400, 402} /\ IsRetryable(e)

Logged(e) ==
  seen' = Append(seen, [endpoint |-> endpoint, renewed |-> renewed, error |-> e])

Respond ==
  /\ Running
  /\ phase' = "responded"
  /\ UNCHANGED <<endpoint, attempt, renewed, seen>>

Retry(e) ==
  /\ Running /\ attempt < MaxRetries /\ TriesAgain(e)
  /\ attempt' = attempt + 1
  /\ Logged(e)
  /\ UNCHANGED <<endpoint, renewed, phase>>

(* The client's context is done while it waits to try again. *)
CancelRetry(e) ==
  /\ Running /\ attempt < MaxRetries /\ TriesAgain(e)
  /\ phase' = "cancelled"
  /\ Logged(e)
  /\ UNCHANGED <<endpoint, attempt, renewed>>

(* The token refresher has another token. *)
Renew(e) ==
  /\ Running /\ attempt < MaxRetries /\ e.status = 401
  /\ attempt' = attempt + 1
  /\ renewed' = TRUE
  /\ Logged(e)
  /\ UNCHANGED <<endpoint, phase>>

(* Done with this endpoint: no attempt is left, or there is no use in one, *)
(* or there is no token for it.                                            *)
Ends(e) == attempt = MaxRetries \/ ~TriesAgain(e)

FailOver(e) ==
  /\ Running /\ Ends(e) /\ IsQuotaExhausted(e) /\ endpoint < Endpoints
  /\ endpoint' = endpoint + 1
  /\ attempt' = 0
  /\ renewed' = FALSE
  /\ Logged(e)
  /\ UNCHANGED phase

(* Faulty: does not look for another endpoint. *)
GiveUpEarly(e) ==
  /\ Running /\ Ends(e)
  /\ phase' = "failed"
  /\ Logged(e)
  /\ UNCHANGED <<endpoint, attempt, renewed>>

GiveUp(e) ==
  /\ Running /\ Ends(e)
  /\ ~IsQuotaExhausted(e) \/ endpoint = Endpoints
  /\ phase' = "failed"
  /\ Logged(e)
  /\ UNCHANGED <<endpoint, attempt, renewed>>

Exchange ==
  \/ Respond
  \/ \E e \in Errors : Retry(e) \/ CancelRetry(e) \/ Renew(e) \/ FailOver(e) \/ GiveUp(e)

CallSpec == CallInit /\ [][Exchange]_callVars

-----------------------------------------------------------------------------
(* Properties *)

(* When a call fails because a quota has run out, it has run out at every  *)
(* endpoint.                                                               *)
QuotaGoneEverywhere ==
  phase = "failed" /\ IsQuotaExhausted(seen[Len(seen)].error) =>
    \A i \in 1 .. Endpoints :
      \E j \in DOMAIN seen : seen[j].endpoint = i /\ IsQuotaExhausted(seen[j].error)

=============================================================================
