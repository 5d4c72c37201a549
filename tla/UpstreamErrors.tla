--------------------------- MODULE UpstreamErrors ---------------------------
(***************************************************************************)
(* How kiroxy classifies an upstream error: the predicates that decide     *)
(* whether the client tries again or goes to the next endpoint             *)
(* (internal/kiroclient) and whether the handler rotates to another        *)
(* account and what it records for this one (messages/execute.go).         *)
(*                                                                         *)
(* An error is a record of what they look at.  One status or exception     *)
(* stands for those no predicate tells apart: 401 for 401 and 403, 502 for *)
(* 502, 503 and 504, "Server" for the retryable exceptions that are no      *)
(* throttling, "Contract" for the structural ones.                         *)
(* Status 0 is an error of the transport, with the exception "Transport"   *)
(* if classifyTransportError knows it.                                     *)
(***************************************************************************)
EXTENDS Naturals

Statuses == {0, 200, 400, 401, 402, 429, 500, 502}

Exceptions == {"None", "Throttling", "TooManyRequests", "ServiceQuota", "Server",
               "Validation", "Contract", "Transport"}

Throttles(e) == e.exception \in {"Throttling", "TooManyRequests"}

Reasons == {"none", "capacity", "model"}

UpstreamErrors ==
  [status : Statuses, exception : Exceptions, reason : Reasons,
   banned : BOOLEAN,  \* the body says "suspicious activity"
   busy : BOOLEAN]    \* the body says "experiencing high traffic"

(* IsSuspiciousActivityError *)
IsBan(e) == e.banned

(* IsRetryableAWSException *)
IsRetryable(e) == Throttles(e) \/ e.exception = "Server"

(* isQuotaExhausted: worth another endpoint. *)
IsQuotaExhausted(e) == ~IsBan(e) /\ (e.status = 429 \/ Throttles(e))

(* isCapacityShortage: not the account's fault.  Without the reason the     *)
(* text tells, of a ThrottlingException only.                              *)
IsCapacityShortage(e) ==
  /\ ~IsBan(e)
  /\ e.reason = "capacity" \/ (e.exception = "Throttling" /\ e.busy)

(* isQuotaFailure: cools the account down at once. *)
IsQuotaFailure(e) ==
  /\ ~IsCapacityShortage(e)
  /\ Throttles(e) \/ e.exception = "ServiceQuota" \/ e.status \in {429, 402}

(* Faulty: takes the client's mistakes for the account's. *)
IsStructuralOrInvalid(e) == e.exception \in {"Contract", "Validation"}

(* isStructuralError *)
IsStructural(e) == e.status # 0 /\ e.exception = "Contract"

(* isRotatableUpstreamError: worth another account. *)
IsRotatable(e) ==
  \/ IsRetryable(e)
  \/ e.status \in {401, 402, 502}
  \/ e.exception \in {"ServiceQuota", "Transport"}
  \/ e.exception = "Validation" /\ e.reason = "model"
=============================================================================
