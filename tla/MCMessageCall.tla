---------------------------- MODULE MCMessageCall ----------------------------
(* MessageCall for TLC. *)
EXTENDS MessageCall

CONSTANTS a1, a2,  \* accounts
          r1       \* the request

MCSessionOf == [r \in Requests |-> None]

Err(status, exception, reason) ==
  [status |-> status, exception |-> exception, reason |-> reason,
   banned |-> FALSE, busy |-> FALSE]

(* A ban, a shortage, the month's quota, a broken account whose token is    *)
(* rejected, an unknown model, a bad request and a wait that is over.       *)
MCErrors ==
  {[Err(429, "Throttling", "none") EXCEPT !.banned = TRUE, !.busy = TRUE],
   Err(429, "Throttling", "capacity"),
   Err(402, "ServiceQuota", "none"), Err(401, "Contract", "none"),
   Err(400, "Validation", "model"), Err(400, "Validation", "none"), Cancelled,
   DeadlineExceeded}
=============================================================================
