---------------------------- MODULE NonStreaming ----------------------------
(***************************************************************************)
(* One request without streaming: handleNonStreamingResponse collects the  *)
(* whole of upstream's answer in the accumulator before it writes a byte,  *)
(* within executeWithRetry's two attempts.                                 *)
(***************************************************************************)
EXTENDS Accumulator

VARIABLES
  stage,  \* "calling", "reading", "deciding" or "done"
  try,    \* executeWithRetry's attempt
  answer  \* "none", the "message", or an "error"

collectVars == <<accVars, stage, try, answer>>

CollectInit ==
  /\ AccInit
  /\ stage = "calling" /\ try = 1 /\ answer = "none"

Respond(what) == stage' = "done" /\ answer' = what /\ UNCHANGED try

(* A new accumulator, or none: what the last one had is gone. *)
Forget ==
  /\ lastContent' = <<>> /\ lastThinking' = <<>>
  /\ acc' = Fresh /\ tools' = 0 /\ finished' = FALSE
  /\ UNCHANGED request

(* httpx.WriteError *)
RespondError == Respond("error") /\ Forget

(* GenerateAssistantResponse fails for good, *)
CollectFails ==
  /\ stage = "calling"
  /\ RespondError

(* or returns a stream. *)
Called ==
  /\ stage = "calling"
  /\ stage' = "reading"
  /\ UNCHANGED <<accVars, try, answer>>

Collect ==
  /\ stage = "reading"
  /\ UpstreamSends
  /\ UNCHANGED <<stage, try, answer>>

(* A reason to try again: the next attempt has an accumulator of its own.  *)
CollectAgain ==
  /\ try = 1 /\ try' = 2
  /\ stage' = "calling"
  /\ Forget
  /\ UNCHANGED answer

(* An exception or invalid state, which handleUpstreamError tells apart.   *)
CollectRefused(retryable) ==
  /\ stage = "reading"
  /\ IF retryable /\ try = 1 THEN CollectAgain ELSE RespondError

(* A broken frame, the idle timeout, a cancelled context. *)
CollectSevered ==
  /\ stage = "reading"
  /\ RespondError

(* The stream has ended: BuildResponse *)
BuildResponse ==
  /\ stage = "reading"
  /\ FinalizeStream
  /\ stage' = "deciding"
  /\ UNCHANGED <<try, answer>>

(* and what becomes of the response. *)
Decide ==
  /\ stage = "deciding"
  /\ CASE ~IsEmptyAnswer           -> Respond("message") /\ UNCHANGED accVars
       [] IsEmptyAnswer /\ try = 1 -> CollectAgain
       [] OTHER                    -> RespondError

(* Whatever upstream says, its stream comes to an end. *)
CollectEnds ==
  \/ CollectFails \/ Called \/ CollectSevered \/ BuildResponse \/ Decide
  \/ \E retryable \in BOOLEAN : CollectRefused(retryable)

CollectNext == Collect \/ CollectEnds

=============================================================================
