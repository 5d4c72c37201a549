------------------------------ MODULE Rotation ------------------------------
(***************************************************************************)
(* The life of a request in internal/messages: it gets an account and its  *)
(* token, calls upstream, and when the call fails before any byte has been *)
(* written it may rotate, that is, record the failure, wait, and call      *)
(* again with what the pool gives it now.  Every step that touches the     *)
(* pool is an action of Pool, so this module implements that one.          *)
(*                                                                         *)
(* A request that is answered has received one response, whatever it says. *)
(***************************************************************************)
EXTENDS Pool, UpstreamErrors

CONSTANTS
  Errors,        \* the errors a call may fail with
  PoolRetries,   \* Service.poolRetries: 0 in single mode
  ModelRetries,  \* upstreamPoolRetries
  MaxBans        \* maxSuspiciousBansPerRotation

ASSUME RotationAssumption ==
  /\ Errors \subseteq UpstreamErrors /\ None \notin UpstreamErrors
  /\ PoolRetries \in Nat /\ ModelRetries \in Nat /\ MaxBans \in Nat \ {0}

VARIABLES
  stage,    \* stage[r]: see Stages
  again,    \* again[r]: this is the second callAndHandle of executeWithRetry
  rotated,  \* poolAttempt
  budget,   \* effectiveRetries
  bans,     \* suspiciousBanCount
  err,      \* the error of the last call, or None
  creds,    \* the account of inv.creds, or None
  calls,    \* history: the calls made so far
  flagged   \* history: the bans upstream has answered this callAndHandle with

loop  == <<rotated, budget, bans>>
told  == <<calls, flagged>>
local == <<stage, again, loop, err, creds, told>>

rotationVars == <<poolVars, local>>

Stages == {"token",       \* before GetToken
           "refreshing",  \* GetToken has picked an account
           "calling",
           "failed",      \* the call has failed with err
           "waiting",     \* rotationSleep, after the failure was recorded
           "giving up",   \* the rotation has broken off
           "ending",      \* nothing is left but to write the response
           "answered"}

MaxRotations == IF PoolRetries > ModelRetries THEN PoolRetries ELSE ModelRetries

RotationTypeOK ==
  /\ stage \in [Requests -> Stages]
  /\ again \in [Requests -> BOOLEAN]
  /\ rotated \in [Requests -> 0 .. MaxRotations]
  /\ budget \in [Requests -> {PoolRetries, MaxRotations}]
  /\ bans \in [Requests -> 0 .. MaxBans]
  /\ err \in [Requests -> Errors \cup {None}]
  /\ creds \in [Requests -> Accounts \cup {None}]
  /\ calls \in [Requests -> Nat]
  /\ flagged \in [Requests -> Nat]

RotationInit ==
  /\ PoolInit
  /\ stage = [r \in Requests |-> "token"]
  /\ again = [r \in Requests |-> FALSE]
  /\ rotated = [r \in Requests |-> 0]
  /\ budget = [r \in Requests |-> PoolRetries]
  /\ bans = [r \in Requests |-> 0]
  /\ err = [r \in Requests |-> None]
  /\ creds = [r \in Requests |-> None]
  /\ calls = [r \in Requests |-> 0]
  /\ flagged = [r \in Requests |-> 0]

Goes(r, to) == stage' = [stage EXCEPT ![r] = to]

-----------------------------------------------------------------------------
(* Credentials *)

(* TokenGetter.GetToken, up to the refresh.  Without an account the first  *)
(* GetToken ends the request, a later one ends the rotation.               *)
GetToken(r) ==
  /\ stage[r] = "token"
  /\ Pick(r)
  /\ Goes(r, IF doing'[r] = "calling" THEN "refreshing" ELSE "giving up")
  /\ UNCHANGED <<again, loop, err, creds, told>>

(* The refresh token is refused (RecordUnauthorized), or the refresh fails *)
(* otherwise; or it goes well and the tier gate or BuildPayload refuses    *)
(* the request, which as yet has no credentials.                           *)
Forgo(r) ==
  /\ stage[r] = "refreshing"
  /\ Unauthorized(r) \/ Drop(r)
  /\ Goes(r, "giving up")
  /\ UNCHANGED <<again, loop, err, creds, told>>

Call(r) ==
  /\ stage[r] = "refreshing"
  /\ Goes(r, "calling")
  /\ creds' = [creds EXCEPT ![r] = using[r]]
  /\ calls' = [calls EXCEPT ![r] = @ + 1]
  /\ UNCHANGED <<poolVars, again, loop, err, flagged>>

-----------------------------------------------------------------------------
(* The upstream call *)

(* The client's TokenRefresher is GetToken: another Pick, for the token.   *)
(* What the call ends with is recorded for the account first picked all    *)
(* the same, though the token, and so the error, may be another's.         *)
(* UpstreamCall counts how often a call may do this.                       *)
Reauthorize(r) ==
  /\ stage[r] = "calling"
  /\ Pick(r)
  /\ UNCHANGED local

CallFails(r, e) ==
  /\ stage[r] = "calling"
  /\ Goes(r, "failed")
  /\ err' = [err EXCEPT ![r] = e]
  /\ flagged' = [flagged EXCEPT ![r] = IF IsBan(e) THEN @ + 1 ELSE @]
  /\ UNCHANGED <<poolVars, again, loop, creds, calls>>

(* The response is passed on, or the second attempt has a retryable reason *)
(* too and is answered with an error.                                      *)
Respond(r) ==
  /\ stage[r] = "calling"
  /\ Answer(r)
  /\ Goes(r, "ending")
  /\ UNCHANGED <<again, loop, err, creds, told>>

(* The response began with a retryable invalidStateEvent, or ended without *)
(* visible output: one more callAndHandle, with the credentials at hand.   *)
RetryCall(r) ==
  /\ stage[r] = "calling" /\ ~again[r]
  /\ again' = [again EXCEPT ![r] = TRUE]
  /\ rotated' = [rotated EXCEPT ![r] = 0]
  /\ budget' = [budget EXCEPT ![r] = PoolRetries]
  /\ bans' = [bans EXCEPT ![r] = 0]
  /\ err' = [err EXCEPT ![r] = None]
  /\ calls' = [calls EXCEPT ![r] = @ + 1]
  /\ flagged' = [flagged EXCEPT ![r] = 0]
  /\ UNCHANGED <<poolVars, stage, creds>>

-----------------------------------------------------------------------------
(* The rotation *)

MayRotate(r) ==
  /\ stage[r] = "failed"
  /\ IsRotatable(err[r]) /\ rotated[r] < budget[r]

(* Faulty: raises the budget as often as such an error comes. *)
RaisedAgain(r) ==
  IF err[r].reason = "model" THEN budget[r] + 1 ELSE budget[r]

(* An INVALID_MODEL_ID raises the budget of a rotation under way. *)
Raised(r) ==
  IF err[r].reason = "model" /\ budget[r] < ModelRetries THEN ModelRetries ELSE budget[r]

RaiseBudget(r) == budget' = [budget EXCEPT ![r] = Raised(r)]

(* Faulty: never stops for bans. *)
RotateFromBanAlways(r) ==
  /\ MayRotate(r) /\ IsBan(err[r])
  /\ Suspicious(r)
  /\ RaiseBudget(r)
  /\ bans' = [bans EXCEPT ![r] = @ + 1]
  /\ Goes(r, "waiting")
  /\ UNCHANGED <<again, rotated, err, creds, told>>

RotateFromBan(r) ==
  /\ MayRotate(r) /\ IsBan(err[r])
  /\ Suspicious(r)
  /\ RaiseBudget(r)
  /\ bans' = [bans EXCEPT ![r] = @ + 1]
  /\ Goes(r, IF bans[r] + 1 < MaxBans THEN "waiting" ELSE "giving up")
  /\ UNCHANGED <<again, rotated, err, creds, told>>

(* A shortage is not recorded. *)
Rotate(r) ==
  /\ MayRotate(r) /\ ~IsBan(err[r])
  /\ IF IsCapacityShortage(err[r]) THEN Drop(r) ELSE Fail(r, IsQuotaFailure(err[r]))
  /\ RaiseBudget(r)
  /\ Goes(r, "waiting")
  /\ UNCHANGED <<again, rotated, bans, err, creds, told>>

Wake(r) ==
  /\ stage[r] = "waiting" /\ doing[r] = "idle"
  /\ Goes(r, "token")
  /\ rotated' = [rotated EXCEPT ![r] = @ + 1]
  /\ UNCHANGED <<poolVars, again, budget, bans, err, creds, told>>

(* The request's context is done during a wait; the first rotation waits   *)
(* after a ban only.                                                       *)
Interrupted(r) ==
  /\ stage[r] = "waiting" /\ doing[r] = "idle"
  /\ rotated[r] > 0 \/ IsBan(err[r])
  /\ Goes(r, "giving up")
  /\ UNCHANGED <<poolVars, again, loop, err, creds, told>>

(* Nothing to rotate for: a structural error is recorded, others are not.  *)
Surrender(r) ==
  /\ stage[r] = "failed" /\ ~MayRotate(r)
  /\ IF IsStructural(err[r]) THEN Structural(r) ELSE Drop(r)
  /\ Goes(r, "ending")
  /\ UNCHANGED <<again, loop, err, creds, told>>

(* Faulty: leaves a request without credentials unanswered. *)
GiveUpWithCredentials(r) ==
  /\ stage[r] = "giving up" /\ doing[r] = "idle" /\ err[r] # None
  /\ IF IsStructural(err[r])
     THEN LateStructural(r, creds[r])
     ELSE UNCHANGED poolVars
  /\ Goes(r, "ending")
  /\ UNCHANGED <<again, loop, err, creds, told>>

(* The rotation has ended with the last error still there, or the request  *)
(* has never had credentials.                                              *)
GiveUp(r) ==
  /\ stage[r] = "giving up" /\ doing[r] = "idle"
  /\ IF err[r] # None /\ IsStructural(err[r])
     THEN LateStructural(r, creds[r])
     ELSE UNCHANGED poolVars
  /\ Goes(r, "ending")
  /\ UNCHANGED <<again, loop, err, creds, told>>

(* The rest of a Record* call: the handler waits for it. *)
Release(r) == Unpin(r) /\ UNCHANGED local

End(r) ==
  /\ stage[r] = "ending" /\ doing[r] = "idle"
  /\ Goes(r, "answered")
  /\ UNCHANGED <<poolVars, again, loop, err, creds, told>>

-----------------------------------------------------------------------------
Advance(r) ==
  \/ GetToken(r) \/ Forgo(r) \/ Call(r) \/ Respond(r) \/ RetryCall(r)
  \/ \E e \in Errors : CallFails(r, e)
  \/ RotateFromBan(r) \/ Rotate(r) \/ Wake(r) \/ Interrupted(r)
  \/ Surrender(r) \/ GiveUp(r) \/ Release(r) \/ End(r)

RotationNext ==
  \/ \E r \in Requests : Advance(r) \/ Reauthorize(r)
  \/ Tick /\ UNCHANGED local

RotationSpec == RotationInit /\ [][RotationNext]_rotationVars

(* Handlers are goroutines that run on, and a call comes to its end: the   *)
(* client's retries are bounded and its transport has timeouts.            *)
FairRotationSpec ==
  RotationSpec /\ \A r \in Requests : WF_rotationVars(Advance(r))
-----------------------------------------------------------------------------
(* Properties *)

(* However errors, bans and refused models follow one another, a request   *)
(* costs upstream at most one rotation's calls for each of its two         *)
(* attempts (the loop of callAndHandle, whose budget grows under way).     *)
CallsBounded == \A r \in Requests : calls[r] <= 2 * (MaxRotations + 1)

(* No callAndHandle gets more than MaxBans accounts banned, whether the    *)
(* bans come in a row or among other errors ("burning more accounts won't  *)
(* help": maxSuspiciousBansPerRotation).                                   *)
BansStopRotation == \A r \in Requests : flagged[r] <= MaxBans

(* Errors no account is to blame for: a shortage of capacity, a request    *)
(* that upstream finds invalid, and a client that went away.  A model that *)
(* upstream refuses may be in no plan of the account, and the handler's    *)
(* deadline looks like a timeout of the transport: the code counts both.   *)
Blameless(e) ==
  \/ IsCapacityShortage(e) /\ ~IsStructural(e)
  \/ e.status \in {0, 400} /\ e.exception \in {"Validation", "None"} /\ e.reason # "model"

(* Errors that may take an account out of service without another failure. *)
Grave(e) == IsBan(e) \/ IsQuotaFailure(e) \/ IsStructural(e)

(* Request r has met a failure that it may record for account a.           *)
Recorded(r, a) ==
  \/ stage[r] = "failed" /\ using[r] = a
  \/ stage[r] = "giving up" /\ creds[r] = a

RefreshRefused(r, a) == stage[r] = "refreshing" /\ using[r] = a

(* The account had been in service and had failures left.                  *)
CooledEarly(a) ==
  cooldown[a] = None /\ cooldown'[a] # None /\ consecutive'[a] < Threshold

BlamesForFault ==
  \A a \in Accounts :
    consecutive'[a] > consecutive[a] =>
      \E r \in Requests :
        \/ RefreshRefused(r, a)
        \/ /\ Recorded(r, a)
           /\ IsBan(err[r]) \/ ~Blameless(err[r])
           /\ CooledEarly(a) => Grave(err[r])

(* A failure counts against an account only when a request it was picked   *)
(* for saw its refresh token refused or an error that can be an account's  *)
(* fault: shortages, invalid requests and clients that left disable nobody *)
(* (isCapacityShortage, isStructuralError), by whichever call records it.  *)
(* And one failure alone disables an account only for a ban, a quota or an *)
(* account that is broken: a refused model, which isStructuralError says   *)
(* must not quarantine, only adds to the count.  It does not say that the  *)
(* error answered this account's token: see Reauthorize.                   *)
OnlyFaultsCount == [][BlamesForFault]_rotationVars

(* Every request is answered, though it waits for pools, refreshes, calls  *)
(* and rotations, and though the rotation may be handed the same account   *)
(* again and again.                                                        *)
Answered == \A r \in Requests : <>(stage[r] = "answered")

=============================================================================
