-------------------------- MODULE PoolUsers_proofs --------------------------
(***************************************************************************)
(* Proofs about the specifications the pool is part of.                    *)
(*                                                                         *)
(* Rotation, for any number of requests, accounts and retries: every       *)
(* behaviour of the requests is one of the pool, so what holds of the pool *)
(* holds with the rotation around it; and the loop of callAndHandle keeps  *)
(* its bounds.                                                             *)
(*                                                                         *)
(* MessageCall: a request whose calls are made of upstream's answers one   *)
(* by one, whatever the errors, endpoints and retries, is still a request  *)
(* of Rotation, and each call keeps its bounds.                            *)
(*                                                                         *)
(* Server, for any number of handlers, accounts and grants: the process is *)
(* a behaviour of the pool and of the AuthManager at once, whatever the    *)
(* signal interrupts, so what holds of the pool holds in it; and nobody is *)
(* handed older credentials than somebody before.                          *)
(***************************************************************************)
EXTENDS MessageCall, Server, Pool_proofs

-----------------------------------------------------------------------------
(* Rotation *)

LocalTyped ==
  /\ stage \in [Requests -> Stages]
  /\ again \in [Requests -> BOOLEAN]
  /\ rotated \in [Requests -> 0 .. MaxRotations]
  /\ budget \in [Requests -> {PoolRetries, MaxRotations}]
  /\ bans \in [Requests -> 0 .. MaxBans]
  /\ err \in [Requests -> Errors \cup {None}]
  /\ creds \in [Requests -> Accounts \cup {None}]
  /\ calls \in [Requests -> Nat]
  /\ flagged \in [Requests -> Nat]

(* A request that calls, or has called, has credentials.                   *)
Credentialed(r) ==
  /\ stage[r] = "refreshing" => doing[r] = "calling"
  /\ stage[r] \in {"calling", "failed"} \/ err[r] # None => creds[r] \in Accounts

(* The calls of the attempt made so far, and those of the one before.      *)
Before(r) == IF again[r] THEN MaxRotations + 1 ELSE 0

Bounded(r) ==
  /\ rotated[r] <= budget[r]
  /\ stage[r] = "waiting" => rotated[r] < budget[r]
  /\ calls[r] <= Before(r) + rotated[r] + (IF stage[r] \in {"token", "refreshing"} THEN 0 ELSE 1)

(* Each ban that was answered has been counted, but for the last.          *)
Counted(r) ==
  /\ flagged[r] <= MaxBans
  /\ stage[r] \in {"token", "refreshing", "calling", "waiting"} =>
       flagged[r] <= bans[r] /\ bans[r] < MaxBans
  /\ stage[r] = "failed" =>
       bans[r] < MaxBans /\ flagged[r] <= bans[r] + (IF IsBan(err[r]) THEN 1 ELSE 0)

LoopInv == \A r \in Requests : Credentialed(r) /\ Bounded(r) /\ Counted(r)

RotationInv == Typed /\ LocalTyped /\ LoopInv

LEMMA Retries ==
  ASSUME RotationAssumption
  PROVE  /\ PoolRetries \in Nat /\ ModelRetries \in Nat /\ MaxBans \in Nat \ {0}
         /\ MaxRotations \in Nat /\ PoolRetries <= MaxRotations /\ ModelRetries <= MaxRotations
         /\ PoolRetries < ModelRetries => MaxRotations = ModelRetries
  BY DEF RotationAssumption, MaxRotations

LEMMA InitHolds ==
  ASSUME PoolAssumption, RotationAssumption, RotationInit
  PROVE  RotationInv
<1>1. Typed
  BY InitTyped DEF RotationInit
<1>2. LocalTyped
  BY Retries DEF RotationInit, LocalTyped, Stages
<1>3. LoopInv
  BY Retries DEF RotationInit, LoopInv, Credentialed, Bounded, Counted, Before
<1> QED BY <1>1, <1>2, <1>3 DEF RotationInv

-----------------------------------------------------------------------------
(* The rotation implements the pool *)

(* A step of the rotation is a step of the pool or leaves it alone.        *)
LEMMA PoolSteps ==
  ASSUME RotationInv, [RotationNext]_rotationVars
  PROVE  [PoolNext]_poolVars
<1>1. ASSUME NEW r \in Requests, Advance(r) \/ Reauthorize(r)
      PROVE  [PoolNext]_poolVars
  <2>1. CASE GetToken(r) \/ Reauthorize(r)
    <3>1. Pick(r)
      BY <2>1 DEF GetToken, Reauthorize
    <3> QED BY <3>1 DEF PoolNext, ServeNext
  <2>2. CASE Forgo(r)
    <3>1. Unauthorized(r) \/ Drop(r)
      BY <2>2 DEF Forgo
    <3> QED BY <3>1 DEF PoolNext, ServeNext, Record
  <2>3. CASE Respond(r)
    <3>1. Answer(r)
      BY <2>3 DEF Respond
    <3> QED BY <3>1 DEF PoolNext, ServeNext
  <2>4. CASE RotateFromBan(r)
    <3>1. Suspicious(r)
      BY <2>4 DEF RotateFromBan
    <3> QED BY <3>1 DEF PoolNext, ServeNext, Record
  <2>5. CASE Rotate(r)
    <3>1. Drop(r) \/ Fail(r, IsQuotaFailure(err[r]))
      BY <2>5 DEF Rotate
    <3>2. IsQuotaFailure(err[r]) \in BOOLEAN
      BY DEF IsQuotaFailure
    <3> QED BY <3>1, <3>2 DEF PoolNext, ServeNext, Record
  <2>6. CASE Surrender(r)
    <3>1. Structural(r) \/ Drop(r)
      BY <2>6 DEF Surrender
    <3> QED BY <3>1 DEF PoolNext, ServeNext, Record
  <2>7. CASE GiveUp(r)
    <3>1. CASE err[r] # None /\ IsStructural(err[r])
      <4>1. LateStructural(r, creds[r])
        BY <2>7, <3>1 DEF GiveUp
      <4>2. creds[r] \in Accounts
        BY <3>1 DEF RotationInv, LoopInv, Credentialed
      <4> QED BY <4>1, <4>2 DEF PoolNext
    <3>2. CASE ~(err[r] # None /\ IsStructural(err[r]))
      BY <2>7, <3>2 DEF GiveUp
    <3> QED BY <3>1, <3>2
  <2>8. CASE Release(r)
    <3>1. Unpin(r)
      BY <2>8 DEF Release
    <3> QED BY <3>1 DEF PoolNext, ServeNext
  <2>9. CASE UNCHANGED poolVars
    BY <2>9
  <2>10. Call(r) \/ RetryCall(r) \/ (\E e \in Errors : CallFails(r, e))
           \/ Wake(r) \/ Interrupted(r) \/ End(r) => UNCHANGED poolVars
    BY DEF Call, RetryCall, CallFails, Wake, Interrupted, End
  <2> QED BY <1>1, <2>1, <2>2, <2>3, <2>4, <2>5, <2>6, <2>7, <2>8, <2>9, <2>10 DEF Advance
<1>2. CASE Tick
  BY <1>2 DEF PoolNext, ServeNext
<1>3. CASE UNCHANGED rotationVars
  BY <1>3 DEF rotationVars
<1> QED BY <1>1, <1>2, <1>3 DEF RotationNext

-----------------------------------------------------------------------------
(* The loop *)

(* What r does is seen in the other requests nowhere.                      *)
LEMMA OthersAlone ==
  ASSUME Typed, LocalTyped, NEW r \in Requests, NEW q \in Requests \ {r},
         Advance(r) \/ Reauthorize(r)
  PROVE  /\ doing'[q] = doing[q]
         /\ stage'[q] = stage[q] /\ again'[q] = again[q] /\ rotated'[q] = rotated[q]
         /\ budget'[q] = budget[q] /\ bans'[q] = bans[q] /\ err'[q] = err[q]
         /\ creds'[q] = creds[q] /\ calls'[q] = calls[q] /\ flagged'[q] = flagged[q]
<1>f. FlowTyped
  BY DEF Typed
<1>4. Pick(r) \/ Drop(r) \/ Answer(r) \/ Unpin(r) => doing'[q] = doing[q]
  BY <1>f, OthersGoOn
<1>5. Unauthorized(r) \/ Structural(r) \/ Suspicious(r) => doing'[q] = doing[q]
  BY <1>f, OthersGoOn DEF Record
<1>6. ASSUME NEW quota \in BOOLEAN, Fail(r, quota)
      PROVE  doing'[q] = doing[q]
  BY <1>f, <1>6, OthersGoOn DEF Record
<1>7. IsQuotaFailure(err[r]) \in BOOLEAN
  BY DEF IsQuotaFailure
<1>8. LateStructural(r, creds[r]) => doing'[q] = doing[q]
  BY <1>f DEF LateStructural, FlowTyped
<1>9. UNCHANGED poolVars => doing'[q] = doing[q]
  BY DEF poolVars, flow
<1>10. doing'[q] = doing[q]
  <2>1. CASE GetToken(r) \/ Reauthorize(r)
    BY <2>1, <1>4 DEF GetToken, Reauthorize
  <2>2. CASE Forgo(r) \/ Respond(r) \/ RotateFromBan(r) \/ Surrender(r) \/ Release(r)
    BY <2>2, <1>4, <1>5 DEF Forgo, Respond, RotateFromBan, Surrender, Release
  <2>3. CASE Rotate(r)
    BY <2>3, <1>4, <1>6, <1>7 DEF Rotate
  <2>4. CASE GiveUp(r)
    BY <2>4, <1>8, <1>9 DEF GiveUp
  <2>5. CASE Call(r) \/ RetryCall(r) \/ (\E e \in Errors : CallFails(r, e))
             \/ Wake(r) \/ Interrupted(r) \/ End(r)
    BY <2>5, <1>9 DEF Call, RetryCall, CallFails, Wake, Interrupted, End
  <2> QED BY <2>1, <2>2, <2>3, <2>4, <2>5 DEF Advance
<1>11. /\ stage'[q] = stage[q] /\ again'[q] = again[q] /\ rotated'[q] = rotated[q]
       /\ budget'[q] = budget[q] /\ bans'[q] = bans[q] /\ err'[q] = err[q]
       /\ creds'[q] = creds[q] /\ calls'[q] = calls[q] /\ flagged'[q] = flagged[q]
  <2>1. CASE GetToken(r) \/ Forgo(r) \/ Respond(r) \/ Surrender(r) \/ GiveUp(r)
             \/ End(r) \/ Interrupted(r)
    BY <2>1 DEF GetToken, Forgo, Respond, Surrender, GiveUp, End, Interrupted, Goes, LocalTyped,
                loop, told
  <2>2. CASE Call(r) \/ (\E e \in Errors : CallFails(r, e)) \/ RetryCall(r)
    BY <2>2 DEF Call, CallFails, RetryCall, Goes, LocalTyped, loop
  <2>3. CASE RotateFromBan(r) \/ Rotate(r) \/ Wake(r)
    BY <2>3 DEF RotateFromBan, Rotate, Wake, RaiseBudget, Goes, LocalTyped, told
  <2>4. CASE Release(r) \/ Reauthorize(r)
    BY <2>4 DEF Release, Reauthorize, local, loop, told
  <2> QED BY <1>10, <2>1, <2>2, <2>3, <2>4 DEF Advance
<1> QED BY <1>10, <1>11

(* Each action of r keeps the types of the loop's variables.               *)
LEMMA ActionTyped ==
  ASSUME RotationAssumption, RotationInv, NEW r \in Requests, Advance(r) \/ Reauthorize(r)
  PROVE  LocalTyped'
<1>t. LocalTyped /\ FlowTyped /\ Credentialed(r) /\ Bounded(r) /\ Counted(r)
  BY DEF RotationInv, LoopInv, Typed
<1>1. CASE GetToken(r)
  BY <1>t, <1>1 DEF GetToken, Goes, LocalTyped, Stages, loop, told
<1>2. CASE Forgo(r) \/ Respond(r) \/ Surrender(r) \/ GiveUp(r) \/ End(r) \/ Interrupted(r)
  BY <1>t, <1>2 DEF Forgo, Respond, Surrender, GiveUp, End, Interrupted, Goes, LocalTyped, Stages,
                    loop, told
<1>3. CASE Call(r)
  <2>1. using[r] \in Accounts \cup {None} /\ calls[r] + 1 \in Nat
    BY <1>t DEF LocalTyped, FlowTyped
  <2>2. calls' \in [Requests -> Nat]
    BY <1>t, <1>3, <2>1 DEF Call, LocalTyped
  <2>3. creds' \in [Requests -> Accounts \cup {None}]
    BY <1>t, <1>3, <2>1 DEF Call, LocalTyped
  <2> QED BY <1>t, <1>3, <2>2, <2>3 DEF Call, Goes, LocalTyped, Stages, loop
<1>4. ASSUME NEW e \in Errors, CallFails(r, e)
      PROVE  LocalTyped'
  <2>1. flagged[r] \in Nat /\ flagged[r] + 1 \in Nat
    BY <1>t DEF LocalTyped
  <2>2. flagged' \in [Requests -> Nat]
    BY <1>t, <1>4, <2>1 DEF CallFails, LocalTyped
  <2> QED BY <1>t, <1>4, <2>2 DEF CallFails, Goes, LocalTyped, Stages, loop
<1>5. CASE RetryCall(r)
  BY <1>t, <1>5, Retries DEF RetryCall, LocalTyped
<1>6. CASE RotateFromBan(r)
  <2>1. Raised(r) \in {PoolRetries, MaxRotations}
    BY <1>t, Retries DEF Raised, LocalTyped
  <2>2. bans[r] + 1 \in 0 .. MaxBans
    <3>1. bans[r] \in 0 .. MaxBans /\ MaxBans \in Nat
      BY <1>t, Retries DEF LocalTyped
    <3>2. bans[r] < MaxBans
      BY <1>t, <1>6 DEF RotateFromBan, MayRotate, Counted
    <3> QED BY <3>1, <3>2
  <2> QED BY <1>t, <1>6, <2>1, <2>2
          DEF RotateFromBan, RaiseBudget, Goes, LocalTyped, Stages, told
<1>7. CASE Rotate(r)
  <2>1. Raised(r) \in {PoolRetries, MaxRotations}
    BY <1>t, Retries DEF Raised, LocalTyped
  <2> QED BY <1>t, <1>7, <2>1 DEF Rotate, RaiseBudget, Goes, LocalTyped, Stages, told
<1>8. CASE Wake(r)
  <2>1. rotated[r] + 1 \in 0 .. MaxRotations
    BY <1>t, <1>8, Retries DEF Wake, Bounded, LocalTyped
  <2> QED BY <1>t, <1>8, <2>1 DEF Wake, Goes, LocalTyped, Stages, told
<1>9. CASE Release(r) \/ Reauthorize(r)
  BY <1>t, <1>9 DEF Release, Reauthorize, local, loop, told, LocalTyped
<1> QED BY <1>1, <1>2, <1>3, <1>4, <1>5, <1>6, <1>7, <1>8, <1>9 DEF Advance

(* Before its call r is the pool's caller, and with it come credentials.   *)
LEMMA ActionCredentialed ==
  ASSUME PoolAssumption, RotationInv, NEW r \in Requests, Advance(r) \/ Reauthorize(r)
  PROVE  Credentialed(r)'
<1>t. LocalTyped /\ FlowTyped /\ Credentialed(r)
  BY DEF RotationInv, LoopInv, Typed
<1>1. CASE GetToken(r)
  BY <1>t, <1>1 DEF GetToken, Goes, LocalTyped, Credentialed
<1>2. CASE Forgo(r) \/ Respond(r) \/ Surrender(r) \/ GiveUp(r) \/ End(r) \/ Interrupted(r)
  BY <1>t, <1>2 DEF Forgo, Respond, Surrender, GiveUp, End, Interrupted, Goes, LocalTyped,
                    Credentialed
<1>3. CASE Call(r)
  <2>1. using[r] \in Accounts
    BY <1>t, <1>3 DEF Call, Credentialed, FlowTyped
  <2> QED BY <1>t, <1>3, <2>1 DEF Call, Goes, LocalTyped, Credentialed
<1>4. ASSUME NEW e \in Errors, CallFails(r, e)
      PROVE  Credentialed(r)'
  BY <1>t, <1>4 DEF CallFails, Goes, LocalTyped, Credentialed
<1>5. CASE RetryCall(r)
  BY <1>t, <1>5 DEF RetryCall, LocalTyped, Credentialed
<1>6. CASE RotateFromBan(r) \/ Rotate(r) \/ Wake(r)
  BY <1>t, <1>6 DEF RotateFromBan, Rotate, Wake, Goes, LocalTyped, Credentialed
<1>7. CASE Release(r)
  BY <1>t, <1>7 DEF Release, Unpin, local, Credentialed
<1>8. CASE Reauthorize(r)
  BY <1>t, <1>8 DEF Reauthorize, local, Credentialed
<1> QED BY <1>1, <1>2, <1>3, <1>4, <1>5, <1>6, <1>7, <1>8 DEF Advance

(* Every call is paid for by a rotation or begins an attempt.              *)
LEMMA ActionBounded ==
  ASSUME RotationAssumption, RotationInv, NEW r \in Requests, Advance(r) \/ Reauthorize(r)
  PROVE  Bounded(r)'
<1>t. LocalTyped /\ Bounded(r)
  BY DEF RotationInv, LoopInv
<1>n. /\ MaxRotations \in Nat /\ PoolRetries \in Nat /\ PoolRetries <= MaxRotations
      /\ ModelRetries \in Nat /\ ModelRetries <= MaxRotations
  BY Retries
<1>b. /\ rotated[r] \in Nat /\ budget[r] \in Nat /\ calls[r] \in Nat /\ Before(r) \in Nat
      /\ budget[r] <= MaxRotations /\ again[r] \in BOOLEAN
  BY <1>t, <1>n DEF LocalTyped, Before
<1>1. ASSUME rotated'[r] = rotated[r], budget'[r] = budget[r], again'[r] = again[r],
             calls'[r] = calls[r], stage'[r] # "waiting",
             stage[r] \in {"token", "refreshing"} \/ stage'[r] \notin {"token", "refreshing"}
      PROVE  Bounded(r)'
  <2>1. Before(r)' = Before(r)
    BY <1>1 DEF Before
  <2> QED BY <1>t, <1>b, <1>1, <2>1 DEF Bounded
<1>2. CASE GetToken(r) \/ Forgo(r) \/ Respond(r) \/ Surrender(r) \/ GiveUp(r) \/ End(r)
           \/ Interrupted(r) \/ (\E e \in Errors : CallFails(r, e))
  <2>1. /\ rotated'[r] = rotated[r] /\ budget'[r] = budget[r] /\ again'[r] = again[r]
        /\ calls'[r] = calls[r]
    BY <1>2 DEF GetToken, Forgo, Respond, Surrender, GiveUp, End, Interrupted, CallFails,
                loop, told
  <2>2. /\ stage'[r] # "waiting"
        /\ stage[r] = "token" \/ stage'[r] \notin {"token", "refreshing"}
    BY <1>t, <1>2 DEF GetToken, Forgo, Respond, Surrender, GiveUp, End, Interrupted, CallFails,
                      Goes, LocalTyped
  <2> QED BY <1>1, <2>1, <2>2
<1>3. CASE Call(r)
  <2>1. /\ rotated'[r] = rotated[r] /\ budget'[r] = budget[r] /\ again'[r] = again[r]
        /\ calls'[r] = calls[r] + 1 /\ stage[r] = "refreshing" /\ stage'[r] = "calling"
    BY <1>t, <1>3 DEF Call, Goes, LocalTyped, loop
  <2>2. Before(r)' = Before(r)
    BY <2>1 DEF Before
  <2> QED BY <1>t, <1>b, <2>1, <2>2 DEF Bounded
<1>5. CASE RetryCall(r)
  <2>1. /\ rotated'[r] = 0 /\ budget'[r] = PoolRetries /\ again[r] = FALSE /\ again'[r] = TRUE
        /\ calls'[r] = calls[r] + 1 /\ stage[r] = "calling" /\ stage'[r] = "calling"
    BY <1>t, <1>5 DEF RetryCall, LocalTyped
  <2>2. Before(r) = 0 /\ Before(r)' = MaxRotations + 1
    BY <2>1 DEF Before
  <2> QED BY <1>t, <1>n, <1>b, <2>1, <2>2 DEF Bounded
<1>6. CASE RotateFromBan(r) \/ Rotate(r)
  <2>1. Raised(r) \in Nat /\ rotated[r] < Raised(r)
    <3>1. rotated[r] < budget[r]
      BY <1>6 DEF RotateFromBan, Rotate, MayRotate
    <3> QED BY <1>b, <1>n, <3>1 DEF Raised
  <2>2. /\ stage[r] = "failed" /\ stage'[r] \in {"waiting", "giving up"}
        /\ budget'[r] = Raised(r)
        /\ rotated' = rotated /\ calls' = calls /\ again' = again
    BY <1>t, <1>6 DEF RotateFromBan, Rotate, MayRotate, RaiseBudget, Goes, LocalTyped, told
  <2>3. Before(r)' = Before(r)
    BY <2>2 DEF Before
  <2>4. calls[r] <= Before(r) + rotated[r] + 1
    BY <1>t, <2>2 DEF Bounded
  <2>5. rotated'[r] = rotated[r] /\ calls'[r] = calls[r]
    BY <2>2
  <2>6. rotated'[r] <= budget'[r] /\ rotated'[r] < budget'[r]
    <3> DEFINE x == rotated[r]  y == Raised(r)
    <3>1. x \in Nat /\ y \in Nat /\ x < y
      BY <1>b, <2>1
    <3>2. rotated'[r] = x /\ budget'[r] = y
      BY <2>2, <2>5
    <3> HIDE DEF x, y
    <3>3. x <= y /\ x < y
      BY <3>1
    <3> QED BY <3>2, <3>3
  <2>7. calls'[r] <= Before(r)' + rotated'[r] + 1
    BY <2>3, <2>4, <2>5
  <2>8. stage'[r] \notin {"token", "refreshing"}
    BY <2>2
  <2> QED BY <2>6, <2>7, <2>8 DEF Bounded
<1>7. CASE Wake(r)
  <2>1. /\ rotated'[r] = rotated[r] + 1 /\ budget'[r] = budget[r] /\ again'[r] = again[r]
        /\ calls'[r] = calls[r] /\ stage[r] = "waiting" /\ stage'[r] = "token"
    BY <1>t, <1>7 DEF Wake, Goes, LocalTyped, told
  <2>2. Before(r)' = Before(r)
    BY <2>1 DEF Before
  <2> QED BY <1>t, <1>b, <2>1, <2>2 DEF Bounded
<1>8. CASE Release(r) \/ Reauthorize(r)
  BY <1>t, <1>8 DEF Release, Reauthorize, local, loop, told, Bounded, Before
<1> QED BY <1>2, <1>3, <1>5, <1>6, <1>7, <1>8 DEF Advance

(* Every ban is counted before the next call.                              *)
LEMMA ActionCounted ==
  ASSUME RotationAssumption, RotationInv, NEW r \in Requests, Advance(r) \/ Reauthorize(r)
  PROVE  Counted(r)'
<1>t. LocalTyped /\ Counted(r)
  BY DEF RotationInv, LoopInv
<1>n. MaxBans \in Nat \ {0}
  BY Retries
<1>1. CASE GetToken(r)
  BY <1>t, <1>n, <1>1 DEF GetToken, Goes, LocalTyped, Counted, loop, told
<1>2. CASE Forgo(r) \/ Respond(r) \/ Surrender(r) \/ GiveUp(r) \/ End(r) \/ Interrupted(r)
  BY <1>t, <1>n, <1>2 DEF Forgo, Respond, Surrender, GiveUp, End, Interrupted, MayRotate, Goes,
                          LocalTyped, Counted, loop, told
<1>3. CASE Call(r)
  BY <1>t, <1>n, <1>3 DEF Call, Goes, LocalTyped, Counted, loop
<1>4. ASSUME NEW e \in Errors, CallFails(r, e)
      PROVE  Counted(r)'
  BY <1>t, <1>n, <1>4 DEF CallFails, Goes, LocalTyped, Counted, loop
<1>5. CASE RetryCall(r)
  BY <1>t, <1>n, <1>5 DEF RetryCall, LocalTyped, Counted
<1>6. CASE RotateFromBan(r)
  <2>1. /\ stage[r] = "failed" /\ flagged' = flagged /\ bans'[r] = bans[r] + 1
        /\ stage'[r] = (IF bans[r] + 1 < MaxBans THEN "waiting" ELSE "giving up")
    BY <1>t, <1>6 DEF RotateFromBan, MayRotate, Goes, LocalTyped, told
  <2>2. bans[r] \in Nat /\ flagged[r] \in Nat
    BY <1>t DEF LocalTyped
  <2>3. bans[r] < MaxBans /\ flagged[r] <= bans[r] + 1
    <3>1. IsBan(err[r])
      BY <1>6 DEF RotateFromBan
    <3> QED BY <1>t, <2>1, <2>2, <3>1 DEF Counted
  <2>4. CASE bans[r] + 1 < MaxBans
    BY <1>n, <2>1, <2>2, <2>3, <2>4 DEF Counted
  <2>5. CASE ~(bans[r] + 1 < MaxBans)
    <3>1. flagged[r] <= MaxBans
      BY <1>t DEF Counted
    <3> QED BY <2>1, <2>5, <3>1 DEF Counted
  <2> QED BY <2>4, <2>5
<1>7. CASE Rotate(r)
  <2>1. /\ stage[r] = "failed" /\ flagged' = flagged /\ bans' = bans
        /\ stage'[r] = "waiting" /\ ~IsBan(err[r])
    BY <1>t, <1>7 DEF Rotate, MayRotate, Goes, LocalTyped, told
  <2> QED BY <1>t, <1>n, <2>1 DEF LocalTyped, Counted
<1>8. CASE Wake(r)
  BY <1>t, <1>n, <1>8 DEF Wake, Goes, LocalTyped, Counted, told
<1>9. CASE Release(r) \/ Reauthorize(r)
  BY <1>t, <1>9 DEF Release, Reauthorize, local, loop, told, Counted
<1> QED BY <1>1, <1>2, <1>3, <1>4, <1>5, <1>6, <1>7, <1>8, <1>9 DEF Advance

LEMMA NextHolds ==
  ASSUME PoolAssumption, RotationAssumption, RotationInv, [RotationNext]_rotationVars
  PROVE  RotationInv'
<1>p. Typed'
  <2>1. [PoolNext]_poolVars
    BY PoolSteps
  <2> QED BY <2>1, NextTyped DEF RotationInv
<1>1. ASSUME NEW r \in Requests, Advance(r) \/ Reauthorize(r)
      PROVE  LocalTyped' /\ LoopInv'
  <2>1. LocalTyped'
    BY <1>1, ActionTyped
  <2>2. ASSUME NEW q \in Requests \ {r}
        PROVE  Credentialed(q)' /\ Bounded(q)' /\ Counted(q)'
    <3>1. /\ doing'[q] = doing[q]
          /\ stage'[q] = stage[q] /\ again'[q] = again[q] /\ rotated'[q] = rotated[q]
          /\ budget'[q] = budget[q] /\ bans'[q] = bans[q] /\ err'[q] = err[q]
          /\ creds'[q] = creds[q] /\ calls'[q] = calls[q] /\ flagged'[q] = flagged[q]
      BY <1>1, OthersAlone DEF RotationInv
    <3>2. Credentialed(q) /\ Bounded(q) /\ Counted(q)
      BY DEF RotationInv, LoopInv
    <3>3. Credentialed(q)'
      BY <3>1, <3>2 DEF Credentialed
    <3>4. Bounded(q)'
      BY <3>1, <3>2 DEF Bounded, Before
    <3>5. Counted(q)'
      BY <3>1, <3>2 DEF Counted
    <3> QED BY <3>3, <3>4, <3>5
  <2>3. Credentialed(r)' /\ Bounded(r)' /\ Counted(r)'
    BY <1>1, ActionCredentialed, ActionBounded, ActionCounted
  <2> QED BY <2>1, <2>2, <2>3 DEF LoopInv
<1>2. ASSUME UNCHANGED <<local, doing>>
      PROVE  LocalTyped' /\ LoopInv'
  BY <1>2 DEF RotationInv, LocalTyped, LoopInv, Credentialed, Bounded, Counted, Before,
              local, loop, told
<1>3. Tick /\ UNCHANGED local => UNCHANGED <<local, doing>>
  BY DEF PinsExpire, Tick, flow
<1>4. UNCHANGED rotationVars => UNCHANGED <<local, doing>>
  BY DEF rotationVars, poolVars, flow
<1> QED BY <1>p, <1>1, <1>2, <1>3, <1>4 DEF RotationNext, RotationInv

-----------------------------------------------------------------------------
(* Blame *)

(* An error that calls for a rotation or is structural is some account's.  *)
LEMMA RotatableIsNotBlameless ==
  ASSUME NEW e, IsRotatable(e), ~IsCapacityShortage(e)
  PROVE  ~Blameless(e)
  BY DEF IsRotatable, IsRetryable, Throttles, Blameless

LEMMA StructuralIsNotBlameless ==
  ASSUME NEW e, IsStructural(e)
  PROVE  ~Blameless(e)
<1>1. e.exception = "Contract"
  BY DEF IsStructural
<1>2. ~(e.exception \in {"Validation", "None"})
  BY <1>1
<1> QED BY <1>2 DEF Blameless

(* The count of a single account goes up.                                  *)
LEMMA OneCounts ==
  ASSUME HealthTyped, NEW a \in Accounts, NEW b,
         consecutive'[a] > consecutive[a],
         consecutive' = [consecutive EXCEPT ![b] = Another(b)]
  PROVE  a = b
<1>1. consecutive[a] \in Nat
  BY DEF HealthTyped
<1>2. ASSUME a # b
      PROVE  consecutive'[a] = consecutive[a]
  BY <1>2 DEF HealthTyped
<1> QED BY <1>1, <1>2

(* What Fail cools it cools for a quota or at the threshold.               *)
LEMMA FailCoolsLate ==
  ASSUME PoolAssumption, HealthTyped, present \subseteq Accounts,
         NEW r \in Requests, NEW quota \in BOOLEAN,
         Fail(r, quota), CooledEarly(using[r])
  PROVE  quota
<1>1. ASSUME NEW a, a = using[r], ~quota
      PROVE  FALSE
  <2>1. /\ a \in Accounts /\ consecutive' = [consecutive EXCEPT ![a] = Another(a)]
        /\ Cools(r, quota) \/ cooldown' = cooldown
    BY <1>1 DEF Fail, RecordFailure
  <2>2. consecutive'[a] = Another(a) /\ Another(a) \in Nat /\ Threshold \in Nat
    BY <2>1 DEF HealthTyped, Another, PoolAssumption, Policy
  <2>3. cooldown' # cooldown /\ consecutive'[a] < Threshold
    BY <1>1 DEF CooledEarly
  <2>4. Another(a) >= Threshold
    BY <1>1, <2>1, <2>3 DEF Cools
  <2> QED BY <2>2, <2>3, <2>4
<1> QED BY <1>1

(* Request r has cause to count a failure against account a.               *)
HasCause(r, a) ==
  \/ RefreshRefused(r, a)
  \/ /\ Recorded(r, a)
     /\ IsBan(err[r]) \/ ~Blameless(err[r])
     /\ CooledEarly(a) => Grave(err[r])

LEMMA BlameSteps ==
  ASSUME PoolAssumption, RotationInv, [RotationNext]_rotationVars
  PROVE  BlamesForFault
<1>h. HealthTyped
  BY DEF RotationInv, Typed
<1>1. SUFFICES ASSUME NEW a \in Accounts, consecutive'[a] > consecutive[a]
               PROVE  \E r \in Requests : HasCause(r, a)
  BY DEF BlamesForFault, HasCause
<1>2. ~(consecutive'[a] = consecutive[a])
  BY <1>h, <1>1 DEF HealthTyped
<1>3. ~(UNCHANGED consecutive)
  BY <1>2
<1>4. ~Decay
  <2>1. ASSUME Decay
        PROVE  consecutive'[a] \in {0, consecutive[a]}
    BY <2>1 DEF Decay
  <2>2. consecutive[a] \in Nat
    BY <1>h DEF HealthTyped
  <2> QED BY <1>1, <2>1, <2>2
<1>5. ASSUME NEW b, NEW time, Quarantined(b, time)
      PROVE  a = b
  BY <1>h, <1>1, <1>5, OneCounts DEF Quarantined
<1>6. ASSUME NEW r \in Requests, Advance(r) \/ Reauthorize(r)
      PROVE  HasCause(r, a)
  <2>1. ~(GetToken(r) \/ Reauthorize(r))
    BY <1>4 DEF GetToken, Reauthorize, Pick
  <2>2. ~(Drop(r) \/ Answer(r) \/ Unpin(r))
    BY <1>3 DEF Drop, Answer, Unpin, health
  <2>3. ~(UNCHANGED poolVars)
    BY <1>3 DEF poolVars, health
  <2>4. ~(Respond(r) \/ Release(r) \/ Call(r) \/ RetryCall(r) \/ Wake(r) \/ Interrupted(r)
             \/ End(r) \/ \E e \in Errors : CallFails(r, e))
    BY <2>2, <2>3 DEF Respond, Release, Call, RetryCall, Wake, Interrupted, End, CallFails
  <2>5. Unauthorized(r) \/ Structural(r) \/ Suspicious(r) => a = using[r]
    BY <1>5 DEF Unauthorized, Structural, Suspicious, Quarantine
  <2>6. CASE Forgo(r)
    BY <2>2, <2>5, <2>6 DEF Forgo, HasCause, RefreshRefused
  <2>7. CASE RotateFromBan(r)
    BY <2>5, <2>7 DEF RotateFromBan, MayRotate, HasCause, Recorded, Grave
  <2>8. CASE Rotate(r)
    <3>1. ~IsCapacityShortage(err[r]) /\ Fail(r, IsQuotaFailure(err[r]))
      BY <2>2, <2>8 DEF Rotate
    <3>2. a = using[r]
      <4>1. consecutive' = [consecutive EXCEPT ![using[r]] = Another(using[r])]
        BY <3>1 DEF Fail, RecordFailure
      <4> QED BY <1>h, <1>1, <4>1, OneCounts
    <3>3. stage[r] = "failed" /\ ~Blameless(err[r])
      BY <2>8, <3>1, RotatableIsNotBlameless DEF Rotate, MayRotate
    <3>4. CooledEarly(a) => IsQuotaFailure(err[r])
      <4>1. IsQuotaFailure(err[r]) \in BOOLEAN
        BY DEF IsQuotaFailure
      <4>2. present \subseteq Accounts
        BY DEF RotationInv, Typed, SetsTyped
      <4> QED BY <1>h, <3>1, <3>2, <4>1, <4>2, FailCoolsLate
    <3> QED BY <3>2, <3>3, <3>4 DEF HasCause, Recorded, Grave
  <2>9. CASE Surrender(r)
    <3>1. stage[r] = "failed" /\ IsStructural(err[r]) /\ Structural(r)
      BY <2>2, <2>9 DEF Surrender
    <3> QED BY <2>5, <3>1, StructuralIsNotBlameless DEF HasCause, Recorded, Grave
  <2>10. CASE GiveUp(r)
    <3>1. stage[r] = "giving up" /\ IsStructural(err[r]) /\ LateStructural(r, creds[r])
      BY <2>3, <2>10 DEF GiveUp
    <3>2. a = creds[r]
      BY <1>5, <3>1 DEF LateStructural
    <3> QED BY <3>1, <3>2, StructuralIsNotBlameless DEF HasCause, Recorded, Grave
  <2> QED BY <1>6, <2>1, <2>4, <2>6, <2>7, <2>8, <2>9, <2>10 DEF Advance
<1>7. ~Tick /\ ~(UNCHANGED rotationVars)
  BY <1>3 DEF PinsExpire, Tick, rotationVars, poolVars, health
<1> QED BY <1>6, <1>7 DEF RotationNext

-----------------------------------------------------------------------------
(* Theorems *)

(* The variables of the rotation keep their types: the counters stay below *)
(* the budgets of callAndHandle for any budgets.                           *)
THEOREM RotationTypeCorrect ==
  ASSUME PoolAssumption, RotationAssumption
  PROVE  RotationSpec => []RotationTypeOK
<1>1. RotationInit => RotationInv
  BY InitHolds
<1>2. RotationInv /\ [RotationNext]_rotationVars => RotationInv'
  BY NextHolds
<1>3. RotationInv => RotationTypeOK
  BY DEF RotationInv, LocalTyped, RotationTypeOK
<1> QED BY <1>1, <1>2, <1>3, PTL DEF RotationSpec

(* Requests that rotate do to the pool only what the pool allows, so they  *)
(* are an implementation of it.                                            *)
THEOREM RotationImplementsPool ==
  ASSUME PoolAssumption, RotationAssumption
  PROVE  RotationSpec => PoolSpec
<1>1. RotationInit => RotationInv /\ PoolInit
  BY InitHolds DEF RotationInit
<1>2. RotationInv /\ [RotationNext]_rotationVars => RotationInv'
  BY NextHolds
<1>3. RotationInv /\ [RotationNext]_rotationVars => [PoolNext]_poolVars
  BY PoolSteps
<1> QED BY <1>1, <1>2, <1>3, PTL DEF RotationSpec, PoolSpec

(* However the requests rotate, no pin outlives its account's service.     *)
THEOREM RotationPinsFollow ==
  ASSUME PoolAssumption, RotationAssumption
  PROVE  RotationSpec => []PinsFollowHealth
BY RotationImplementsPool, PinsFollow, PTL

(* No order of errors makes a request call upstream more often than its    *)
(* two attempts and the larger budget allow.                               *)
THEOREM CallsAreBounded ==
  ASSUME PoolAssumption, RotationAssumption
  PROVE  RotationSpec => []CallsBounded
<1>1. RotationInit => RotationInv
  BY InitHolds
<1>2. RotationInv /\ [RotationNext]_rotationVars => RotationInv'
  BY NextHolds
<1>3. RotationInv => CallsBounded
  <2>1. SUFFICES ASSUME RotationInv, NEW r \in Requests
                 PROVE  calls[r] <= 2 * (MaxRotations + 1)
    BY DEF CallsBounded
  <2>2. LocalTyped /\ Bounded(r)
    BY <2>1 DEF RotationInv, LoopInv
  <2> QED BY <2>2, Retries DEF LocalTyped, Bounded, Before
<1> QED BY <1>1, <1>2, <1>3, PTL DEF RotationSpec

(* No callAndHandle gets more accounts banned than MaxBans.                *)
THEOREM BansAreBounded ==
  ASSUME PoolAssumption, RotationAssumption
  PROVE  RotationSpec => []BansStopRotation
<1>1. RotationInit => RotationInv
  BY InitHolds
<1>2. RotationInv /\ [RotationNext]_rotationVars => RotationInv'
  BY NextHolds
<1>3. RotationInv => BansStopRotation
  BY DEF RotationInv, LoopInv, Counted, BansStopRotation
<1> QED BY <1>1, <1>2, <1>3, PTL DEF RotationSpec

(* Failures count for faults only, and one failure disables an account only *)
(* for a grave one: for every error upstream may answer with, in whatever  *)
(* order the requests meet them and whichever call records them.           *)
THEOREM OnlyFaultsAreBlamed ==
  ASSUME PoolAssumption, RotationAssumption
  PROVE  RotationSpec => OnlyFaultsCount
<1>1. RotationInit => RotationInv
  BY InitHolds
<1>2. RotationInv /\ [RotationNext]_rotationVars => RotationInv'
  BY NextHolds
<1>3. RotationInv /\ [RotationNext]_rotationVars => [BlamesForFault]_rotationVars
  BY BlameSteps
<1> QED BY <1>1, <1>2, <1>3, PTL DEF RotationSpec, OnlyFaultsCount

-----------------------------------------------------------------------------
(* Calls, answer by answer *)

Attempts == [endpoint : 1 .. Endpoints, renewed : BOOLEAN, error : Errors]

CallTyped ==
  /\ endpoint \in 1 .. Endpoints /\ attempt \in 0 .. MaxRetries /\ renewed \in BOOLEAN
  /\ phase \in {"running", "responded", "cancelled", "failed"}
  /\ seen \in Seq(Attempts)

(* Upstream has said at i that its quota has run out.                      *)
GoneAt(i) ==
  \E j \in DOMAIN seen : seen[j].endpoint = i /\ C!IsQuotaExhausted(seen[j].error)

(* A call goes to the next endpoint only when this one's quota is gone;    *)
(* it fails for a quota only at the last.                                  *)
QuotaInv ==
  /\ \A i \in 1 .. Endpoints : i < endpoint => GoneAt(i)
  /\ phase = "failed" =>
       /\ Len(seen) > 0
       /\ C!IsQuotaExhausted(seen[Len(seen)].error) =>
            endpoint = Endpoints /\ seen[Len(seen)].endpoint = Endpoints

(* The requests the call has made of upstream: all attempts at the         *)
(* endpoints before this one, at most, and those at this one.              *)
Room(i) == (i - 1) * (MaxRetries + 1)
Spent ==
  /\ Len(seen) <= Room(endpoint) + attempt + 1
  /\ phase = "running" => Len(seen) <= Room(endpoint) + attempt

CallInv == CallTyped /\ QuotaInv /\ Spent

LEMMA NoRoom == MessageCallAssumption => Room(1) = 0
BY DEF MessageCallAssumption, Room

LEMMA RoomGrows ==
  ASSUME MessageCallAssumption, NEW i \in Nat \ {0}
  PROVE  Room(i) \in Nat /\ Room(i + 1) = Room(i) + MaxRetries + 1
<1> DEFINE K == MaxRetries + 1
<1>1. K \in Nat /\ i - 1 \in Nat /\ MaxRetries \in Nat
  BY DEF MessageCallAssumption
<1> HIDE DEF K
<1>2. (i - 1) * K \in Nat /\ ((i + 1) - 1) * K = (i - 1) * K + K
  BY <1>1
<1> QED BY <1>1, <1>2 DEF K, Room

LEMMA RoomRises ==
  ASSUME MessageCallAssumption, NEW i \in Nat \ {0}, NEW j \in Nat, i <= j
  PROVE  Room(i) <= Room(j)
<1> DEFINE K == MaxRetries + 1
<1>1. K \in Nat /\ i - 1 \in Nat /\ j - i \in Nat
  BY DEF MessageCallAssumption
<1> HIDE DEF K
<1>2. /\ (j - 1) * K = (i - 1) * K + (j - i) * K
      /\ (j - i) * K \in Nat /\ (i - 1) * K \in Nat
  BY <1>1
<1>3. (i - 1) * K <= (j - 1) * K
  BY <1>2
<1> QED BY <1>3 DEF K, Room

LEMMA Logging ==
  ASSUME CallTyped, NEW e \in Errors, C!Logged(e)
  PROVE  /\ seen' \in Seq(Attempts)
         /\ Len(seen') = Len(seen) + 1 /\ Len(seen) \in Nat
         /\ seen'[Len(seen')] = [endpoint |-> endpoint, renewed |-> renewed, error |-> e]
         /\ \A i : GoneAt(i) => GoneAt(i)'
         /\ \A i : i = endpoint /\ C!IsQuotaExhausted(e) => GoneAt(i)'
<1> DEFINE new == [endpoint |-> endpoint, renewed |-> renewed, error |-> e]
<1>1. seen \in Seq(Attempts) /\ new \in Attempts /\ seen' = Append(seen, new)
  BY DEF CallTyped, Attempts, C!Logged
<1>2. new.endpoint = endpoint /\ new.error = e
  OBVIOUS
<1> HIDE DEF new
<1>3. /\ seen' \in Seq(Attempts) /\ Len(seen') = Len(seen) + 1 /\ Len(seen) \in Nat
      /\ seen'[Len(seen')] = new
      /\ \A j \in DOMAIN seen : j \in DOMAIN seen' /\ seen'[j] = seen[j]
      /\ Len(seen') \in DOMAIN seen'
  BY <1>1
<1>4. \A i : GoneAt(i) => GoneAt(i)'
  BY <1>3 DEF GoneAt
<1>5. \A i : i = endpoint /\ C!IsQuotaExhausted(e) => GoneAt(i)'
  BY <1>2, <1>3 DEF GoneAt
<1> QED BY <1>3, <1>4, <1>5 DEF new

-----------------------------------------------------------------------------
(* One call *)

LEMMA CallBegins ==
  ASSUME MessageCallAssumption
  PROVE  /\ C!CallInit => CallInv
         /\ NewCall => CallInv'
<1>1. Endpoints \in Nat \ {0} /\ MaxRetries \in Nat
  BY DEF MessageCallAssumption
<1>2. /\ 1 \in 1 .. Endpoints /\ 0 \in 0 .. MaxRetries /\ <<>> \in Seq(Attempts)
      /\ Len(<<>>) = 0 /\ Room(1) = 0
  BY <1>1, NoRoom
<1>3. ASSUME C!CallInit
      PROVE  CallInv
  <2>1. endpoint = 1 /\ attempt = 0 /\ renewed = FALSE /\ phase = "running" /\ seen = <<>>
    BY <1>3 DEF C!CallInit
  <2>2. CallTyped
    <3>1. renewed \in BOOLEAN /\ phase \in {"running", "responded", "cancelled", "failed"}
      BY <2>1
    <3>2. endpoint \in 1 .. Endpoints /\ attempt \in 0 .. MaxRetries /\ seen \in Seq(Attempts)
      BY <1>2, <2>1
    <3> QED BY <3>1, <3>2 DEF CallTyped
  <2>4. Spent
    <3>1. Room(endpoint) = Room(1)
      BY <2>1 DEF Room
    <3>2. Room(endpoint) = 0 /\ Len(seen) = 0 /\ attempt = 0
      BY <1>2, <2>1, <3>1
    <3> QED BY <3>2 DEF Spent
  <2>3. QuotaInv
    BY <1>1, <2>1 DEF QuotaInv
  <2> QED BY <2>2, <2>3, <2>4 DEF CallInv
<1>4. ASSUME NewCall
      PROVE  CallInv'
  <2>1. endpoint' = 1 /\ attempt' = 0 /\ renewed' = FALSE /\ phase' = "running" /\ seen' = <<>>
    BY <1>4 DEF NewCall
  <2>2. CallTyped'
    <3>1. renewed' \in BOOLEAN /\ phase' \in {"running", "responded", "cancelled", "failed"}
      BY <2>1
    <3>2. endpoint' \in 1 .. Endpoints /\ attempt' \in 0 .. MaxRetries /\ seen' \in Seq(Attempts)
      BY <1>2, <2>1
    <3> QED BY <3>1, <3>2 DEF CallTyped
  <2>4. Spent'
    <3>1. Room(endpoint)' = Room(1)
      BY <2>1 DEF Room
    <3>2. Room(endpoint)' = 0 /\ Len(seen)' = 0 /\ attempt' = 0
      BY <1>2, <2>1, <3>1
    <3> QED BY <3>2 DEF Spent
  <2>3. QuotaInv'
    BY <1>1, <2>1 DEF QuotaInv
  <2> QED BY <2>2, <2>3, <2>4 DEF CallInv
<1> QED BY <1>3, <1>4

(* The call keeps to what has been said of it, whoever answers it.         *)
LEMMA CallGoesOn ==
  ASSUME MessageCallAssumption, CallInv,
         NEW e \in Errors,
         C!Respond \/ C!Retry(e) \/ C!CancelRetry(e) \/ C!Renew(e) \/ C!FailOver(e) \/ C!GiveUp(e)
  PROVE  CallInv'
<1>1. Endpoints \in Nat \ {0} /\ MaxRetries \in Nat
  BY DEF MessageCallAssumption
<1>2. /\ endpoint \in 1 .. Endpoints /\ attempt \in 0 .. MaxRetries
      /\ Room(endpoint) \in Nat /\ Room(endpoint + 1) = Room(endpoint) + MaxRetries + 1
      /\ Len(seen) \in Nat
  <2>1. endpoint \in 1 .. Endpoints /\ endpoint \in Nat \ {0}
    BY <1>1 DEF CallInv, CallTyped
  <2>2. Room(endpoint) \in Nat /\ Room(endpoint + 1) = Room(endpoint) + MaxRetries + 1
    BY <2>1, RoomGrows
  <2> QED BY <2>1, <2>2 DEF CallInv, CallTyped
<1>3. CASE C!Respond
  BY <1>1, <1>2, <1>3 DEF C!Respond, C!Running, CallInv, CallTyped, QuotaInv, Spent, GoneAt
<1>4. CASE ~C!Respond
  <2>1. C!Logged(e) /\ phase = "running"
    BY <1>4 DEF C!Retry, C!CancelRetry, C!Renew, C!FailOver, C!GiveUp, C!Running
  <2>2. /\ seen' \in Seq(Attempts) /\ Len(seen') = Len(seen) + 1
        /\ seen'[Len(seen')] = [endpoint |-> endpoint, renewed |-> renewed, error |-> e]
        /\ \A i : GoneAt(i) => GoneAt(i)'
        /\ \A i : i = endpoint /\ C!IsQuotaExhausted(e) => GoneAt(i)'
    BY <2>1, Logging DEF CallInv
  <2>3. seen'[Len(seen')].endpoint = endpoint /\ seen'[Len(seen')].error = e
    BY <2>2
  <2>4. Len(seen) <= Room(endpoint) + attempt
    BY <2>1 DEF CallInv, Spent
  <2>5. CASE C!Retry(e) \/ C!Renew(e)
    <3>1. /\ attempt' = attempt + 1 /\ attempt < MaxRetries /\ endpoint' = endpoint
          /\ phase' = "running" /\ renewed' \in BOOLEAN
      BY <2>1, <2>5 DEF C!Retry, C!Renew, CallInv, CallTyped
    <3>2. CallTyped'
      BY <1>1, <1>2, <2>2, <3>1 DEF CallTyped
    <3>3. QuotaInv'
      BY <2>2, <3>1 DEF CallInv, QuotaInv
    <3>4. Spent'
      <4>1. Room(endpoint)' = Room(endpoint)
        BY <3>1 DEF Room
      <4> QED BY <1>2, <2>2, <2>4, <3>1, <4>1 DEF Spent
    <3> QED BY <3>2, <3>3, <3>4 DEF CallInv
  <2>6. CASE C!CancelRetry(e) \/ C!GiveUp(e)
    <3>1. /\ UNCHANGED <<endpoint, attempt, renewed>>
          /\ phase' = "cancelled" \/ (phase' = "failed" /\ C!GiveUp(e))
      BY <2>6 DEF C!CancelRetry, C!GiveUp
    <3>2. CallTyped'
      BY <2>2, <3>1 DEF CallInv, CallTyped
    <3>3. QuotaInv'
      BY <1>2, <2>2, <2>3, <3>1 DEF CallInv, QuotaInv, C!GiveUp
    <3>4. Spent'
      <4>1. Room(endpoint)' = Room(endpoint)
        BY <3>1 DEF Room
      <4> QED BY <1>2, <2>2, <2>4, <3>1, <4>1 DEF Spent
    <3> QED BY <3>2, <3>3, <3>4 DEF CallInv
  <2>7. CASE C!FailOver(e)
    <3>1. /\ endpoint' = endpoint + 1 /\ endpoint < Endpoints /\ attempt' = 0
          /\ renewed' = FALSE /\ phase' = "running" /\ C!IsQuotaExhausted(e)
      BY <2>1, <2>7 DEF C!FailOver
    <3>2. CallTyped'
      <4>1. endpoint' \in 1 .. Endpoints /\ attempt' \in 0 .. MaxRetries
        BY <1>1, <1>2, <3>1
      <4>2. renewed' \in BOOLEAN /\ phase' \in {"running", "responded", "cancelled", "failed"}
        BY <3>1
      <4> QED BY <2>2, <4>1, <4>2 DEF CallTyped
    <3>3. QuotaInv'
      <4>1. ASSUME NEW i \in 1 .. Endpoints, i < endpoint'
            PROVE  GoneAt(i)'
        <5>1. i < endpoint \/ i = endpoint
          BY <1>2, <3>1, <4>1
        <5> QED BY <2>2, <3>1, <5>1 DEF CallInv, QuotaInv
      <4> QED BY <3>1, <4>1 DEF QuotaInv
    <3>4. Spent'
      <4>1. Len(seen) + 1 <= Room(endpoint + 1)
        BY <1>1, <1>2, <2>4
      <4> QED BY <1>1, <1>2, <2>2, <3>1, <4>1 DEF Spent
    <3> QED BY <3>2, <3>3, <3>4 DEF CallInv
  <2> QED BY <1>4, <2>5, <2>6, <2>7
<1> QED BY <1>3, <1>4

LEMMA NothingSaid == UNCHANGED callVars /\ CallInv => CallInv'
BY DEF callVars, CallInv, CallTyped, QuotaInv, Spent, GoneAt

LEMMA MessageStep ==
  ASSUME MessageCallAssumption, CallInv, [MessageNext]_messageVars
  PROVE  CallInv' /\ [RotationNext]_rotationVars
<1>1. TheRequest \in Requests
  BY DEF MessageCallAssumption
<1>2. CASE Rotates
  BY <1>1, <1>2, NothingSaid DEF Rotates, RotationNext
<1>3. CASE Exchanges
  BY <1>3, CallGoesOn DEF Exchanges, MessageCallAssumption
<1>4. CASE Renews
  BY <1>1, <1>4, CallGoesOn DEF Renews, RotationNext
<1>5. CASE Fails
  <2>1. LastErrors \subseteq Errors
    <3>1. CASE phase = "failed"
      <4>1. Len(seen) > 0 /\ seen \in Seq(Attempts)
        BY <3>1 DEF CallInv, CallTyped, QuotaInv
      <4>2. seen[Len(seen)] \in Attempts
        BY <4>1
      <4> QED BY <3>1, <4>2 DEF Attempts, LastErrors
    <3>2. CASE phase = "cancelled"
      BY <3>2 DEF MessageCallAssumption, LastErrors
    <3> QED BY <1>5, <3>1, <3>2 DEF Fails
  <2> QED BY <1>1, <1>5, <2>1, CallBegins DEF Fails, RotationNext, Advance
<1>6. CASE Succeeds
  BY <1>1, <1>6, CallBegins DEF Succeeds, RotationNext, Advance
<1>7. CASE Tick /\ UNCHANGED <<local, callVars>>
  BY <1>7, NothingSaid DEF RotationNext
<1>8. CASE UNCHANGED messageVars
  BY <1>8, NothingSaid DEF messageVars
<1> QED BY <1>2, <1>3, <1>4, <1>5, <1>6, <1>7, <1>8 DEF MessageNext, Proceeds

-----------------------------------------------------------------------------
(* With the client's answers one by one in the place of the call's error   *)
(* the request remains one of Rotation (kiroclient's callWithRetry under   *)
(* executeWithRetry).                                                      *)
THEOREM MessageImplementsRotation ==
  ASSUME MessageCallAssumption
  PROVE  MessageSpec => RotationSpec
<1>1. MessageInit => RotationInit /\ CallInv
  BY CallBegins DEF MessageInit
<1>2. CallInv /\ [MessageNext]_messageVars => CallInv' /\ [RotationNext]_rotationVars
  BY MessageStep
<1> QED BY <1>1, <1>2, PTL DEF MessageSpec, RotationSpec

(* So it is bounded in its calls, gets no more than MaxBans accounts       *)
(* banned, and blames the guilty, whatever upstream answers.               *)
THEOREM MessageKeepsBounds ==
  ASSUME PoolAssumption, RotationAssumption, MessageCallAssumption
  PROVE  MessageSpec => []CallsBounded /\ []BansStopRotation /\ OnlyFaultsCount
BY MessageImplementsRotation, CallsAreBounded, BansAreBounded, OnlyFaultsAreBlamed, PTL

(* A call that fails because a quota has run out has found it gone at      *)
(* every endpoint, whatever the endpoints answered before that, however    *)
(* many requests and tokens it took (GenerateAssistantResponse).           *)
THEOREM QuotaIsGone ==
  ASSUME MessageCallAssumption
  PROVE  MessageSpec => []QuotaGoneEverywhere
<1>1. MessageInit => CallInv
  BY CallBegins DEF MessageInit
<1>2. CallInv /\ [MessageNext]_messageVars => CallInv'
  BY MessageStep
<1>3. CallInv => QuotaGoneEverywhere
  <2>1. SUFFICES ASSUME CallInv, phase = "failed", C!IsQuotaExhausted(seen[Len(seen)].error),
                        NEW i \in 1 .. Endpoints
                 PROVE  GoneAt(i)
    BY DEF QuotaGoneEverywhere, C!QuotaGoneEverywhere, GoneAt
  <2>2. endpoint = Endpoints /\ seen[Len(seen)].endpoint = Endpoints /\ Len(seen) > 0
    BY <2>1 DEF CallInv, QuotaInv
  <2>3. CASE i < endpoint
    BY <2>1, <2>3 DEF CallInv, QuotaInv
  <2>4. CASE i = endpoint
    <3>1. Len(seen) \in DOMAIN seen
      BY <2>2 DEF CallInv, CallTyped
    <3> QED BY <2>1, <2>2, <2>4, <3>1 DEF GoneAt
  <2> QED BY <2>2, <2>3, <2>4 DEF MessageCallAssumption
<1> QED BY <1>1, <1>2, <1>3, PTL DEF MessageSpec

(* No answers make one call send more requests than its attempts at each   *)
(* endpoint: a new token, too, is paid for with an attempt.                *)
THEOREM RequestsAreBounded ==
  ASSUME MessageCallAssumption
  PROVE  MessageSpec => [](Len(seen) <= Endpoints * (MaxRetries + 1))
<1>1. MessageInit => CallInv
  BY CallBegins DEF MessageInit
<1>2. CallInv /\ [MessageNext]_messageVars => CallInv'
  BY MessageStep
<1>3. CallInv => Len(seen) <= Endpoints * (MaxRetries + 1)
  <2>1. SUFFICES ASSUME CallInv
                 PROVE  Len(seen) <= Room(Endpoints + 1)
    BY DEF MessageCallAssumption, Room
  <2>2. /\ Endpoints \in Nat \ {0} /\ MaxRetries \in Nat
        /\ endpoint \in 1 .. Endpoints /\ attempt \in 0 .. MaxRetries /\ Len(seen) \in Nat
    BY <2>1 DEF MessageCallAssumption, CallInv, CallTyped
  <2>3. Room(endpoint) \in Nat /\ Room(endpoint + 1) = Room(endpoint) + MaxRetries + 1
    <3>1. endpoint \in Nat \ {0}
      BY <2>2
    <3> QED BY <3>1, RoomGrows
  <2>4. Len(seen) <= Room(endpoint + 1)
    BY <2>1, <2>2, <2>3 DEF CallInv, Spent
  <2>5. Room(endpoint + 1) <= Room(Endpoints + 1)
    <3>1. endpoint + 1 \in Nat \ {0} /\ Endpoints + 1 \in Nat /\ endpoint + 1 <= Endpoints + 1
      BY <2>2
    <3> QED BY <3>1, RoomRises
  <2>6. Room(Endpoints + 1) \in Nat
    <3>1. Endpoints + 1 \in Nat \ {0}
      BY <2>2
    <3> QED BY <3>1, RoomGrows
  <2> QED BY <2>2, <2>3, <2>4, <2>5, <2>6
<1> QED BY <1>1, <1>2, <1>3, PTL DEF MessageSpec

-----------------------------------------------------------------------------
(* Server *)

-----------------------------------------------------------------------------
(* The inductive invariant of the AuthManager *)

ManagerTyped ==
  /\ db \in M!Credentials
  /\ cached \in M!Credentials \cup {None}
  /\ grant \in M!Pairs /\ given \in M!Pairs
  /\ asking \in [Handlers -> {"idle", "missed", "waiting"}]
  /\ flight \in [step : {"none", "recheck", "read", "refresh", "answered"},
                 with : M!Credentials \cup {None}]
  /\ flight.step \in {"refresh", "answered"} => flight.with # None
  /\ cli \in M!Pairs \cup {None}

(* What of the pairs is p at most: all that callers were handed and may    *)
(* still be handed.                                                        *)
KnownUpTo(p) ==
  /\ given <= p
  /\ cached # None => cached.pair <= p
  /\ flight.with # None => flight.with.pair <= p

(* A pair kiro-cli has and has not written is newer than all kiroxy knows.  *)
Unwritten ==
  /\ KnownUpTo(grant) /\ db.pair <= grant
  /\ cli # None => cli = grant /\ grant > 0 /\ KnownUpTo(grant - 1) /\ db.pair < grant

(* Valid credentials in the database are as new as anything known: kiroxy  *)
(* gets newer ones only for expired ones, which only newer ones replace.   *)
DatabaseNewest ==
  /\ db.valid => KnownUpTo(db.pair)
  /\ flight.step = "refresh" =>
       flight.with.pair < db.pair \/ (flight.with.pair = db.pair /\ ~db.valid)

(* What a flight will hand out is as new as what is cached.                *)
FlightNewest ==
  flight.step = "answered" /\ cached # None => cached.pair <= flight.with.pair

ManagerInv == ManagerTyped /\ Unwritten /\ DatabaseNewest /\ FlightNewest /\ NeverOlder

LEMMA PairsAreNumbers ==
  ASSUME PoolAssumption, ServerAssumption
  PROVE  /\ M!Pairs \subseteq Nat /\ None \notin M!Pairs /\ None \notin M!Credentials
         /\ \A c \in M!Credentials : c.pair \in M!Pairs /\ c.valid \in BOOLEAN
         /\ \A p \in M!Pairs, v \in BOOLEAN : [pair |-> p, valid |-> v] \in M!Credentials
         /\ 0 \in M!Pairs
         /\ \A p \in M!Pairs : p < MaxGrant => p + 1 \in M!Pairs
  BY DEF PoolAssumption, ServerAssumption, M!Pairs, M!Credentials

LEMMA ManagerStarts ==
  ASSUME PoolAssumption, ServerAssumption, M!Init
  PROVE  ManagerInv
<1>1. db = [pair |-> 0, valid |-> db.valid] /\ db.valid \in BOOLEAN /\ db.pair = 0
  BY DEF M!Init
<1>2. ManagerTyped
  BY <1>1, PairsAreNumbers DEF M!Init, M!Ground, ManagerTyped
<1>3. KnownUpTo(0)
  BY DEF M!Init, M!Ground, KnownUpTo
<1> QED
  BY <1>1, <1>2, <1>3
  DEF M!Init, M!Ground, ManagerInv, Unwritten, DatabaseNewest, FlightNewest, NeverOlder,
      M!NeverOlder, M!Valid

(* The steps of callers: nothing changes but who waits, a cache that is    *)
(* dropped, and what is handed out of a valid cache.                       *)
LEMMA CallersKeep ==
  ASSUME PoolAssumption, ServerAssumption, ManagerInv,
         NEW c \in Handlers, M!GetToken(c) \/ M!Join(c) \/ M!InvalidateCache(c)
  PROVE  ManagerInv'
<1> USE PairsAreNumbers DEF ManagerInv
<1>1. CASE M!GetToken(c)
  <2>1. UNCHANGED <<db, cached, grant, flight, cli>>
    BY <1>1 DEF M!GetToken
  <2>2. CASE given' = given /\ asking' = [asking EXCEPT ![c] = "missed"]
    BY <2>1, <2>2
    DEF ManagerTyped, KnownUpTo, Unwritten, DatabaseNewest, FlightNewest, NeverOlder,
        M!NeverOlder, M!Valid
  <2>3. CASE M!Valid(cached) /\ given' = M!Newer(cached.pair, given) /\ asking' = asking
    <3>1. cached # None /\ cached \in M!Credentials /\ cached.pair \in Nat /\ given \in Nat
      BY <2>3 DEF M!Valid, ManagerTyped
    <3>2. given' = cached.pair
      BY <2>3, <3>1 DEF M!Newer, NeverOlder, M!NeverOlder
    <3>3. ManagerTyped'
      BY <2>1, <2>3, <3>1, <3>2 DEF ManagerTyped
    <3> QED
      BY <2>1, <3>1, <3>2, <3>3
      DEF KnownUpTo, Unwritten, DatabaseNewest, FlightNewest, NeverOlder, M!NeverOlder, M!Valid
  <2> QED BY <1>1, <2>2, <2>3 DEF M!GetToken
<1>2. CASE M!Join(c)
  <2>1. UNCHANGED <<db, cached, grant, cli, given>>
    BY <1>2 DEF M!Join
  <2>2. /\ flight'.with = flight.with
        /\ flight'.step \in {"refresh", "answered"} => flight' = flight
        /\ ManagerTyped'
    BY <1>2 DEF M!Join, M!Ground, ManagerTyped
  <2> QED
    BY <2>1, <2>2
    DEF KnownUpTo, Unwritten, DatabaseNewest, FlightNewest, NeverOlder, M!NeverOlder, M!Valid
<1>3. CASE M!InvalidateCache(c)
  BY <1>3
  DEF M!InvalidateCache, ManagerTyped, KnownUpTo, Unwritten, DatabaseNewest, FlightNewest,
      NeverOlder, M!NeverOlder, M!Valid
<1> QED BY <1>1, <1>2, <1>3

(* The steps of the flight.  Upstream grants a new pair only for the last  *)
(* one, which is then not what kiro-cli has still to write.                *)
LEMMA GrantedIsKnown ==
  ASSUME PoolAssumption, ServerAssumption, ManagerInv,
         flight.step = "refresh", flight.with.pair = grant
  PROVE  cli = None /\ ~db.valid /\ KnownUpTo(grant)
<1>1. flight.with # None /\ flight.with.pair \in Nat /\ db.pair \in Nat /\ grant \in Nat
  BY PairsAreNumbers DEF ManagerInv, ManagerTyped
<1> QED BY <1>1 DEF ManagerInv, Unwritten, KnownUpTo, DatabaseNewest

LEMMA RecheckKeeps ==
  ASSUME PoolAssumption, ServerAssumption, ManagerInv, M!Recheck
  PROVE  ManagerInv'
<1> USE PairsAreNumbers DEF ManagerInv
<1>1. UNCHANGED <<db, cached, grant, cli>>
  BY DEF M!Recheck
<1>2. CASE M!Valid(cached)
  <2>1. cached # None /\ cached \in M!Credentials /\ cached.pair \in Nat /\ given \in Nat
    BY <1>2 DEF M!Valid, ManagerTyped
  <2>2. flight' = M!Ground /\ asking' = M!Answer /\ given' = cached.pair
    BY <1>2, <2>1 DEF M!Recheck, M!Hand, M!Newer, NeverOlder, M!NeverOlder
  <2>3. ManagerTyped'
    BY <1>1, <2>1, <2>2 DEF ManagerTyped, M!Ground, M!Answer
  <2> QED
    BY <1>1, <2>1, <2>2, <2>3
    DEF KnownUpTo, Unwritten, DatabaseNewest, FlightNewest, NeverOlder, M!NeverOlder, M!Ground,
        M!Valid
<1>3. CASE ~M!Valid(cached)
  <2>1. UNCHANGED <<given, asking>> /\ flight' = [flight EXCEPT !.step = "read"]
    BY <1>3 DEF M!Recheck
  <2>2. flight'.with = flight.with /\ flight'.step = "read" /\ ManagerTyped'
    BY <1>1, <2>1 DEF ManagerTyped
  <2> QED
    BY <1>1, <2>1, <2>2
    DEF KnownUpTo, Unwritten, DatabaseNewest, FlightNewest, NeverOlder, M!NeverOlder, M!Valid
<1> QED BY <1>2, <1>3

LEMMA ReadFromDBKeeps ==
  ASSUME PoolAssumption, ServerAssumption, ManagerInv, M!ReadFromDB
  PROVE  ManagerInv'
<1> USE PairsAreNumbers DEF ManagerInv
<1>1. UNCHANGED <<db, cached, grant, cli, given>>
  BY DEF M!ReadFromDB, M!Fail
<1>2. db # None /\ db.pair \in Nat /\ grant \in Nat
  BY DEF ManagerTyped
<1>3. CASE M!Fail
  <2>1. flight' = M!Ground /\ asking' = M!Answer
    BY <1>3 DEF M!Fail
  <2>2. ManagerTyped'
    BY <1>1, <2>1 DEF ManagerTyped, M!Ground, M!Answer
  <2> QED
    BY <1>1, <2>1, <2>2
    DEF KnownUpTo, Unwritten, DatabaseNewest, FlightNewest, NeverOlder, M!NeverOlder, M!Ground,
        M!Valid
<1>4. CASE /\ flight' = [step |-> IF db.valid THEN "answered" ELSE "refresh", with |-> db]
           /\ asking' = asking
  <2>1. flight'.with = db /\ flight'.step = IF db.valid THEN "answered" ELSE "refresh"
    BY <1>4
  <2>2. ManagerTyped'
    BY <1>1, <1>2, <1>4 DEF ManagerTyped
  <2>3. Unwritten'
    BY <1>1, <1>2, <2>1 DEF Unwritten, KnownUpTo
  <2>4. DatabaseNewest'
    BY <1>1, <1>2, <2>1 DEF DatabaseNewest, KnownUpTo
  <2>5. FlightNewest' /\ NeverOlder'
    BY <1>1, <1>2, <2>1
    DEF DatabaseNewest, KnownUpTo, FlightNewest, NeverOlder, M!NeverOlder, M!Valid
  <2> QED BY <2>2, <2>3, <2>4, <2>5
<1> QED BY <1>2, <1>3, <1>4 DEF M!ReadFromDB, M!ReadCredentials

LEMMA GrantedKeeps ==
  ASSUME PoolAssumption, ServerAssumption, ManagerInv, M!Granted
  PROVE  ManagerInv'
<1> USE PairsAreNumbers DEF ManagerInv
<1>1. UNCHANGED <<db, cached, cli, asking, given>>
  BY DEF M!Granted
<1>2. cli = None /\ ~db.valid /\ KnownUpTo(grant)
  BY GrantedIsKnown DEF M!Granted
<1>3. PICK p \in {grant, grant + 1} \cap M!Pairs :
        grant' = p /\ flight' = [step |-> "answered", with |-> [pair |-> p, valid |-> TRUE]]
  BY DEF M!Granted
<1>4. p \in Nat /\ grant \in Nat /\ grant <= p /\ db.pair \in Nat /\ given \in Nat
  BY <1>3 DEF ManagerTyped
<1>5. [pair |-> p, valid |-> TRUE] \in M!Credentials
  BY <1>3
<1>6. ManagerTyped'
  BY <1>1, <1>3, <1>5 DEF ManagerTyped
<1>7. flight'.with.pair = p /\ flight'.step = "answered"
  BY <1>3
<1>8. cached # None => cached.pair \in Nat
  BY DEF ManagerTyped
<1> QED
  BY <1>1, <1>2, <1>3, <1>4, <1>6, <1>7, <1>8
  DEF KnownUpTo, Unwritten, DatabaseNewest, FlightNewest, NeverOlder, M!NeverOlder, M!Valid

LEMMA RefusedKeeps ==
  ASSUME PoolAssumption, ServerAssumption, ManagerInv, M!Refused
  PROVE  ManagerInv'
<1> USE PairsAreNumbers DEF ManagerInv
<1>1. /\ UNCHANGED <<db, cached, cli, given>>
      /\ flight' = M!Ground /\ asking' = M!Answer
  BY DEF M!Refused, M!Fail
<1>2. grant' = grant \/ (grant' = grant + 1 /\ grant < MaxGrant /\ cli = None)
  BY GrantedIsKnown DEF M!Refused
<1>3. ManagerTyped'
  BY <1>1, <1>2 DEF ManagerTyped, M!Ground, M!Answer
<1>4. /\ grant \in Nat /\ db.pair \in Nat /\ given \in Nat
      /\ cached # None => cached.pair \in Nat
  BY DEF ManagerTyped
<1> QED
  BY <1>1, <1>2, <1>3, <1>4
  DEF KnownUpTo, Unwritten, DatabaseNewest, FlightNewest, NeverOlder, M!NeverOlder, M!Ground,
      M!Valid

LEMMA CacheKeeps ==
  ASSUME PoolAssumption, ServerAssumption, ManagerInv, M!Cache
  PROVE  ManagerInv'
<1> USE PairsAreNumbers DEF ManagerInv
<1>1. /\ UNCHANGED <<db, grant, cli>>
      /\ cached' = flight.with /\ flight' = M!Ground /\ asking' = M!Answer
  BY DEF M!Cache, M!Hand
<1>2. /\ flight.with # None /\ flight.with \in M!Credentials
      /\ flight.with.pair \in Nat /\ given \in Nat
  BY DEF M!Cache, ManagerTyped
<1>3. given' = flight.with.pair
  BY <1>2 DEF M!Cache, M!Hand, M!Newer, NeverOlder, M!NeverOlder
<1>4. ManagerTyped'
  BY <1>1, <1>2, <1>3 DEF ManagerTyped, M!Ground, M!Answer
<1> QED
  BY <1>1, <1>2, <1>3, <1>4
  DEF KnownUpTo, Unwritten, DatabaseNewest, FlightNewest, NeverOlder, M!NeverOlder, M!Ground,
      M!Valid

(* kiro-cli and the clock.                                                 *)
LEMMA ElsewhereKeeps ==
  ASSUME PoolAssumption, ServerAssumption, ManagerInv,
         M!CliRefreshes \/ M!CliWrites \/ M!Expires
  PROVE  ManagerInv'
<1> USE PairsAreNumbers DEF ManagerInv
<1>1. /\ grant \in Nat /\ given \in Nat /\ db.pair \in Nat
      /\ cached # None => cached.pair \in Nat
      /\ flight.with # None => flight.with.pair \in Nat
  BY DEF ManagerTyped
<1>2. CASE M!CliRefreshes
  <2>1. /\ UNCHANGED <<db, cached, asking, flight, given>>
        /\ cli = None /\ cli' = grant + 1 /\ grant' = grant + 1 /\ grant + 1 \in M!Pairs
    BY <1>2 DEF M!CliRefreshes, ManagerTyped
  <2>2. ManagerTyped'
    BY <2>1 DEF ManagerTyped
  <2> QED
    BY <1>1, <2>1, <2>2
    DEF KnownUpTo, Unwritten, DatabaseNewest, FlightNewest, NeverOlder, M!NeverOlder, M!Valid
<1>3. CASE M!CliWrites
  <2>1. /\ UNCHANGED <<cached, grant, asking, flight, given>>
        /\ cli # None /\ cli' = None /\ db' = [pair |-> cli, valid |-> TRUE]
    BY <1>3 DEF M!CliWrites
  <2>2. ManagerTyped'
    BY <2>1 DEF ManagerTyped
  <2>3. cli = grant /\ db'.pair = grant /\ KnownUpTo(grant - 1) /\ grant > 0
    BY <2>1 DEF Unwritten
  <2>4. /\ given <= grant - 1
        /\ cached # None => cached.pair <= grant - 1
        /\ flight.with # None => flight.with.pair <= grant - 1
    BY <2>3 DEF KnownUpTo
  <2>5. Unwritten'
    BY <1>1, <2>1, <2>3, <2>4 DEF Unwritten, KnownUpTo
  <2>6. DatabaseNewest'
    BY <1>1, <2>1, <2>3, <2>4 DEF DatabaseNewest, KnownUpTo, ManagerTyped
  <2>7. FlightNewest' /\ NeverOlder'
    BY <2>1 DEF FlightNewest, NeverOlder, M!NeverOlder, M!Valid
  <2> QED BY <2>2, <2>5, <2>6, <2>7
<1>4. CASE M!Expires
  <2>1. UNCHANGED <<grant, asking, flight, cli, given>>
    BY <1>4 DEF M!Expires
  <2>2. CASE db' = [db EXCEPT !.valid = FALSE] /\ UNCHANGED cached
    <3>1. db' = [pair |-> db.pair, valid |-> FALSE] /\ db.pair \in M!Pairs
      BY <2>2 DEF ManagerTyped, M!Credentials
    <3>2. ManagerTyped'
      <4>1. db' \in M!Credentials
        BY <3>1
      <4> QED BY <2>1, <2>2, <4>1 DEF ManagerTyped
    <3> QED
      BY <1>1, <2>1, <2>2, <3>1, <3>2
      DEF KnownUpTo, Unwritten, DatabaseNewest, FlightNewest, NeverOlder, M!NeverOlder, M!Valid
  <2>3. CASE M!Valid(cached) /\ cached' = [cached EXCEPT !.valid = FALSE] /\ UNCHANGED db
    <3>1. /\ cached # None /\ cached.pair \in M!Pairs
          /\ cached' = [pair |-> cached.pair, valid |-> FALSE]
      BY <2>3 DEF ManagerTyped, M!Credentials, M!Valid
    <3>2. ManagerTyped' /\ cached' # None
      <4>1. cached' \in M!Credentials
        BY <3>1
      <4> QED BY <2>1, <2>3, <4>1 DEF ManagerTyped
    <3> QED
      BY <1>1, <2>1, <2>3, <3>1, <3>2
      DEF KnownUpTo, Unwritten, DatabaseNewest, FlightNewest, NeverOlder, M!NeverOlder, M!Valid
  <2> QED BY <1>4, <2>2, <2>3 DEF M!Expires
<1> QED BY <1>2, <1>3, <1>4

LEMMA ManagerStepKeeps ==
  ASSUME PoolAssumption, ServerAssumption, ManagerInv, [M!Next]_(M!vars)
  PROVE  ManagerInv'
<1>1. CASE UNCHANGED M!vars
  BY <1>1
  DEF M!vars, ManagerInv, ManagerTyped, KnownUpTo, Unwritten, DatabaseNewest, FlightNewest,
      NeverOlder, M!NeverOlder, M!Valid
<1> QED
  BY <1>1, CallersKeep, RecheckKeeps, ReadFromDBKeeps, GrantedKeeps, RefusedKeeps, CacheKeeps,
     ElsewhereKeeps
  DEF M!Next, M!Fly

-----------------------------------------------------------------------------
(* Which component a step of the process is of *)

LEMMA StepOfManager ==
  ASSUME [ServerNext]_serverVars
  PROVE  [M!Next]_(M!vars)
<1>1. CASE ServerNext
  <2>1. ASSUME NEW r \in Handlers, Arrive(r) \/ Leave(r)
        PROVE  UNCHANGED M!vars
    BY <2>1 DEF Arrive, Leave, manager, M!vars
  <2>2. CASE InVaultMode
    <3>1. ASSUME NEW r \in Handlers, UsePool(r)
          PROVE  UNCHANGED M!vars
      BY <3>1 DEF UsePool, manager, M!vars
    <3>2. CASE Passes \/ Ticker \/ PollerEnds \/ Clock
      BY <3>2 DEF Passes, BeginPass, PollNext, PollOne, Ticker, PollerEnds, Clock, manager, M!vars
    <3> QED BY <2>2, <3>1, <3>2 DEF InVaultMode
  <2>3. CASE InKiroCLIMode
    BY <2>3 DEF InKiroCLIMode, UseCredentials, Join, Fly, Elsewhere, M!Next
  <2>4. CASE Signal \/ ListenFails \/ Shutdown
    BY <2>4 DEF Signal, ListenFails, Shutdown, Drained, DrainTimesOut, PollerStopped, Exit, Moves,
                manager, M!vars
  <2> QED BY <1>1, <2>1, <2>2, <2>3, <2>4 DEF ServerNext
<1>2. CASE UNCHANGED serverVars
  BY <1>2 DEF serverVars, manager, M!vars
<1> QED BY <1>1, <1>2

(* The handlers and the poller do what requests of the pool do.            *)
LEMMA StepOfPool ==
  ASSUME PoolAssumption, ServerAssumption, Typed, [ServerNext]_serverVars
  PROVE  [PoolNext]_poolVars
<1>1. ThePoller \in Requests /\ Handlers \subseteq Requests /\ present \subseteq Accounts
  BY DEF ServerAssumption, Handlers, Typed, SetsTyped
<1>2. CASE ServerNext
  <2>1. ASSUME NEW r \in Handlers, Arrive(r) \/ Leave(r)
        PROVE  UNCHANGED poolVars
    BY <2>1, Zenon DEF Arrive, Leave
  <2>2. CASE InVaultMode
    <3>1. ASSUME NEW r \in Handlers, UsePool(r)
          PROVE  ServeNext
      BY <1>1, <3>1 DEF UsePool, ServeNext
    <3>2. CASE BeginPass \/ Ticker \/ PollerEnds
      BY <3>2 DEF BeginPass, Ticker, PollerEnds
    <3>3. CASE PollNext
      <4>1. UNCHANGED poolVars \/ \E a \in present : Poll(ThePoller, a)
        BY <3>3 DEF PollNext
      <4> QED BY <1>1, <4>1 DEF PoolNext, ServeNext
    <3>4. CASE PollOne
      BY <1>1, <3>4 DEF PollOne, GetUsageLimits, PoolNext, ServeNext, Record
    <3>5. CASE Clock
      BY <3>5 DEF Clock, PoolNext, ServeNext
    <3> QED BY <2>2, <3>1, <3>2, <3>3, <3>4, <3>5 DEF InVaultMode, Passes, PoolNext
  <2>3. CASE InKiroCLIMode
    BY <2>3 DEF InKiroCLIMode, UseCredentials, Join, Fly, Elsewhere
  <2>4. CASE Signal \/ ListenFails \/ Shutdown
    BY <2>4 DEF Signal, ListenFails, Shutdown, Drained, DrainTimesOut, PollerStopped, Exit, Moves
  <2> QED BY <1>2, <2>1, <2>2, <2>3, <2>4 DEF ServerNext
<1>3. CASE UNCHANGED serverVars
  BY <1>3 DEF serverVars
<1> QED BY <1>2, <1>3

-----------------------------------------------------------------------------
(* The end of the poller *)

(* The poller polls in a pass only; the vault is closed when it is done.   *)
PollerInv ==
  /\ poller # "pass" => ~Polling
  /\ process = "closing" => poller = "done"

LEMMA PollerStep ==
  ASSUME PoolAssumption, ServerAssumption, Typed, PollerInv, [ServerNext]_serverVars
  PROVE  PollerInv'
<1>t. FlowTyped /\ ThePoller \in Requests
  BY DEF Typed, ServerAssumption
<1>1. ASSUME UNCHANGED <<doing, poller, process>>
      PROVE  PollerInv'
  BY <1>1 DEF PollerInv, Polling
<1>2. CASE InVaultMode
  <2>1. ASSUME NEW r \in Handlers, UsePool(r)
        PROVE  PollerInv'
    <3>1. doing'[ThePoller] = doing[ThePoller]
      BY <1>t, <2>1, OthersGoOn DEF UsePool, Handlers
    <3> QED BY <2>1, <3>1 DEF UsePool, polling, PollerInv, Polling
  <2>2. CASE BeginPass
    BY <2>2 DEF BeginPass, poolVars, flow, PollerInv
  <2>3. CASE PollNext
    <3>1. process' = process /\ poller = "pass" /\ poller' \in {"pass", "select"}
      BY <2>3 DEF PollNext
    <3>2. poller' = "select" => doing' = doing /\ ~Polling
      BY <2>3 DEF PollNext, poolVars, flow
    <3> QED BY <3>1, <3>2 DEF PollerInv, Polling
  <2>4. CASE PollOne
    BY <2>4 DEF PollOne, polling, PollerInv
  <2>5. CASE Ticker \/ Clock
    BY <1>1, <2>5 DEF Ticker, Clock, Tick, polling, poolVars, flow
  <2>6. CASE PollerEnds
    BY <2>6 DEF PollerEnds, poolVars, flow, PollerInv, Polling
  <2> QED BY <1>2, <2>1, <2>2, <2>3, <2>4, <2>5, <2>6 DEF InVaultMode, Passes
<1>3. CASE (\E r \in Handlers : Arrive(r) \/ Leave(r)) \/ InKiroCLIMode
  BY <1>1, <1>3 DEF Arrive, Leave, InKiroCLIMode, UseCredentials, Join, Fly, Elsewhere, polling,
                    poolVars, flow
<1>4. CASE Signal \/ ListenFails \/ Shutdown
  BY <1>4 DEF Signal, ListenFails, Shutdown, Drained, DrainTimesOut, PollerStopped, Exit, Moves,
              polling, poolVars, flow, PollerInv, Polling
<1>5. CASE UNCHANGED serverVars
  BY <1>1, <1>5 DEF serverVars, polling, poolVars, flow
<1> QED BY <1>2, <1>3, <1>4, <1>5 DEF ServerNext

-----------------------------------------------------------------------------
(* The process uses the pool as the pool allows, whatever a signal leaves  *)
(* undone: handlers, poller and shutdown together implement it.            *)
THEOREM ServerImplementsPool ==
  ASSUME PoolAssumption, ServerAssumption
  PROVE  ServerSpec => PoolSpec
<1>1. ServerInit => PoolInit /\ Typed
  BY InitTyped DEF ServerInit
<1>2. Typed /\ [ServerNext]_serverVars => [PoolNext]_poolVars
  BY StepOfPool
<1>3. Typed /\ [PoolNext]_poolVars => Typed'
  BY NextTyped
<1> QED BY <1>1, <1>2, <1>3, PTL DEF ServerSpec, PoolSpec

(* So no pin outlives its account's service, and no blip costs a session   *)
(* its account, with the poller at work beside the handlers.               *)
THEOREM ServerKeepsPins ==
  ASSUME PoolAssumption, ServerAssumption
  PROVE  ServerSpec => []PinsFollowHealth /\ PinsOutliveBlips
BY ServerImplementsPool, PinsFollow, PinsOutlive, PTL

(* And it uses the AuthManager as its callers do.                          *)
THEOREM ServerImplementsAuthManager == ServerSpec => M!Spec
<1>1. ServerInit => M!Init
  BY DEF ServerInit
<1>2. [ServerNext]_serverVars => [M!Next]_(M!vars)
  BY StepOfManager
<1> QED BY <1>1, <1>2, PTL DEF ServerSpec, M!Spec

(* No caller is handed older credentials than a caller before it, however  *)
(* the cache, the invalidations after a 403, the flight, kiro-cli and the  *)
(* expiry of tokens interleave (refresh.go refreshCredentials).            *)
THEOREM CredentialsNeverAge ==
  ASSUME PoolAssumption, ServerAssumption
  PROVE  ServerSpec => []NeverOlder
<1>1. M!Init => ManagerInv
  BY ManagerStarts
<1>2. ManagerInv /\ [M!Next]_(M!vars) => ManagerInv'
  BY ManagerStepKeeps
<1>3. ManagerInv => NeverOlder
  BY DEF ManagerInv
<1>4. M!Spec => []NeverOlder
  BY <1>1, <1>2, <1>3, PTL DEF M!Spec
<1> QED BY <1>4, ServerImplementsAuthManager, PTL

(* awaitShutdown closes the vault after the poller's last step: no poll is *)
(* under way then that might still quarantine an account.                  *)
THEOREM VaultClosesLast ==
  ASSUME PoolAssumption, ServerAssumption
  PROVE  ServerSpec => [](process = "closing" => ~Polling)
<1>1. ServerInit => Typed /\ PollerInv
  BY InitTyped DEF ServerInit, PoolInit, PollerInv, Polling, ServerAssumption
<1>2. Typed /\ PollerInv /\ [ServerNext]_serverVars => (Typed /\ PollerInv)'
  BY PollerStep, StepOfPool, NextTyped
<1>3. PollerInv => (process = "closing" => ~Polling)
  BY DEF PollerInv
<1> QED BY <1>1, <1>2, <1>3, PTL DEF ServerSpec

=============================================================================
