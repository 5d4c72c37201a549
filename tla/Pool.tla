-------------------------------- MODULE Pool --------------------------------
(***************************************************************************)
(* The account pool of internal/pool: which account serves a request, how  *)
(* long a failing account rests, and which session is pinned to which      *)
(* account.  Requests are processes.  Pool.mu makes Pick and the first     *)
(* part of each Record* one step; the release of an account's pins comes   *)
(* after the unlock and is a step of its own.                              *)
(*                                                                         *)
(* Times are counted in ticks left: cooldown is what is left until         *)
(* CooldownUntil, rest until MinRestPeriod has passed since LastUsed, and  *)
(* pinTTL until the pin expires.  LastUsed itself is kept as an order.     *)
(* A pin that has expired is no pin, as every reader takes it; the pruner  *)
(* that frees its memory changes nothing else.                             *)
(*                                                                         *)
(* Of the weight of an account the model keeps what decides the draw: its  *)
(* ring of outcomes, which brings it to the floor when it has no success.  *)
(* Load, rate limits and credits only scale a weight, so they may make the *)
(* draw fall back on the LRU order, which a draw may yield as well.        *)
(***************************************************************************)
EXTENDS Integers, Sequences

CONSTANTS
  Accounts,
  Requests,
  Sessions,
  SessionOf,     \* SessionOf[r]: the session of r, or None without the header
  None,
  Threshold,     \* Policy.ConsecutiveErrorThreshold
  Short,         \* Policy.ShortCooldown
  Quota,         \* Policy.QuotaCooldown
  Overage,       \* the 30 s of an account with overage headroom
  MaxCooldown,   \* Policy.MaxCooldown
  Ban,           \* Policy.SuspiciousBanCooldown
  MinRest,       \* Policy.MinRestPeriod
  PinTTL,        \* Stickiness.ttl
  RingSize,      \* defaultRingSize
  MaxConsecutive \* bound: failures in a row are counted up to it

(* A zero MinRestPeriod disables the rest. *)
Policy ==
  /\ Threshold \in Nat \ {0}
  /\ Short \in Nat \ {0} /\ Quota \in Nat \ {0} /\ Overage \in Nat \ {0}
  /\ MaxCooldown \in Nat \ {0} /\ Ban \in Nat \ {0}
  /\ MinRest \in Nat

ASSUME PoolAssumption ==
  /\ None \notin Accounts \cup Sessions \cup Nat
  /\ SessionOf \in [Requests -> Sessions \cup {None}]
  /\ Policy
  /\ PinTTL \in Nat \ {0} /\ RingSize \in Nat \ {0}
  /\ MaxConsecutive \in Nat \ {0} /\ MaxConsecutive >= Threshold
  /\ Short * (MaxConsecutive - Threshold + 1) >= MaxCooldown

VARIABLES
  present,     \* the keys of Pool.accounts
  consecutive, \* HealthState.Consecutive
  cooldown,    \* ticks until CooldownUntil, or None if it is the zero time
  ring,        \* AccountHealth.successRing, oldest outcome first
  rest,        \* ticks until MinRestPeriod has passed
  later,       \* <<a, b>> : a.LastUsed is after b.LastUsed, or the zero time for None
  pin,         \* Stickiness.sessions
  pinTTL,
  doing,       \* doing[r]: "idle", "calling" or "polling" upstream, or "unpinning"
  using,       \* using[r]: the account the request's outcome is recorded for
  token,       \* token[r]: the account whose access token it holds
  missing      \* accounts that are not in the vault any more

health == <<consecutive, cooldown, ring>>
usage  == <<rest, later>>
pins   == <<pin, pinTTL>>
flow   == <<doing, using, token>>

poolVars == <<present, health, usage, pins, flow, missing>>

Outcomes(size) == UNION {[1 .. n -> BOOLEAN] : n \in 0 .. size}

PoolTypeOK ==
  /\ present \subseteq Accounts
  /\ consecutive \in [Accounts -> 0 .. MaxConsecutive]
  /\ cooldown \in [Accounts -> Nat \cup {None}]
  /\ ring \in [Accounts -> Outcomes(RingSize)]
  /\ rest \in [Accounts -> 0 .. MinRest]
  /\ later \subseteq Accounts \X (Accounts \cup {None})
  /\ pin \in [Sessions -> Accounts \cup {None}]
  /\ pinTTL \in [Sessions -> 0 .. PinTTL]
  /\ doing \in [Requests -> {"idle", "calling", "polling", "unpinning"}]
  /\ using \in [Requests -> Accounts \cup {None}]
  /\ token \in [Requests -> Accounts \cup {None}]
  /\ \A r \in Requests : doing[r] # "idle" <=> using[r] # None
  /\ missing \subseteq Accounts

(* Start-up registers the accounts of the vault and puts those whose ban   *)
(* has not passed through RecordStructuralError again (main.go).           *)
PoolInit ==
  /\ present = Accounts
  /\ \E banned \in SUBSET Accounts :
       /\ consecutive = [a \in Accounts |-> IF a \in banned THEN 1 ELSE 0]
       /\ cooldown = [a \in Accounts |-> IF a \in banned THEN Ban ELSE None]
  /\ ring = [a \in Accounts |-> <<>>]
  /\ rest = [a \in Accounts |-> 0]
  /\ later = {}
  /\ pin = [s \in Sessions |-> None]
  /\ pinTTL = [s \in Sessions |-> 0]
  /\ doing = [r \in Requests |-> "idle"]
  /\ using = [r \in Requests |-> None]
  /\ token = [r \in Requests |-> None]
  /\ missing = {}

-----------------------------------------------------------------------------
(* Choosing an account *)

(* CooldownUntil.After(now) *)
Cooling(a) == cooldown[a] # None /\ cooldown[a] # 0

(* Faulty: looks at no cooldown. *)
AvailableCooling == present

Available == {a \in present : ~Cooling(a)}

Candidates == {a \in Available : rest[a] = 0}

(* selectLRU: the map is scanned in any order, so ties may go either way. *)
Oldest == {a \in Candidates : \A b \in Candidates : <<a, b>> \notin later}

(* The weight of a is at the floor whatever else it depends on. *)
Floored(a) == ring[a] # <<>> /\ \A i \in DOMAIN ring[a] : ~ring[a][i]

(* selectWeighted: any candidate may be drawn, unless all are at the floor. *)
Drawn == IF \A a \in Candidates : Floored(a) THEN Oldest ELSE Candidates

Pinned(s) == pin[s] # None

(* Stickiness.Release *)
Unpinned(p, a) == [s \in Sessions |-> IF p[s] = a THEN None ELSE p[s]]

ReleasePins(a) == pin' = Unpinned(pin, a) /\ UNCHANGED pinTTL

(* Pick first forgets the failures of accounts whose cooldown has elapsed. *)
Decays(a) == a \in present /\ cooldown[a] = 0 /\ consecutive[a] > 0

Decay ==
  /\ consecutive' = [a \in Accounts |-> IF Decays(a) THEN 0 ELSE consecutive[a]]
  /\ cooldown' = [a \in Accounts |-> IF Decays(a) THEN None ELSE cooldown[a]]
  /\ UNCHANGED ring

(* vault.Get, then LastUsed: without the bundle the request has an error   *)
(* and the account's LastUsed stays.  A request that has an account picks  *)
(* again when upstream rejects its token, for the token only.              *)
Take(r, a) ==
  IF a \in missing
  THEN UNCHANGED <<usage, flow>>
  ELSE /\ rest' = [rest EXCEPT ![a] = MinRest]
       /\ later' = {p \in later : p[1] # a /\ p[2] # a}
                      \cup ({a} \X ((Accounts \cup {None}) \ {a}))
       /\ token' = [token EXCEPT ![r] = a]
       /\ IF doing[r] = "idle"
          THEN doing' = [doing EXCEPT ![r] = "calling"] /\ using' = [using EXCEPT ![r] = a]
          ELSE UNCHANGED <<doing, using>>

(* ErrNoAccount if there is none. *)
TakeOneOf(r, S) ==
  IF S = {} THEN UNCHANGED <<usage, flow>> ELSE \E a \in S : Take(r, a)

PickSessionless(r) ==
  /\ SessionOf[r] = None
  /\ TakeOneOf(r, Drawn)
  /\ UNCHANGED pins

(* The pinned account, however recently it was used. *)
PickPinned(r, s) ==
  /\ Pinned(s) /\ pin[s] \in Available
  /\ Take(r, pin[s])
  /\ UNCHANGED pins

(* The pin cannot be used: drop every pin to that account and take another *)
(* one, which is not pinned this time.                                     *)
PickMigrating(r, s) ==
  /\ Pinned(s) /\ pin[s] \notin Available
  /\ ReleasePins(pin[s])
  /\ TakeOneOf(r, Oldest)

PickPinning(r, s) ==
  /\ ~Pinned(s)
  /\ IF Oldest = {}
     THEN UNCHANGED <<usage, flow, pins>>
     ELSE \E a \in Oldest :
            /\ pin' = [pin EXCEPT ![s] = a]
            /\ pinTTL' = [pinTTL EXCEPT ![s] = PinTTL]
            /\ Take(r, a)

Pick(r) ==
  /\ doing[r] \in {"idle", "calling"}
  /\ Decay
  /\ \/ PickSessionless(r)
     \/ \E s \in Sessions :
          /\ SessionOf[r] = s
          /\ PickPinned(r, s) \/ PickMigrating(r, s) \/ PickPinning(r, s)
  /\ UNCHANGED <<present, missing>>

-----------------------------------------------------------------------------
(* Recording outcomes *)

(* pushOutcome: the oldest of size outcomes makes room. *)
Pushed(seq, size, outcome) ==
  IF size = 0 THEN <<>>
  ELSE Append(IF Len(seq) < size THEN seq ELSE Tail(seq), outcome)

Rests(r) ==
  /\ doing' = [doing EXCEPT ![r] = "idle"]
  /\ using' = [using EXCEPT ![r] = None]
  /\ token' = [token EXCEPT ![r] = None]

(* The call is over; with stick.Release still to come, or not. *)
Leaves(r, releases) ==
  IF releases
  THEN doing' = [doing EXCEPT ![r] = "unpinning"] /\ UNCHANGED <<using, token>>
  ELSE Rests(r)

(* A response: the handlers record its latency, which is not modelled, and *)
(* nothing calls RecordSuccess.                                            *)
Answer(r) ==
  /\ doing[r] = "calling"
  /\ Rests(r)
  /\ UNCHANGED <<present, health, usage, pins, missing>>

(* The failure is not the account's (a capacity shortage, a client that    *)
(* went away), the account has been removed, or this was a poll, which     *)
(* keeps its result in UsageLimits: the pool's record stays.               *)
Drop(r) ==
  /\ doing[r] \in {"calling", "polling"}
  /\ Rests(r)
  /\ UNCHANGED <<present, health, usage, pins, missing>>

(* Consecutive after one more failure. *)
Another(a) ==
  IF consecutive[a] < MaxConsecutive THEN consecutive[a] + 1 ELSE consecutive[a]

(* The cooldown a transient failure sets, given the new Consecutive. *)
Backoff(n) ==
  LET cool == Short * (n - Threshold + 1)
  IN IF cool > MaxCooldown THEN MaxCooldown ELSE cool

(* Consecutive has reached the threshold, or upstream named a quota. *)
Cools(r, quota) == quota \/ Another(using[r]) >= Threshold

RecordFailure(r, quota, releases) ==
  LET a == using[r]
  IN /\ doing[r] = "calling" /\ a \in present
     /\ consecutive' = [consecutive EXCEPT ![a] = Another(a)]
     /\ ring' = [ring EXCEPT ![a] = Pushed(@, RingSize, FALSE)]
     /\ \/ /\ quota
           /\ \E time \in {Quota, Overage} : cooldown' = [cooldown EXCEPT ![a] = time]
        \/ /\ ~quota /\ Cools(r, quota)
           /\ cooldown' = [cooldown EXCEPT ![a] = Backoff(Another(a))]
        \/ ~Cools(r, quota) /\ UNCHANGED cooldown
     /\ Leaves(r, releases)
     /\ UNCHANGED <<present, usage, pins, missing>>

(* Faulty: has set the cooldown before it looks whether there was one. *)
FailLate(r, quota) == RecordFailure(r, quota, FALSE)

(* Faulty: releases the pins of an account that is not cooling. *)
FailUnpinning(r, quota) == RecordFailure(r, quota, TRUE)

(* A quota failure cools the account at once, a transient one when it is   *)
(* one of several.  The pins are released only if it was not cooling yet.  *)
Fail(r, quota) ==
  RecordFailure(r, quota, Cools(r, quota) /\ ~Cooling(using[r]))

(* RecordUnauthorized and RecordStructuralError, by a request that leaves. *)
Quarantined(a, time) ==
  /\ a \in present
  /\ consecutive' = [consecutive EXCEPT ![a] = Another(a)]
  /\ cooldown' = [cooldown EXCEPT ![a] = time]
  /\ UNCHANGED <<present, ring, usage, pins, missing>>

Quarantine(r, time) ==
  /\ Quarantined(using[r], time)
  /\ Leaves(r, TRUE)

(* Upstream has refused the refresh token, of a request or of a poll. *)
Unauthorized(r) == doing[r] \in {"calling", "polling"} /\ Quarantine(r, MaxCooldown)

Structural(r) == doing[r] = "calling" /\ Quarantine(r, MaxCooldown)

Suspicious(r) == doing[r] = "calling" /\ Quarantine(r, Ban)

(* A rotation that ends without another account records its last error,    *)
(* structural too, a second time.                                          *)
LateStructural(r, a) ==
  /\ doing[r] = "idle"
  /\ Quarantined(a, MaxCooldown)
  /\ doing' = [doing EXCEPT ![r] = "unpinning"]
  /\ using' = [using EXCEPT ![r] = a]
  /\ UNCHANGED token

(* pollOne works on an account Pick has not chosen, cooling or not. *)
Poll(r, a) ==
  /\ doing[r] = "idle" /\ a \in present
  /\ doing' = [doing EXCEPT ![r] = "polling"]
  /\ using' = [using EXCEPT ![r] = a]
  /\ UNCHANGED <<token, present, health, usage, pins, missing>>

Unpin(r) ==
  /\ doing[r] = "unpinning"
  /\ ReleasePins(using[r])
  /\ Rests(r)
  /\ UNCHANGED <<present, health, usage, missing>>

-----------------------------------------------------------------------------
(* The operator and the clock *)

(* Pool.Remove, called by r: the account first, its pins after the unlock. *)
Remove(r, a) ==
  /\ doing[r] = "idle" /\ a \in present
  /\ present' = present \ {a}
  /\ doing' = [doing EXCEPT ![r] = "unpinning"]
  /\ using' = [using EXCEPT ![r] = a]
  /\ UNCHANGED <<token, health, usage, pins, missing>>

(* Pool.Add, of a new account or over one of the same id. *)
Add(a) ==
  /\ present' = present \cup {a}
  /\ consecutive' = [consecutive EXCEPT ![a] = 0]
  /\ cooldown' = [cooldown EXCEPT ![a] = None]
  /\ ring' = [ring EXCEPT ![a] = <<>>]
  /\ rest' = [rest EXCEPT ![a] = 0]
  /\ later' = {p \in later : p[1] # a /\ p[2] # a}
                \cup {<<b, a>> : b \in {x \in Accounts \ {a} : <<x, None>> \in later}}
  /\ UNCHANGED <<pins, flow, missing>>

(* The dashboard's "reset cooldowns". *)
ClearAllCooldowns ==
  /\ consecutive' = [a \in Accounts |-> IF a \in present THEN 0 ELSE consecutive[a]]
  /\ cooldown' = [a \in Accounts |-> IF a \in present THEN None ELSE cooldown[a]]
  /\ ring' = [a \in Accounts |-> IF a \in present THEN Pushed(ring[a], RingSize, TRUE) ELSE ring[a]]
  /\ UNCHANGED <<present, usage, pins, flow, missing>>

(* The remove-account command, in a process of its own. *)
RemoveFromVault(a) ==
  /\ a \notin missing
  /\ missing' = missing \cup {a}
  /\ UNCHANGED <<present, health, usage, pins, flow>>

Less(t) == IF t = 0 THEN 0 ELSE t - 1

(* prune *)
PinsExpire ==
  /\ pinTTL' = [s \in Sessions |-> Less(pinTTL[s])]
  /\ pin' = [s \in Sessions |-> IF pinTTL[s] <= 1 THEN None ELSE pin[s]]

Tick ==
  /\ cooldown' = [a \in Accounts |-> IF Cooling(a) THEN cooldown[a] - 1 ELSE cooldown[a]]
  /\ rest' = [a \in Accounts |-> Less(rest[a])]
  /\ PinsExpire
  /\ UNCHANGED <<present, consecutive, ring, later, flow, missing>>

-----------------------------------------------------------------------------
(* What TokenGetter passes on. *)
Record(r) ==
  \/ \E quota \in BOOLEAN : Fail(r, quota)
  \/ Unauthorized(r) \/ Structural(r) \/ Suspicious(r)

ServeNext ==
  \/ \E r \in Requests :
       \/ Pick(r) \/ Answer(r) \/ Drop(r) \/ Record(r) \/ Unpin(r)
       \/ \E a \in Accounts : Poll(r, a)
  \/ Tick

PoolNext ==
  \/ ServeNext
  \/ \E a \in Accounts : Add(a) \/ RemoveFromVault(a)
  \/ \E r \in Requests, a \in Accounts : Remove(r, a) \/ LateStructural(r, a)
  \/ ClearAllCooldowns

PoolSpec == PoolInit /\ [][PoolNext]_poolVars

-----------------------------------------------------------------------------
(* Properties *)

(* Some request has taken a out of service and has its pins to release. *)
Leaving(a) == \E r \in Requests : doing[r] = "unpinning" /\ using[r] = a

(* A session is pinned to a cooling or removed account only until the      *)
(* request that took the account out of service has released its pins: no  *)
(* order of failures, removals and picks leaves a pin behind (pool.go sets *)
(* the cooldown under p.mu and releases the pins after it).                *)
PinsFollowHealth ==
  \A s \in Sessions :
    Pinned(s) /\ pin[s] \notin Available => Leaving(pin[s])

PinsStay ==
  \A s \in Sessions :
    Pinned(s) /\ pin'[s] # pin[s] /\ pinTTL'[s] # 0 =>
      pin[s] \notin Available \/ Leaving(pin[s])

OnlyUnfitLeave ==
  \A r \in Requests :
    doing[r] # "unpinning" /\ doing'[r] = "unpinning" => using'[r] \notin Available'

(* A blip does not cost a session its account: a pin goes away before its  *)
(* time only with an account that cannot serve or that some request has    *)
(* taken out of service (RecordFailure releases pins only when the account *)
(* goes into cooldown).                                                    *)
PinsOutliveBlips == [][PinsStay /\ OnlyUnfitLeave]_poolVars

=============================================================================
