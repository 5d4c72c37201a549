----------------------------- MODULE Pool_proofs -----------------------------
(* Proofs about Pool, for every set of accounts, requests and sessions and *)
(* every policy.                                                           *)
EXTENDS Pool, TLAPS

-----------------------------------------------------------------------------
(* The type invariant by parts, each of variables that change together *)

HealthTyped ==
  /\ consecutive \in [Accounts -> 0 .. MaxConsecutive]
  /\ cooldown \in [Accounts -> Nat \cup {None}]
  /\ ring \in [Accounts -> Outcomes(RingSize)]

UsageTyped ==
  /\ rest \in [Accounts -> 0 .. MinRest]
  /\ later \subseteq Accounts \X (Accounts \cup {None})

PinsTyped ==
  /\ pin \in [Sessions -> Accounts \cup {None}]
  /\ pinTTL \in [Sessions -> 0 .. PinTTL]

FlowTyped ==
  /\ doing \in [Requests -> {"idle", "calling", "polling", "unpinning"}]
  /\ using \in [Requests -> Accounts \cup {None}]
  /\ token \in [Requests -> Accounts \cup {None}]
  /\ \A r \in Requests : doing[r] # "idle" <=> using[r] # None

SetsTyped ==
  /\ present \subseteq Accounts
  /\ missing \subseteq Accounts

Typed == HealthTyped /\ UsageTyped /\ PinsTyped /\ FlowTyped /\ SetsTyped

LEMMA TypedParts == PoolTypeOK <=> Typed
  BY DEF PoolTypeOK, Typed, HealthTyped, UsageTyped, PinsTyped, FlowTyped, SetsTyped

-----------------------------------------------------------------------------
(* What the operators return *)

(* The outcomes are the short sequences. *)
LEMMA OutcomesAreSequences ==
  ASSUME NEW size \in Nat
  PROVE  Outcomes(size) = {seq \in Seq(BOOLEAN) : Len(seq) <= size}
<1>1. ASSUME NEW seq \in Outcomes(size)
      PROVE  seq \in Seq(BOOLEAN) /\ Len(seq) <= size
  <2>1. PICK n \in 0 .. size : seq \in [1 .. n -> BOOLEAN]
    BY <1>1 DEF Outcomes
  <2> QED BY <2>1
<1>2. ASSUME NEW seq \in Seq(BOOLEAN), Len(seq) <= size
      PROVE  seq \in Outcomes(size)
  <2>1. Len(seq) \in 0 .. size /\ seq \in [1 .. Len(seq) -> BOOLEAN]
    BY <1>2
  <2> QED BY <2>1 DEF Outcomes
<1> QED BY <1>1, <1>2

LEMMA PushedIsBounded ==
  ASSUME NEW size \in Nat, NEW seq \in Outcomes(size), NEW outcome \in BOOLEAN
  PROVE  Pushed(seq, size, outcome) \in Outcomes(size)
<1>1. seq \in Seq(BOOLEAN) /\ Len(seq) <= size
  BY OutcomesAreSequences
<1>2. Pushed(seq, size, outcome) \in Seq(BOOLEAN) /\ Len(Pushed(seq, size, outcome)) <= size
  <2>1. CASE size = 0
    BY <2>1 DEF Pushed
  <2>2. CASE size # 0 /\ Len(seq) < size
    BY <1>1, <2>2 DEF Pushed
  <2>3. CASE size # 0 /\ Len(seq) = size
    <3>1. seq # <<>> /\ Tail(seq) \in Seq(BOOLEAN) /\ Len(Tail(seq)) = size - 1
      BY <1>1, <2>3
    <3>2. ~(Len(seq) < size) /\ size # 0
      BY <2>3
    <3>3. Pushed(seq, size, outcome) = Append(Tail(seq), outcome)
      BY <3>2, Zenon DEF Pushed
    <3>4. /\ Append(Tail(seq), outcome) \in Seq(BOOLEAN)
          /\ Len(Append(Tail(seq), outcome)) = size
      BY <3>1
    <3> QED BY <3>3, <3>4
  <2> QED BY <1>1, <2>1, <2>2, <2>3
<1> QED BY <1>2, OutcomesAreSequences

LEMMA NoOutcome ==
  ASSUME NEW size \in Nat
  PROVE  <<>> \in Outcomes(size)
<1>1. Outcomes(size) = {seq \in Seq(BOOLEAN) : Len(seq) <= size}
  BY OutcomesAreSequences
<1>2. <<>> \in {seq \in Seq(BOOLEAN) : Len(seq) <= size}
  OBVIOUS
<1> QED BY <1>1, <1>2

LEMMA AnotherIsCounted ==
  ASSUME PoolAssumption, HealthTyped, NEW a \in Accounts
  PROVE  Another(a) \in 0 .. MaxConsecutive
  BY DEF PoolAssumption, Policy, HealthTyped, Another

(* A cooldown that is set takes some time. *)
LEMMA BackoffTakesTime ==
  ASSUME PoolAssumption, NEW n \in Nat, n >= Threshold
  PROVE  Backoff(n) \in Nat \ {0}
<1>1. Threshold \in Nat /\ Short \in Nat \ {0} /\ MaxCooldown \in Nat \ {0}
  BY DEF PoolAssumption, Policy
<1>2. n - Threshold + 1 \in Nat \ {0}
  BY <1>1
<1>3. \A x, y \in Nat \ {0} : x * y \in Nat \ {0}
  OBVIOUS
<1>4. Short * (n - Threshold + 1) \in Nat \ {0}
  BY <1>1, <1>2, <1>3
<1> QED BY <1>1, <1>4 DEF Backoff

-----------------------------------------------------------------------------
(* Types *)

LEMMA InitTyped ==
  ASSUME PoolAssumption, PoolInit
  PROVE  Typed
<1>1. HealthTyped
  <2>1. RingSize \in Nat /\ MaxConsecutive \in Nat \ {0} /\ Ban \in Nat
    BY DEF PoolAssumption, Policy
  <2>2. <<>> \in Outcomes(RingSize)
    BY <2>1, NoOutcome
  <2> QED BY <2>1, <2>2 DEF PoolInit, HealthTyped
<1>2. UsageTyped /\ PinsTyped
  BY DEF PoolInit, PoolAssumption, Policy, UsageTyped, PinsTyped
<1>3. FlowTyped
  BY DEF PoolInit, FlowTyped
<1>4. SetsTyped
  BY DEF PoolInit, SetsTyped
<1> QED BY <1>1, <1>2, <1>3, <1>4 DEF Typed

LEMMA DecayTyped ==
  ASSUME PoolAssumption, HealthTyped, Decay
  PROVE  HealthTyped'
  BY DEF PoolAssumption, Policy, HealthTyped, Decay

LEMMA TakeTyped ==
  ASSUME PoolAssumption, UsageTyped, FlowTyped, NEW r \in Requests, NEW a \in Accounts,
         Take(r, a)
  PROVE  UsageTyped' /\ FlowTyped'
<1>1. CASE a \in missing
  BY <1>1 DEF Take, usage, flow, UsageTyped, FlowTyped
<1>2. CASE a \notin missing
  <2>1. UsageTyped'
    BY <1>2 DEF PoolAssumption, Policy, Take, UsageTyped
  <2>2. a # None
    BY DEF PoolAssumption, Policy
  <2>3. FlowTyped'
    <3>1. CASE doing[r] = "idle"
      BY <1>2, <2>2, <3>1 DEF Take, FlowTyped
    <3>2. CASE doing[r] # "idle"
      BY <1>2, <3>2 DEF Take, FlowTyped
    <3> QED BY <3>1, <3>2
  <2> QED BY <2>1, <2>3
<1> QED BY <1>1, <1>2

LEMMA TakeOneOfTyped ==
  ASSUME PoolAssumption, UsageTyped, FlowTyped, NEW r \in Requests,
         NEW S \in SUBSET Accounts, TakeOneOf(r, S)
  PROVE  UsageTyped' /\ FlowTyped'
<1>1. CASE S = {}
  BY <1>1 DEF TakeOneOf, usage, flow, UsageTyped, FlowTyped
<1>2. CASE S # {}
  <2>1. PICK a \in S : Take(r, a)
    BY <1>2 DEF TakeOneOf
  <2> QED BY <2>1, TakeTyped
<1> QED BY <1>1, <1>2

LEMMA Choices ==
  ASSUME SetsTyped
  PROVE  Available \subseteq Accounts /\ Oldest \subseteq Available /\ Drawn \subseteq Available
  BY DEF SetsTyped, Available, Candidates, Oldest, Drawn

LEMMA ReleaseTyped ==
  ASSUME PinsTyped, NEW a, ReleasePins(a)
  PROVE  PinsTyped'
  BY DEF PinsTyped, ReleasePins, Unpinned

LEMMA PickTyped ==
  ASSUME PoolAssumption, Typed, NEW r \in Requests, Pick(r)
  PROVE  Typed'
<1>t. HealthTyped /\ UsageTyped /\ PinsTyped /\ FlowTyped /\ SetsTyped
  BY DEF Typed
<1>c. Available \subseteq Accounts /\ Oldest \subseteq Accounts /\ Drawn \subseteq Accounts
  BY <1>t, Choices
<1>1. HealthTyped'
  BY <1>t, DecayTyped DEF Pick
<1>2. SetsTyped'
  BY <1>t DEF Pick, SetsTyped
<1>3. UsageTyped' /\ PinsTyped' /\ FlowTyped'
  <2>1. CASE PickSessionless(r)
    <3>1. TakeOneOf(r, Drawn) /\ UNCHANGED pins
      BY <2>1 DEF PickSessionless
    <3>2. UsageTyped' /\ FlowTyped'
      BY <1>t, <1>c, <3>1, TakeOneOfTyped
    <3> QED BY <1>t, <3>1, <3>2 DEF pins, PinsTyped
  <2>2. ASSUME NEW s \in Sessions, PickPinned(r, s)
        PROVE  UsageTyped' /\ PinsTyped' /\ FlowTyped'
    <3>1. pin[s] \in Accounts /\ Take(r, pin[s]) /\ UNCHANGED pins
      BY <2>2, <1>c DEF PickPinned
    <3>2. UsageTyped' /\ FlowTyped'
      BY <1>t, <3>1, TakeTyped
    <3> QED BY <1>t, <3>1, <3>2 DEF pins, PinsTyped
  <2>3. ASSUME NEW s \in Sessions, PickMigrating(r, s)
        PROVE  UsageTyped' /\ PinsTyped' /\ FlowTyped'
    BY <1>t, <1>c, <2>3, TakeOneOfTyped, ReleaseTyped DEF PickMigrating
  <2>4. ASSUME NEW s \in Sessions, PickPinning(r, s)
        PROVE  UsageTyped' /\ PinsTyped' /\ FlowTyped'
    <3>1. CASE Oldest = {}
      BY <1>t, <2>4, <3>1 DEF PickPinning, usage, flow, pins, UsageTyped, PinsTyped, FlowTyped
    <3>2. CASE Oldest # {}
      <4>1. PICK a \in Oldest : /\ pin' = [pin EXCEPT ![s] = a]
                                /\ pinTTL' = [pinTTL EXCEPT ![s] = PinTTL]
                                /\ Take(r, a)
        BY <2>4, <3>2 DEF PickPinning
      <4>2. a \in Accounts
        BY <1>c
      <4>3. UsageTyped' /\ FlowTyped'
        BY <1>t, <4>1, <4>2, TakeTyped
      <4>4. PinsTyped'
        BY <1>t, <4>1, <4>2 DEF PinsTyped, PoolAssumption, Policy
      <4> QED BY <4>3, <4>4
    <3> QED BY <3>1, <3>2
  <2> QED BY <2>1, <2>2, <2>3, <2>4 DEF Pick
<1> QED BY <1>1, <1>2, <1>3 DEF Typed

LEMMA LeavesTyped ==
  ASSUME FlowTyped, NEW r \in Requests, doing[r] # "idle", NEW releases \in BOOLEAN,
         Leaves(r, releases)
  PROVE  FlowTyped'
<1>1. CASE releases
  <2>1. doing' = [doing EXCEPT ![r] = "unpinning"] /\ using' = using /\ token' = token
    BY <1>1 DEF Leaves
  <2> QED BY <2>1 DEF FlowTyped
<1>2. CASE ~releases
  <2>1. /\ doing' = [doing EXCEPT ![r] = "idle"]
        /\ using' = [using EXCEPT ![r] = None]
        /\ token' = [token EXCEPT ![r] = None]
    BY <1>2 DEF Leaves, Rests
  <2> QED BY <2>1 DEF FlowTyped
<1> QED BY <1>1, <1>2

LEMMA FailureTyped ==
  ASSUME PoolAssumption, Typed, NEW r \in Requests, NEW quota \in BOOLEAN,
         NEW releases \in BOOLEAN, RecordFailure(r, quota, releases)
  PROVE  Typed'
<1> DEFINE a == using[r]
<1>t. HealthTyped /\ UsageTyped /\ PinsTyped /\ FlowTyped /\ SetsTyped
  BY DEF Typed
<1>a. a \in Accounts /\ doing[r] # "idle"
  BY <1>t DEF RecordFailure, SetsTyped
<1>1. HealthTyped'
  <2>1. consecutive' \in [Accounts -> 0 .. MaxConsecutive]
    BY <1>t, <1>a, AnotherIsCounted DEF RecordFailure, HealthTyped
  <2>2. ring' \in [Accounts -> Outcomes(RingSize)]
    <3>1. RingSize \in Nat /\ ring[a] \in Outcomes(RingSize)
      BY <1>t, <1>a DEF PoolAssumption, Policy, HealthTyped
    <3>2. Pushed(ring[a], RingSize, FALSE) \in Outcomes(RingSize)
      BY <3>1, PushedIsBounded
    <3> QED BY <1>t, <3>2 DEF RecordFailure, HealthTyped
  <2>3. cooldown' \in [Accounts -> Nat \cup {None}]
    <3>1. Another(a) \in Nat
      BY <1>t, <1>a, AnotherIsCounted DEF PoolAssumption, Policy
    <3>2. Another(a) >= Threshold => Backoff(Another(a)) \in Nat
      BY <3>1, BackoffTakesTime
    <3>3. Quota \in Nat /\ Overage \in Nat
      BY DEF PoolAssumption, Policy
    <3>4. cooldown \in [Accounts -> Nat \cup {None}]
      BY <1>t DEF HealthTyped
    <3>5. CASE \E time \in {Quota, Overage} : cooldown' = [cooldown EXCEPT ![a] = time]
      BY <3>3, <3>4, <3>5
    <3>6. CASE Cools(r, quota) /\ ~quota /\ cooldown' = [cooldown EXCEPT ![a] = Backoff(Another(a))]
      BY <3>2, <3>4, <3>6 DEF Cools
    <3>7. CASE cooldown' = cooldown
      BY <3>4, <3>7
    <3> QED BY <3>5, <3>6, <3>7 DEF RecordFailure
  <2> QED BY <2>1, <2>2, <2>3 DEF HealthTyped
<1>2. UsageTyped' /\ PinsTyped'
  BY <1>t DEF RecordFailure, usage, pins, UsageTyped, PinsTyped
<1>3. FlowTyped'
  BY <1>t, <1>a, LeavesTyped DEF RecordFailure
<1>4. SetsTyped'
  BY <1>t, <1>a DEF RecordFailure, SetsTyped
<1> QED BY <1>1, <1>2, <1>3, <1>4 DEF Typed

LEMMA QuarantineTyped ==
  ASSUME PoolAssumption, Typed, NEW r \in Requests, doing[r] # "idle", NEW time \in Nat,
         Quarantine(r, time)
  PROVE  Typed'
<1> DEFINE a == using[r]
<1>t. HealthTyped /\ UsageTyped /\ PinsTyped /\ FlowTyped /\ SetsTyped
  BY DEF Typed
<1>a. a \in Accounts
  BY <1>t DEF Quarantine, Quarantined, SetsTyped
<1>1. HealthTyped'
  BY <1>t, <1>a, AnotherIsCounted DEF Quarantine, Quarantined, HealthTyped
<1>2. UsageTyped' /\ PinsTyped'
  BY <1>t DEF Quarantine, Quarantined, usage, pins, UsageTyped, PinsTyped
<1>3. FlowTyped'
  BY <1>t, <1>a, LeavesTyped DEF Quarantine
<1>4. SetsTyped'
  BY <1>t, <1>a DEF Quarantine, Quarantined, SetsTyped
<1> QED BY <1>1, <1>2, <1>3, <1>4 DEF Typed

(* A request ends and leaves the account's health alone. *)
LEMMA RestsTyped ==
  ASSUME FlowTyped, NEW r \in Requests, Rests(r)
  PROVE  FlowTyped'
  BY DEF FlowTyped, Rests

LEMMA AddTyped ==
  ASSUME PoolAssumption, Typed, NEW a \in Accounts, Add(a)
  PROVE  Typed'
<1>t. HealthTyped /\ UsageTyped /\ PinsTyped /\ FlowTyped /\ SetsTyped
  BY DEF Typed
<1>1. HealthTyped'
  <2>1. <<>> \in Outcomes(RingSize) /\ MaxConsecutive \in Nat
    BY NoOutcome DEF PoolAssumption, Policy
  <2> QED BY <1>t, <2>1 DEF Add, HealthTyped
<1>2. UsageTyped'
  <2>1. rest' \in [Accounts -> 0 .. MinRest]
    BY <1>t DEF Add, UsageTyped, PoolAssumption, Policy
  <2>2. {p \in later : p[1] # a /\ p[2] # a} \subseteq Accounts \X (Accounts \cup {None})
    BY <1>t DEF UsageTyped
  <2>3. {<<b, a>> : b \in {x \in Accounts \ {a} : <<x, None>> \in later}}
          \subseteq Accounts \X (Accounts \cup {None})
    <3>1. {x \in Accounts \ {a} : <<x, None>> \in later} \subseteq Accounts
      OBVIOUS
    <3>2. \A b \in Accounts : <<b, a>> \in Accounts \X (Accounts \cup {None})
      OBVIOUS
    <3> QED BY <3>1, <3>2, Zenon
  <2> QED BY <2>1, <2>2, <2>3 DEF Add, UsageTyped
<1>3. PinsTyped' /\ FlowTyped' /\ SetsTyped'
  BY <1>t DEF Add, pins, flow, PinsTyped, FlowTyped, SetsTyped
<1> QED BY <1>1, <1>2, <1>3 DEF Typed

LEMMA ClearTyped ==
  ASSUME PoolAssumption, Typed, ClearAllCooldowns
  PROVE  Typed'
<1>t. HealthTyped /\ UsageTyped /\ PinsTyped /\ FlowTyped /\ SetsTyped
  BY DEF Typed
<1>1. HealthTyped'
  <2>1. RingSize \in Nat /\ MaxConsecutive \in Nat
    BY DEF PoolAssumption, Policy
  <2>2. \A a \in Accounts : Pushed(ring[a], RingSize, TRUE) \in Outcomes(RingSize)
    BY <1>t, <2>1, PushedIsBounded DEF HealthTyped
  <2>3. ring' \in [Accounts -> Outcomes(RingSize)]
    BY <1>t, <2>2 DEF ClearAllCooldowns, HealthTyped
  <2>4. consecutive' \in [Accounts -> 0 .. MaxConsecutive]
    BY <1>t, <2>1 DEF ClearAllCooldowns, HealthTyped
  <2>5. cooldown' \in [Accounts -> Nat \cup {None}]
    BY <1>t DEF ClearAllCooldowns, HealthTyped
  <2> QED BY <2>3, <2>4, <2>5 DEF HealthTyped
<1>2. UsageTyped' /\ PinsTyped' /\ FlowTyped' /\ SetsTyped'
  BY <1>t DEF ClearAllCooldowns, usage, pins, flow, UsageTyped, PinsTyped, FlowTyped, SetsTyped
<1> QED BY <1>1, <1>2 DEF Typed

LEMMA TickTyped ==
  ASSUME PoolAssumption, Typed, Tick
  PROVE  Typed'
<1>t. HealthTyped /\ UsageTyped /\ PinsTyped /\ FlowTyped /\ SetsTyped
  BY DEF Typed
<1>1. HealthTyped'
  BY <1>t DEF PinsExpire, Tick, HealthTyped, Cooling
<1>2. UsageTyped' /\ PinsTyped'
  <2>1. UsageTyped'
    BY <1>t DEF PoolAssumption, Policy, PinsExpire, Tick, Less, UsageTyped
  <2>2. pin' \in [Sessions -> Accounts \cup {None}]
    BY <1>t DEF PinsExpire, Tick, PinsTyped
  <2>3. pinTTL' \in [Sessions -> 0 .. PinTTL]
    BY <1>t DEF PoolAssumption, PinsExpire, Tick, Less, PinsTyped
  <2> QED BY <2>1, <2>2, <2>3 DEF PinsTyped
<1>3. FlowTyped' /\ SetsTyped'
  BY <1>t DEF PinsExpire, Tick, flow, FlowTyped, SetsTyped
<1> QED BY <1>1, <1>2, <1>3 DEF Typed

LEMMA NextTyped ==
  ASSUME PoolAssumption, Typed, [PoolNext]_poolVars
  PROVE  Typed'
<1>t. HealthTyped /\ UsageTyped /\ PinsTyped /\ FlowTyped /\ SetsTyped
  BY DEF Typed
<1>n. MaxCooldown \in Nat /\ Ban \in Nat
  BY DEF PoolAssumption, Policy
<1>1. ASSUME NEW r \in Requests, Pick(r)
      PROVE  Typed'
  BY <1>1, PickTyped
<1>2. ASSUME NEW r \in Requests, Answer(r)
      PROVE  Typed'
  <2>1. FlowTyped'
    BY <1>t, <1>2, RestsTyped DEF Answer
  <2>2. SetsTyped'
    BY <1>t, <1>2 DEF Answer, SetsTyped
  <2> QED BY <1>t, <1>2, <2>1, <2>2
          DEF Answer, Typed, health, usage, pins, HealthTyped, UsageTyped, PinsTyped
<1>3. ASSUME NEW r \in Requests, Drop(r)
      PROVE  Typed'
  <2>1. FlowTyped'
    BY <1>t, <1>3, RestsTyped DEF Drop
  <2> QED BY <1>t, <1>3, <2>1
          DEF Drop, Typed, health, usage, pins, HealthTyped, UsageTyped, PinsTyped, SetsTyped
<1>4. ASSUME NEW r \in Requests, Record(r)
      PROVE  Typed'
  <2>1. ASSUME NEW quota \in BOOLEAN, Fail(r, quota)
        PROVE  Typed'
    <3>1. (Cools(r, quota) /\ ~Cooling(using[r])) \in BOOLEAN
      OBVIOUS
    <3> QED BY <2>1, <3>1, FailureTyped DEF Fail
  <2>2. CASE Unauthorized(r)
    BY <1>n, <2>2, QuarantineTyped DEF Unauthorized
  <2>3. CASE Structural(r)
    BY <1>n, <2>3, QuarantineTyped DEF Structural
  <2>4. CASE Suspicious(r)
    BY <1>n, <2>4, QuarantineTyped DEF Suspicious
  <2> QED BY <1>4, <2>1, <2>2, <2>3, <2>4 DEF Record
<1>5. ASSUME NEW r \in Requests, Unpin(r)
      PROVE  Typed'
  <2>1. FlowTyped' /\ PinsTyped'
    BY <1>t, <1>5, RestsTyped, ReleaseTyped DEF Unpin
  <2> QED BY <1>t, <1>5, <2>1
          DEF Unpin, Typed, health, usage, HealthTyped, UsageTyped, SetsTyped
<1>6. ASSUME NEW r \in Requests, NEW a \in Accounts, Poll(r, a) \/ Remove(r, a)
      PROVE  Typed'
  <2>1. a # None
    BY DEF PoolAssumption, Policy
  <2>2. FlowTyped'
    BY <1>t, <1>6, <2>1 DEF Poll, Remove, FlowTyped
  <2> QED BY <1>t, <1>6, <2>2
          DEF Poll, Remove, Typed, health, usage, pins, HealthTyped, UsageTyped, PinsTyped, SetsTyped
<1>10. ASSUME NEW r \in Requests, NEW a \in Accounts, LateStructural(r, a)
       PROVE  Typed'
  <2>1. a # None
    BY DEF PoolAssumption, Policy
  <2>2. HealthTyped'
    BY <1>t, <1>n, <1>10, AnotherIsCounted DEF LateStructural, Quarantined, HealthTyped
  <2>3. FlowTyped'
    BY <1>t, <1>10, <2>1 DEF LateStructural, FlowTyped
  <2> QED BY <1>t, <1>10, <2>2, <2>3
          DEF LateStructural, Quarantined, Typed, usage, pins, UsageTyped, PinsTyped, SetsTyped
<1>7. CASE Tick
  BY <1>7, TickTyped
<1>8. ASSUME NEW a \in Accounts, RemoveFromVault(a)
      PROVE  Typed'
  BY <1>t, <1>8 DEF RemoveFromVault, Typed, health, usage, pins, flow, HealthTyped, UsageTyped,
                    PinsTyped, FlowTyped, SetsTyped
<1>9. CASE UNCHANGED poolVars
  BY <1>t, <1>9 DEF poolVars, Typed, health, usage, pins, flow, HealthTyped, UsageTyped,
                    PinsTyped, FlowTyped, SetsTyped
<1> QED BY <1>1, <1>2, <1>3, <1>4, <1>5, <1>6, <1>7, <1>8, <1>9, <1>10, AddTyped, ClearTyped
        DEF PoolNext, ServeNext

(* What a request does is seen in what no other request does.              *)
LEMMA OthersGoOn ==
  ASSUME FlowTyped, NEW r \in Requests, NEW q \in Requests \ {r},
         \/ Pick(r) \/ Answer(r) \/ Drop(r) \/ Record(r) \/ Unpin(r)
         \/ \E a \in Accounts : LateStructural(r, a)
  PROVE  doing'[q] = doing[q]
<1>1. ASSUME NEW S, TakeOneOf(r, S) \/ (\E a \in S : Take(r, a))
      PROVE  doing'[q] = doing[q]
  BY <1>1 DEF TakeOneOf, Take, flow, FlowTyped
<1>2. ASSUME Pick(r)
      PROVE  doing'[q] = doing[q]
  <2>1. CASE PickSessionless(r)
    BY <1>1, <2>1 DEF PickSessionless
  <2>2. ASSUME NEW s \in Sessions, PickPinned(r, s)
        PROVE  doing'[q] = doing[q]
    <3>1. \E a \in {pin[s]} : Take(r, a)
      BY <2>2 DEF PickPinned
    <3> QED BY <1>1, <3>1
  <2>3. ASSUME NEW s \in Sessions, PickMigrating(r, s)
        PROVE  doing'[q] = doing[q]
    BY <1>1, <2>3 DEF PickMigrating
  <2>4. ASSUME NEW s \in Sessions, PickPinning(r, s)
        PROVE  doing'[q] = doing[q]
    <3>1. CASE Oldest = {}
      BY <2>4, <3>1 DEF PickPinning, flow
    <3>2. CASE Oldest # {}
      <4>1. \E a \in Oldest : Take(r, a)
        BY <2>4, <3>2 DEF PickPinning
      <4> QED BY <1>1, <4>1
    <3> QED BY <3>1, <3>2
  <2> QED BY <1>2, <2>1, <2>2, <2>3, <2>4 DEF Pick
<1>3. ASSUME Rests(r) \/ (\E b \in BOOLEAN : Leaves(r, b))
      PROVE  doing'[q] = doing[q]
  BY <1>3 DEF Rests, Leaves, FlowTyped
<1>4. Drop(r) \/ Answer(r) \/ Unpin(r) => doing'[q] = doing[q]
  BY <1>3 DEF Drop, Answer, Unpin
<1>5. Unauthorized(r) \/ Structural(r) \/ Suspicious(r) => doing'[q] = doing[q]
  BY <1>3 DEF Unauthorized, Structural, Suspicious, Quarantine
<1>6. ASSUME NEW quota \in BOOLEAN, Fail(r, quota)
      PROVE  doing'[q] = doing[q]
  <2>1. (Cools(r, quota) /\ ~Cooling(using[r])) \in BOOLEAN
    OBVIOUS
  <2> QED BY <1>3, <1>6, <2>1 DEF Fail, RecordFailure
<1>7. ASSUME NEW a \in Accounts, LateStructural(r, a)
      PROVE  doing'[q] = doing[q]
  BY <1>7 DEF LateStructural, FlowTyped
<1> QED BY <1>2, <1>4, <1>5, <1>6, <1>7 DEF Record

(* Whatever happens the pool's state has its types; the counts, the rings  *)
(* and the times stay in their bounds.                                     *)
THEOREM PoolTypeCorrect ==
  ASSUME PoolAssumption
  PROVE  PoolSpec => []PoolTypeOK
<1>1. PoolInit => Typed
  BY InitTyped
<1>2. Typed /\ [PoolNext]_poolVars => Typed'
  BY NextTyped
<1>3. Typed => PoolTypeOK
  BY TypedParts
<1> QED BY <1>1, <1>2, <1>3, PTL DEF PoolSpec

-----------------------------------------------------------------------------
(* Pins and health *)

LEMMA TakeKeepsLeaving ==
  ASSUME FlowTyped, NEW r \in Requests, doing[r] # "unpinning", NEW a, Take(r, a), NEW b, Leaving(b)
  PROVE  Leaving(b)'
  BY DEF FlowTyped, Take, flow, Leaving

LEMMA DecayKeepsAvailable ==
  ASSUME SetsTyped, Decay, UNCHANGED present
  PROVE  Available' = Available
  BY DEF SetsTyped, Decay, Decays, Available, Cooling

LEMMA PickKeepsPins ==
  ASSUME Typed, PinsFollowHealth, NEW r \in Requests, Pick(r)
  PROVE  PinsFollowHealth'
<1>t. PinsTyped /\ FlowTyped /\ SetsTyped
  BY DEF Typed
<1>1. Available' = Available
  BY <1>t, DecayKeepsAvailable DEF Pick
<1>2. doing[r] # "unpinning"
  BY DEF Pick
<1>3. \A S, a : Leaving(a) /\ TakeOneOf(r, S) => Leaving(a)'
  <2>1. SUFFICES ASSUME NEW S, NEW a, Leaving(a), TakeOneOf(r, S)
                 PROVE  Leaving(a)'
    OBVIOUS
  <2>2. CASE S = {}
    BY <2>1, <2>2 DEF TakeOneOf, flow, Leaving
  <2>3. CASE S # {}
    <3>1. PICK b \in S : Take(r, b)
      BY <2>1, <2>3 DEF TakeOneOf
    <3> QED BY <1>t, <1>2, <2>1, <3>1, TakeKeepsLeaving
  <2> QED BY <2>2, <2>3
<1>4. CASE PickSessionless(r)
  BY <1>1, <1>3, <1>4 DEF PickSessionless, pins, PinsFollowHealth, Pinned
<1>5. ASSUME NEW s \in Sessions, PickPinned(r, s)
      PROVE  PinsFollowHealth'
  <2>1. Take(r, pin[s]) /\ pin' = pin
    BY <1>5 DEF PickPinned, pins
  <2>2. \A a : Leaving(a) => Leaving(a)'
    BY <1>t, <1>2, <2>1, TakeKeepsLeaving
  <2> QED BY <1>1, <2>1, <2>2 DEF PinsFollowHealth, Pinned
<1>6. ASSUME NEW s \in Sessions, PickMigrating(r, s)
      PROVE  PinsFollowHealth'
  <2>1. \A q \in Sessions : pin'[q] \in {pin[q], None}
    BY <1>6 DEF PickMigrating, ReleasePins, Unpinned
  <2>2. \A a : Leaving(a) => Leaving(a)'
    BY <1>3, <1>6 DEF PickMigrating
  <2> QED BY <1>1, <2>1, <2>2 DEF PinsFollowHealth, Pinned
<1>7. ASSUME NEW s \in Sessions, PickPinning(r, s)
      PROVE  PinsFollowHealth'
  <2>1. CASE Oldest = {}
    BY <1>1, <1>7, <2>1 DEF PickPinning, flow, pins, PinsFollowHealth, Pinned, Leaving
  <2>2. CASE Oldest # {}
    <3>1. PICK a \in Oldest : pin' = [pin EXCEPT ![s] = a] /\ Take(r, a)
      BY <1>7, <2>2 DEF PickPinning
    <3>2. a \in Available
      BY <1>t, Choices
    <3>3. \A b : Leaving(b) => Leaving(b)'
      BY <1>t, <1>2, <3>1, TakeKeepsLeaving
    <3>4. \A q \in Sessions : pin'[q] = pin[q] \/ pin'[q] = a
      BY <1>t, <3>1 DEF PinsTyped
    <3> QED BY <1>1, <3>2, <3>3, <3>4 DEF PinsFollowHealth, Pinned
  <2> QED BY <2>1, <2>2
<1> QED BY <1>4, <1>5, <1>6, <1>7 DEF Pick

(* A request that leaves without taking its account out of service. *)
LEMMA RestsKeepsLeaving ==
  ASSUME FlowTyped, NEW r \in Requests, doing[r] # "unpinning", Rests(r), NEW a, Leaving(a)
  PROVE  Leaving(a)'
  BY DEF FlowTyped, Rests, Leaving

(* One that takes it out of service. *)
LEMMA ReleasingLeaves ==
  ASSUME FlowTyped, NEW r \in Requests, doing[r] # "unpinning", Leaves(r, TRUE)
  PROVE  \A a : a = using[r] \/ Leaving(a) => Leaving(a)'
<1>1. doing' = [doing EXCEPT ![r] = "unpinning"] /\ using' = using /\ token' = token
  BY DEF Leaves
<1> QED BY <1>1 DEF FlowTyped, Leaving

LEMMA FailureKeepsPins ==
  ASSUME Typed, PinsFollowHealth, NEW r \in Requests, NEW quota \in BOOLEAN, Fail(r, quota)
  PROVE  PinsFollowHealth'
<1> DEFINE a == using[r]
           releases == Cools(r, quota) /\ ~Cooling(a)
<1>t. HealthTyped /\ PinsTyped /\ FlowTyped /\ SetsTyped
  BY DEF Typed
<1>1. /\ doing[r] = "calling" /\ a \in Accounts
      /\ Leaves(r, releases) /\ pin' = pin /\ present' = present
      /\ \A b \in Accounts \ {a} : cooldown'[b] = cooldown[b]
      /\ ~Cools(r, quota) => cooldown' = cooldown
  <2>1. RecordFailure(r, quota, releases)
    BY DEF Fail
  <2>2. a \in Accounts
    BY <1>t, <2>1 DEF RecordFailure, SetsTyped
  <2>3. \A b \in Accounts \ {a} : cooldown'[b] = cooldown[b]
    BY <1>t, <2>1, <2>2 DEF RecordFailure, HealthTyped
  <2>4. ~Cools(r, quota) => cooldown' = cooldown
    BY <2>1 DEF RecordFailure, Cools
  <2> QED BY <2>1, <2>2, <2>3, <2>4 DEF RecordFailure, pins
<1>2. \A b \in Available : b # a => b \in Available'
  BY <1>t, <1>1 DEF Available, Cooling, SetsTyped
<1>3. CASE releases
  <2>1. \A b : b = using[r] \/ Leaving(b) => Leaving(b)'
    BY <1>t, <1>1, <1>3, ReleasingLeaves
  <2> QED BY <1>1, <1>2, <2>1 DEF PinsFollowHealth, Pinned
<1>4. CASE ~releases
  <2>1. \A b : Leaving(b) => Leaving(b)'
    <3>1. Rests(r)
      BY <1>1, <1>4 DEF Leaves
    <3> QED BY <1>t, <1>1, <3>1, RestsKeepsLeaving
  <2>2. a \in Available => a \in Available'
    BY <1>1, <1>4 DEF Available, Cooling
  <2> QED BY <1>1, <1>2, <2>1, <2>2 DEF PinsFollowHealth, Pinned
<1> QED BY <1>3, <1>4

LEMMA QuarantineKeepsPins ==
  ASSUME Typed, PinsFollowHealth, NEW r \in Requests,
         doing[r] \in {"calling", "polling"}, NEW time, Quarantine(r, time)
  PROVE  PinsFollowHealth'
<1> DEFINE a == using[r]
<1>t. HealthTyped /\ FlowTyped /\ SetsTyped
  BY DEF Typed
<1>1. pin' = pin /\ present' = present /\ Leaves(r, TRUE)
  BY DEF Quarantine, Quarantined, pins
<1>2. \A b \in Available : b # a => b \in Available'
  BY <1>t, <1>1 DEF Quarantine, Quarantined, HealthTyped, SetsTyped, Available, Cooling
<1>3. \A b : b = using[r] \/ Leaving(b) => Leaving(b)'
  BY <1>t, <1>1, ReleasingLeaves
<1> QED BY <1>1, <1>2, <1>3 DEF PinsFollowHealth, Pinned

LEMMA UnpinKeepsPins ==
  ASSUME Typed, PinsFollowHealth, NEW r \in Requests, Unpin(r)
  PROVE  PinsFollowHealth'
<1>t. FlowTyped
  BY DEF Typed
<1>1. \A s \in Sessions : pin'[s] = None \/ (pin'[s] = pin[s] /\ pin[s] # using[r])
  BY DEF Unpin, ReleasePins, Unpinned
<1>2. Available' = Available
  BY DEF Unpin, health, Available, Cooling
<1>3. \A a : a # using[r] /\ Leaving(a) => Leaving(a)'
  BY <1>t DEF Unpin, Rests, FlowTyped, Leaving
<1> QED BY <1>1, <1>2, <1>3 DEF PinsFollowHealth, Pinned

LEMMA RemoveKeepsPins ==
  ASSUME Typed, PinsFollowHealth, NEW r \in Requests, NEW a \in Accounts, Remove(r, a)
  PROVE  PinsFollowHealth'
<1>t. FlowTyped
  BY DEF Typed
<1>1. pin' = pin /\ \A b \in Available : b # a => b \in Available'
  BY DEF Remove, pins, health, Available, Cooling
<1>2. \A b : b = a \/ Leaving(b) => Leaving(b)'
  BY <1>t DEF Remove, FlowTyped, Leaving
<1> QED BY <1>1, <1>2 DEF PinsFollowHealth, Pinned

(* Steps that release nothing and take nobody out of service. *)
LEMMA HealingKeepsPins ==
  ASSUME Typed, PinsFollowHealth, UNCHANGED flow,
         \A s \in Sessions : pin'[s] \in {pin[s], None},
         \A a \in Available : a \in Available'
  PROVE  PinsFollowHealth'
<1>1. \A a : Leaving(a) => Leaving(a)'
  BY DEF flow, Leaving
<1> QED BY <1>1 DEF PinsFollowHealth, Pinned

LEMMA NextKeepsPins ==
  ASSUME Typed, PinsFollowHealth, [PoolNext]_poolVars
  PROVE  PinsFollowHealth'
<1>t. HealthTyped /\ PinsTyped /\ FlowTyped /\ SetsTyped
  BY DEF Typed
<1>1. ASSUME NEW r \in Requests, Answer(r) \/ Drop(r)
      PROVE  PinsFollowHealth'
  <2>1. \A a : Leaving(a) => Leaving(a)'
    BY <1>t, <1>1, RestsKeepsLeaving DEF Answer, Drop
  <2>2. pin' = pin /\ Available' = Available
    BY <1>1 DEF Answer, Drop, pins, health, Available, Cooling
  <2> QED BY <2>1, <2>2 DEF PinsFollowHealth, Pinned
<1>2. ASSUME NEW r \in Requests, Record(r)
      PROVE  PinsFollowHealth'
  BY <1>2, FailureKeepsPins, QuarantineKeepsPins DEF Record, Unauthorized, Structural, Suspicious
<1>3. ASSUME NEW r \in Requests, NEW a \in Accounts, Poll(r, a)
      PROVE  PinsFollowHealth'
  <2>1. \A b : Leaving(b) => Leaving(b)'
    BY <1>t, <1>3 DEF Poll, FlowTyped, Leaving
  <2>2. pin' = pin /\ Available' = Available
    BY <1>3 DEF Poll, pins, health, Available, Cooling
  <2> QED BY <2>1, <2>2 DEF PinsFollowHealth, Pinned
<1>4. CASE Tick
  <2>1. \A s \in Sessions : pin'[s] \in {pin[s], None}
    BY <1>4 DEF PinsExpire, Tick
  <2>2. \A a \in Available : a \in Available'
    BY <1>t, <1>4 DEF PinsExpire, Tick, Available, Cooling, SetsTyped
  <2>3. UNCHANGED flow
    BY <1>4 DEF PinsExpire, Tick
  <2> QED BY <2>1, <2>2, <2>3, HealingKeepsPins
<1>5. ASSUME NEW a \in Accounts, Add(a)
      PROVE  PinsFollowHealth'
  <2>1. \A b \in Available : b \in Available'
    BY <1>t, <1>5 DEF Add, Available, Cooling, HealthTyped, SetsTyped
  <2>2. pin' = pin /\ UNCHANGED flow
    BY <1>5 DEF Add, pins
  <2> QED BY <2>1, <2>2, HealingKeepsPins
<1>6. CASE ClearAllCooldowns
  <2>1. \A b \in Available : b \in Available'
    BY <1>t, <1>6 DEF ClearAllCooldowns, Available, Cooling, SetsTyped
  <2>2. pin' = pin /\ UNCHANGED flow
    BY <1>6 DEF ClearAllCooldowns, pins
  <2> QED BY <2>1, <2>2, HealingKeepsPins
<1>7. ASSUME NEW a \in Accounts, RemoveFromVault(a)
      PROVE  PinsFollowHealth'
  BY <1>7, HealingKeepsPins DEF RemoveFromVault, pins, health, Available, Cooling
<1>9. ASSUME NEW r \in Requests, NEW a \in Accounts, LateStructural(r, a)
      PROVE  PinsFollowHealth'
  <2>1. pin' = pin /\ present' = present
    BY <1>9 DEF LateStructural, Quarantined, pins
  <2>2. \A b \in Available : b # a => b \in Available'
    BY <1>t, <1>9, <2>1 DEF LateStructural, Quarantined, HealthTyped, SetsTyped, Available, Cooling
  <2>3. \A b : b = a \/ Leaving(b) => Leaving(b)'
    BY <1>t, <1>9 DEF LateStructural, FlowTyped, Leaving
  <2> QED BY <2>1, <2>2, <2>3 DEF PinsFollowHealth, Pinned
<1>8. CASE UNCHANGED poolVars
  BY <1>8, HealingKeepsPins DEF poolVars, pins, health, Available, Cooling
<1> QED BY <1>1, <1>2, <1>3, <1>4, <1>5, <1>6, <1>7, <1>8, <1>9, PickKeepsPins, UnpinKeepsPins,
           RemoveKeepsPins
        DEF PoolNext, ServeNext

(* No order of failures, removals and picks leaves a session pinned to an  *)
(* account that cannot serve, once the request that took it out of service *)
(* has released its pins.                                                  *)
THEOREM PinsFollow ==
  ASSUME PoolAssumption
  PROVE  PoolSpec => []PinsFollowHealth
<1>1. PoolInit => Typed /\ PinsFollowHealth
  BY InitTyped DEF PoolInit, PinsFollowHealth, Pinned
<1>2. Typed /\ PinsFollowHealth /\ [PoolNext]_poolVars => (Typed /\ PinsFollowHealth)'
  BY NextTyped, NextKeepsPins
<1> QED BY <1>1, <1>2, PTL DEF PoolSpec

-----------------------------------------------------------------------------
(* Pins and blips *)

LEMMA PickSparesPins ==
  ASSUME Typed, NEW r \in Requests, Pick(r)
  PROVE  PinsStay /\ OnlyUnfitLeave
<1>t. PinsTyped /\ FlowTyped
  BY DEF Typed
<1>1. ASSUME NEW a, Take(r, a)
      PROVE  OnlyUnfitLeave
  BY <1>t, <1>1 DEF Take, flow, FlowTyped, OnlyUnfitLeave
<1>2. ASSUME NEW S, TakeOneOf(r, S)
      PROVE  OnlyUnfitLeave
  BY <1>1, <1>2 DEF TakeOneOf, flow, OnlyUnfitLeave
<1>3. CASE PickSessionless(r)
  BY <1>2, <1>3 DEF PickSessionless, pins, PinsStay
<1>4. ASSUME NEW s \in Sessions, PickPinned(r, s)
      PROVE  PinsStay /\ OnlyUnfitLeave
  BY <1>1, <1>4 DEF PickPinned, pins, PinsStay
<1>5. ASSUME NEW s \in Sessions, PickMigrating(r, s)
      PROVE  PinsStay /\ OnlyUnfitLeave
  BY <1>2, <1>5 DEF PickMigrating, ReleasePins, Unpinned, PinsStay
<1>6. ASSUME NEW s \in Sessions, PickPinning(r, s)
      PROVE  PinsStay /\ OnlyUnfitLeave
  <2>1. \A q \in Sessions : Pinned(q) => pin'[q] = pin[q]
    BY <1>t, <1>6 DEF PickPinning, pins, PinsTyped, Pinned
  <2>2. OnlyUnfitLeave
    BY <1>1, <1>6 DEF PickPinning, flow, OnlyUnfitLeave
  <2> QED BY <2>1, <2>2 DEF PinsStay
<1> QED BY <1>3, <1>4, <1>5, <1>6 DEF Pick

(* A request that has its account cool may release the pins. *)
LEMMA CoolingSparesPins ==
  ASSUME FlowTyped, NEW r \in Requests, NEW releases \in BOOLEAN, Leaves(r, releases),
         UNCHANGED pins, releases => using[r] \notin Available'
  PROVE  PinsStay /\ OnlyUnfitLeave
<1>1. PinsStay
  BY DEF pins, PinsStay
<1>2. CASE releases
  <2>1. doing' = [doing EXCEPT ![r] = "unpinning"] /\ using' = using /\ token' = token
    BY <1>2 DEF Leaves
  <2> QED BY <1>1, <1>2, <2>1 DEF FlowTyped, OnlyUnfitLeave
<1>3. CASE ~releases
  <2>1. doing' = [doing EXCEPT ![r] = "idle"]
    BY <1>3 DEF Leaves, Rests
  <2> QED BY <1>1, <2>1 DEF FlowTyped, OnlyUnfitLeave
<1> QED BY <1>2, <1>3

LEMMA FailureSparesPins ==
  ASSUME PoolAssumption, Typed, NEW r \in Requests, NEW quota \in BOOLEAN, Fail(r, quota)
  PROVE  PinsStay /\ OnlyUnfitLeave
<1> DEFINE a == using[r]
           releases == Cools(r, quota) /\ ~Cooling(a)
<1>t. HealthTyped /\ FlowTyped /\ SetsTyped
  BY DEF Typed
<1>1. RecordFailure(r, quota, releases)
  BY DEF Fail
<1>2. a \in Accounts /\ Another(a) \in Nat
  BY <1>t, <1>1, AnotherIsCounted DEF RecordFailure, SetsTyped, PoolAssumption, Policy
<1>3. Another(a) >= Threshold => Backoff(Another(a)) \in Nat \ {0}
  BY <1>2, BackoffTakesTime
<1>4. /\ Quota \in Nat \ {0} /\ Overage \in Nat \ {0}
      /\ \A n \in Nat \ {0} : n # None
  BY DEF PoolAssumption, Policy
<1>5. releases => a \notin Available'
  <2>1. SUFFICES ASSUME releases
                 PROVE  Cooling(a)'
    BY <1>1 DEF RecordFailure, Available, Cooling, Leaves
  <2>2. a' = a
    BY <1>1, <2>1 DEF RecordFailure, Leaves
  <2>3. CASE \E time \in {Quota, Overage} : cooldown' = [cooldown EXCEPT ![a] = time]
    BY <1>t, <1>2, <1>4, <2>2, <2>3 DEF Cooling, HealthTyped
  <2>4. CASE ~quota /\ Cools(r, quota) /\ cooldown' = [cooldown EXCEPT ![a] = Backoff(Another(a))]
    <3>1. Backoff(Another(a)) \in Nat \ {0}
      BY <1>3, <2>4 DEF Cools
    <3> QED BY <1>t, <1>2, <1>4, <2>2, <2>4, <3>1 DEF Cooling, HealthTyped
  <2> QED BY <1>1, <2>1, <2>3, <2>4 DEF RecordFailure
<1>6. releases \in BOOLEAN
  OBVIOUS
<1>7. Leaves(r, releases) /\ UNCHANGED pins
  BY <1>1 DEF RecordFailure
<1>8. releases => using[r] \notin Available'
  BY <1>5, <1>7 DEF Leaves
<1> QED BY <1>t, <1>6, <1>7, <1>8, CoolingSparesPins

LEMMA QuarantineSparesPins ==
  ASSUME PoolAssumption, Typed, NEW r \in Requests, NEW time \in Nat \ {0}, Quarantine(r, time)
  PROVE  PinsStay /\ OnlyUnfitLeave
<1>t. HealthTyped /\ FlowTyped /\ SetsTyped
  BY DEF Typed
<1>1. Leaves(r, TRUE) /\ UNCHANGED pins /\ using[r] \in Accounts /\ time # None
  BY <1>t DEF Quarantine, Quarantined, SetsTyped, PoolAssumption, Policy
<1>2. using[r] \notin Available'
  BY <1>t, <1>1 DEF Quarantine, Quarantined, Available, Cooling, HealthTyped
<1> QED BY <1>t, <1>1, <1>2, CoolingSparesPins

LEMMA NextSparesPins ==
  ASSUME PoolAssumption, Typed, [PoolNext]_poolVars
  PROVE  PinsStay /\ OnlyUnfitLeave
<1>t. PinsTyped /\ FlowTyped
  BY DEF Typed
<1>h. HealthTyped
  BY DEF Typed
<1>n. MaxCooldown \in Nat \ {0} /\ Ban \in Nat \ {0}
  BY DEF PoolAssumption, Policy
<1>1. ASSUME NEW r \in Requests, Answer(r) \/ Drop(r)
      PROVE  PinsStay /\ OnlyUnfitLeave
  <2>1. Leaves(r, FALSE) /\ UNCHANGED pins
    BY <1>1 DEF Answer, Drop, Leaves
  <2> QED BY <1>t, <2>1, CoolingSparesPins
<1>2. ASSUME NEW r \in Requests, Record(r)
      PROVE  PinsStay /\ OnlyUnfitLeave
  BY <1>n, <1>2, FailureSparesPins, QuarantineSparesPins
     DEF Record, Unauthorized, Structural, Suspicious
<1>3. ASSUME NEW r \in Requests, Unpin(r)
      PROVE  PinsStay /\ OnlyUnfitLeave
  <2>1. PinsStay
    BY <1>3 DEF Unpin, ReleasePins, Unpinned, PinsStay, Leaving
  <2>2. OnlyUnfitLeave
    BY <1>t, <1>3 DEF Unpin, Rests, FlowTyped, OnlyUnfitLeave
  <2> QED BY <2>1, <2>2
<1>4. ASSUME NEW r \in Requests, NEW a \in Accounts, Poll(r, a)
      PROVE  PinsStay /\ OnlyUnfitLeave
  BY <1>t, <1>4 DEF Poll, pins, FlowTyped, PinsStay, OnlyUnfitLeave
<1>5. ASSUME NEW r \in Requests, NEW a \in Accounts, Remove(r, a)
      PROVE  PinsStay /\ OnlyUnfitLeave
  BY <1>t, <1>5 DEF Remove, pins, Available, FlowTyped, PinsStay, OnlyUnfitLeave
<1>9. ASSUME NEW r \in Requests, NEW a \in Accounts, LateStructural(r, a)
      PROVE  PinsStay /\ OnlyUnfitLeave
  <2>1. MaxCooldown # None /\ MaxCooldown # 0
    BY DEF PoolAssumption, Policy
  <2>2. a \notin Available'
    BY <1>h, <1>9, <2>1 DEF LateStructural, Quarantined, Available, Cooling, HealthTyped
  <2>3. PinsStay
    BY <1>9 DEF LateStructural, Quarantined, pins, PinsStay
  <2>4. OnlyUnfitLeave
    BY <1>t, <1>9, <2>2 DEF LateStructural, FlowTyped, OnlyUnfitLeave
  <2> QED BY <2>3, <2>4
<1>6. CASE Tick
  <2>1. PinsStay
    <3>1. \A s \in Sessions : pinTTL[s] <= 1 => pinTTL'[s] = 0
      <4>1. ASSUME NEW s \in Sessions, pinTTL[s] <= 1
            PROVE  Less(pinTTL[s]) = 0
        <5>1. PinTTL \in Nat /\ pinTTL[s] \in 0 .. PinTTL
          BY <1>t DEF PinsTyped, PoolAssumption, Policy
        <5> QED BY <4>1, <5>1 DEF Less
      <4> QED BY <1>6, <4>1 DEF PinsExpire, Tick
    <3>2. \A s \in Sessions : pin'[s] # pin[s] => pinTTL[s] <= 1
      BY <1>6 DEF PinsExpire, Tick
    <3> QED BY <3>1, <3>2 DEF PinsStay
  <2> QED BY <1>6, <2>1 DEF PinsExpire, Tick, flow, OnlyUnfitLeave
<1>7. ASSUME UNCHANGED <<pins, flow>>
      PROVE  PinsStay /\ OnlyUnfitLeave
  BY <1>7 DEF pins, flow, PinsStay, OnlyUnfitLeave
<1>8. CASE UNCHANGED poolVars \/ ClearAllCooldowns
           \/ \E a \in Accounts : Add(a) \/ RemoveFromVault(a)
  BY <1>7, <1>8 DEF poolVars, ClearAllCooldowns, Add, RemoveFromVault
<1> QED BY <1>1, <1>2, <1>3, <1>4, <1>5, <1>6, <1>8, <1>9, PickSparesPins DEF PoolNext, ServeNext

(* A pin goes away before its time only with an account that cannot serve  *)
(* or that a request has taken out of service, and no request does that    *)
(* for a failure that leaves the account available.                        *)
THEOREM PinsOutlive ==
  ASSUME PoolAssumption
  PROVE  PoolSpec => PinsOutliveBlips
<1>1. PoolInit => Typed
  BY InitTyped
<1>2. Typed /\ [PoolNext]_poolVars => Typed'
  BY NextTyped
<1>3. Typed /\ [PoolNext]_poolVars => [PinsStay /\ OnlyUnfitLeave]_poolVars
  BY NextSparesPins
<1> QED BY <1>1, <1>2, <1>3, PTL DEF PoolSpec, PinsOutliveBlips
=============================================================================
