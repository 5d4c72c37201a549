---------------------------- MODULE RefreshFlow ----------------------------
(***************************************************************************)
(* The refresh of one account's tokens (internal/pool/refresh.go), over    *)
(* the vault's protocol and against an upstream that rotates refresh       *)
(* tokens.  A session of TokenVault is here a process with its             *)
(* singleflight group: it runs one refreshOneInner at a time, for all of   *)
(* the process's requests that found the token near its expiry.            *)
(*                                                                         *)
(* Token pairs are numbered in the order upstream grants them, and         *)
(* upstream accepts the refresh token of the last pair it granted and no   *)
(* other (refresh.go: "each invalidating the others' grant").  It may also *)
(* answer with a new access token and no new refresh token, which is the   *)
(* same pair here.                                                         *)
(*                                                                         *)
(* The reasons why a refresh may go wrong that no code prevents are        *)
(* recorded in mishaps; the properties say what cannot happen without      *)
(* them.                                                                   *)
(***************************************************************************)
EXTENDS TokenVault

CONSTANTS
  Callers,    \* requests (and the usage poller) that want fresh tokens
  MaxGrant,   \* bound: upstream grants no pair beyond this one
  MaxRetries  \* effectiveMaxRetries

ASSUME FlowAssumption ==
  /\ MaxGrant \in Nat
  /\ MaxRetries \in Nat
  /\ TokenPairs = 0 .. MaxGrant
  /\ Unrefreshable = {}

VARIABLES
  phase,     \* phase[s]: what the process's refreshOneInner is doing
  attempt,   \* attempt[s]: its loop counter
  fresh,     \* fresh[s]: the pair upstream answered it
  cancelled, \* the processes whose refresh runs under a context that is done
  waiting,   \* waiting[s]: the callers that share its result
  grant,     \* the last pair upstream granted
  struck,    \* some process took the account out for a dead refresh token
  mishaps    \* history: what has gone wrong so far

flowVars == <<phase, attempt, fresh, cancelled, waiting, grant, struck, mishaps>>

allVars == <<vars, flowVars>>

Phases == {"idle", "call", "backoff", "commit"}

Mishaps == {"crash",          \* a process died while it refreshed
            "lost_reply",     \* upstream rotated the pair, the answer was lost
            "patched",        \* a machine id or ban was written during a refresh
            "commit_failed",  \* the transaction of a commit failed,
            "release_failed"} \* or that of a release: a context that is done,
                              \* or a database that is busy or broken

FlowTypeOK ==
  /\ phase \in [Sessions -> Phases]
  /\ attempt \in [Sessions -> 0 .. MaxRetries]
  /\ fresh \in [Sessions -> TokenPairs]
  /\ cancelled \subseteq Sessions
  /\ waiting \in [Sessions -> SUBSET Callers]
  /\ grant \in TokenPairs
  /\ struck \in BOOLEAN
  /\ mishaps \subseteq Mishaps

FlowInit ==
  /\ Init
  /\ phase = [s \in Sessions |-> "idle"]
  /\ attempt = [s \in Sessions |-> 0]
  /\ fresh = [s \in Sessions |-> 0]
  /\ cancelled = {}
  /\ waiting = [s \in Sessions |-> {}]
  /\ grant = 0
  /\ struck = FALSE
  /\ mishaps = {}

(* The operator adds the account with the pair of its login. *)
AddAccount ==
  /\ row = NoBundle
  /\ Save(0, NoMetadata)
  /\ UNCHANGED flowVars

Refreshing == {s \in Sessions : phase[s] # "idle"}

Asks(c) == \A s \in Sessions : c \notin waiting[s]

(* A caller finds no flight under way in its process, and Reserve succeeds; *)
(* its context becomes the flight's.  When Reserve fails the caller gets    *)
(* the error at once and nothing changes.                                   *)
Start(s, c) ==
  /\ phase[s] = "idle" /\ Asks(c)
  /\ Bounded
  /\ Reserve(s)
  /\ phase' = [phase EXCEPT ![s] = "call"]
  /\ attempt' = [attempt EXCEPT ![s] = 0]
  /\ waiting' = [waiting EXCEPT ![s] = {c}]
  /\ UNCHANGED <<fresh, cancelled, grant, struck, mishaps>>

(* A caller that comes while a flight is under way gets the flight's        *)
(* result.  Its own context plays no part: group.Do does not look at it.    *)
Join(s, c) ==
  /\ phase[s] # "idle" /\ Asks(c)
  /\ waiting' = [waiting EXCEPT ![s] = @ \cup {c}]
  /\ UNCHANGED <<vars, phase, attempt, fresh, cancelled, grant, struck, mishaps>>

(* The flight ends; each of its callers has an answer. *)
Land(s) ==
  /\ phase' = [phase EXCEPT ![s] = "idle"]
  /\ fresh' = [fresh EXCEPT ![s] = 0]
  /\ attempt' = [attempt EXCEPT ![s] = 0]
  /\ cancelled' = cancelled \ {s}
  /\ waiting' = [waiting EXCEPT ![s] = {}]

(* Faulty: leaves the row locked. *)
GiveUpLocked(s, causes) ==
  Abandon(s) /\ Land(s) /\ mishaps' = mishaps \cup causes

(* The flight ends without a commit.  vault.Release runs under its context, *)
(* and its error is ignored: if its transaction fails, the row stays locked *)
(* until its TTL.  The vault's transactions are deferred ones: beside       *)
(* another process's writes any of them may end in SQLITE_BUSY.             *)
GiveUp(s, causes) ==
  /\ \/ /\ s \notin cancelled
        /\ row' = Released(row, held[s].generation, FALSE) /\ Release(s)
        /\ mishaps' = mishaps \cup causes
     \/ /\ Abandon(s)
        /\ mishaps' = mishaps \cup causes \cup {"release_failed"}
  /\ Land(s)

(* Faulty: does not count the attempts. *)
TryAgainUncounted(s, causes) ==
  /\ phase' = [phase EXCEPT ![s] = "backoff"]
  /\ mishaps' = mishaps \cup causes
  /\ UNCHANGED <<vars, attempt, fresh, cancelled, waiting>>

(* A transient failure: once more after a pause, until the attempts are    *)
(* exhausted.                                                              *)
TryAgain(s, causes) ==
  \/ /\ attempt[s] < MaxRetries
     /\ phase' = [phase EXCEPT ![s] = "backoff"]
     /\ attempt' = [attempt EXCEPT ![s] = @ + 1]
     /\ mishaps' = mishaps \cup causes
     /\ UNCHANGED <<vars, fresh, cancelled, waiting>>
  \/ /\ attempt[s] = MaxRetries
     /\ GiveUp(s, causes)

(* Faulty: always keeps the refresh token it sent. *)
SucceedKeeping(s) ==
  /\ phase[s] = "call" /\ s \notin cancelled
  /\ held[s].tokens = grant
  /\ grant' \in {grant, grant + 1} \cap TokenPairs
  /\ fresh' = [fresh EXCEPT ![s] = held[s].tokens]
  /\ phase' = [phase EXCEPT ![s] = "commit"]
  /\ UNCHANGED <<vars, attempt, cancelled, waiting, struck, mishaps>>

(* Upstream accepts the refresh token and answers: a new pair, or the same. *)
Succeed(s) ==
  /\ phase[s] = "call" /\ s \notin cancelled
  /\ held[s].tokens = grant
  /\ grant' \in {grant, grant + 1} \cap TokenPairs
  /\ fresh' = [fresh EXCEPT ![s] = grant']
  /\ phase' = [phase EXCEPT ![s] = "commit"]
  /\ UNCHANGED <<vars, attempt, cancelled, waiting, struck, mishaps>>

(* A 5xx, a network error, a timeout, or a context that is done. *)
FailTransient(s) ==
  /\ phase[s] = "call"
  /\ TryAgain(s, {})
  /\ UNCHANGED <<grant, struck>>

(* Upstream rotates the pair, but its answer does not arrive in time or     *)
(* does not parse (which is terminal).                                      *)
LoseReply(s) ==
  /\ phase[s] = "call"
  /\ held[s].tokens = grant /\ grant + 1 \in TokenPairs
  /\ grant' = grant + 1
  /\ TryAgain(s, {"lost_reply"}) \/ GiveUp(s, {"lost_reply"})
  /\ UNCHANGED struck

(* A 200 without the fields it should have: terminal. *)
Malformed(s) ==
  /\ phase[s] = "call" /\ s \notin cancelled
  /\ GiveUp(s, {})
  /\ UNCHANGED <<grant, struck>>

(* A 401 or 403: the refresh token presented is not the last one granted.   *)
(* The callers then take the account out (RecordUnauthorized).              *)
Refuse(s) ==
  /\ phase[s] = "call" /\ s \notin cancelled
  /\ held[s].tokens # grant
  /\ GiveUp(s, {})
  /\ struck' = TRUE
  /\ UNCHANGED grant

(* The select of the backoff: either the timer, *)
Resume(s) ==
  /\ phase[s] = "backoff"
  /\ phase' = [phase EXCEPT ![s] = "call"]
  /\ UNCHANGED <<vars, attempt, fresh, cancelled, waiting, grant, struck, mishaps>>

(* or ctx.Done. *)
Interrupt(s) ==
  /\ phase[s] = "backoff" /\ s \in cancelled
  /\ GiveUp(s, {})
  /\ UNCHANGED <<grant, struck>>

(* CommitWithMetaPatch under the flight's context; whatever it fails for,   *)
(* a generation that has gone on or its transaction, the row is released    *)
(* with the generation reserved, under the same context.                    *)
FlowCommit(s) ==
  /\ phase[s] = "commit"
  /\ \/ /\ s \notin cancelled /\ Commits(s)
        /\ row' = Committed(row, fresh[s], Patch(ExpiresAt, Stamp))
        /\ Commit(s) /\ Land(s)
        /\ UNCHANGED mishaps
     \/ GiveUp(s, IF Commits(s) THEN {"commit_failed"} ELSE {})
  /\ UNCHANGED <<grant, struck>>

(* The first caller's client goes away, or its deadline passes. *)
Cancel(s) ==
  /\ s \in Refreshing \ cancelled
  /\ cancelled' = cancelled \cup {s}
  /\ UNCHANGED <<vars, phase, attempt, fresh, waiting, grant, struck, mishaps>>

(* The process dies; upstream may or may not have handled its request. *)
Crash(s) ==
  /\ s \in Refreshing
  /\ Abandon(s)
  /\ Land(s)
  /\ IF phase[s] = "call" /\ held[s].tokens = grant
     THEN grant' \in {grant, grant + 1} \cap TokenPairs
     ELSE UNCHANGED grant
  /\ mishaps' = mishaps \cup {"crash"}
  /\ UNCHANGED struck

(* Requests that read the row and may write a machine id or a ban. *)
ReadRow(w) == (Get(w) \/ UseRead(w)) /\ UNCHANGED flowVars

PatchRow(w) ==
  /\ EnsureMachineID(w) \/ PersistBan(w)
  /\ mishaps' = IF row' # row /\ Refreshing # {}
                THEN mishaps \cup {"patched"} ELSE mishaps
  /\ UNCHANGED <<phase, attempt, fresh, cancelled, waiting, grant, struck>>

TimePasses == Tick /\ UNCHANGED flowVars

(* What refreshOneInner does by itself once started. *)
FlowStep(s) ==
  \/ Succeed(s) \/ FailTransient(s) \/ LoseReply(s) \/ Malformed(s) \/ Refuse(s)
  \/ Resume(s) \/ Interrupt(s) \/ FlowCommit(s)

FlowNext ==
  \/ AddAccount
  \/ \E s \in Sessions, c \in Callers : Start(s, c) \/ Join(s, c)
  \/ \E s \in Sessions : FlowStep(s)
  \/ \E s \in Sessions : Cancel(s) \/ Crash(s)
  \/ \E w \in Writers : ReadRow(w) \/ PatchRow(w)
  \/ TimePasses

FlowSpec == FlowInit /\ [][FlowNext]_allVars

(* The HTTP client has a timeout of 10 s, the backoff is a timer and a      *)
(* SQLite transaction ends: every step of a flight is taken eventually.     *)
FairFlowSpec == FlowSpec /\ \A s \in Sessions : WF_allVars(FlowStep(s))

-----------------------------------------------------------------------------
(* Properties *)

(* Nothing has gone wrong but releases, and no refresh took longer than    *)
(* its lock TTL.                                                           *)
Smooth == mishaps \subseteq {"release_failed"} /\ ~strayed

(* A flight under way holds a reservation of the row as it is now: no one  *)
(* else has committed, and (LockHolder) no other process reserves it.      *)
FlightsCurrent ==
  /\ \A s \in Sessions : held[s] # None <=> phase[s] # "idle"
  /\ era = 0
  /\ Smooth => \A s \in Refreshing : HoldsVersion(s)

(* The account's live refresh token is never lost: it is the one stored,   *)
(* or a flight is about to store it (refresh.go, the vault's reason to be). *)
(* Only the mishaps can cost it: two processes that refresh at once, a      *)
(* failed release or a client that goes away before the commit cannot.     *)
GrantKept ==
  Smooth =>
    \/ grant = (IF row = NoBundle THEN 0 ELSE row.tokens)
    \/ \E s \in Sessions : phase[s] = "commit" /\ fresh[s] = grant

(* No account is taken out for two hours because two refreshes of it       *)
(* presented the same refresh token (pool.go, RecordUnauthorized).         *)
NoFalseStrike == Smooth => ~struck

(* At most one process is refreshing the account (Reserve). *)
OneFlight == Smooth => \A s, t \in Refreshing : s = t

(* A locked row is being refreshed: every way a flight ends, but for a     *)
(* crash or a release that fails, frees the row it has locked; even a      *)
(* flight that outlived its TTL, lost its generation to a writer or could  *)
(* not commit.                                                             *)
LockIsHeld ==
  mishaps \cap {"crash", "release_failed"} = {} /\ row # NoBundle =>
    (row.lock > 0 =>
       \E s \in Refreshing : HoldsVersion(s))

(* Every caller of a flight gets an answer. *)
Answered ==
  \A s \in Sessions, c \in Callers : c \in waiting[s] ~> c \notin waiting[s]

(* ---- claims of the comments that do not hold *)

(* "The fresh access_token is lost but next request will try again (same   *)
(* refresh_token still in vault from Reserve)" (refresh.go), said of every  *)
(* commit that fails: the token in the vault is one upstream accepts.       *)
CommitFailureRecovers ==
  [][\A s \in Sessions :
       phase[s] = "commit" /\ CommitFails(s) => row'.tokens = grant]_allVars
=============================================================================
