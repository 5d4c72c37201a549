---------------------------- MODULE AuthManager ----------------------------
(***************************************************************************)
(* The credentials of kiro-cli's database (internal/auth), used when kiroxy *)
(* runs on it instead of its own vault: AuthManager caches what it reads,  *)
(* refreshes it under a singleflight, and cannot write the database, which *)
(* kiro-cli goes on using.                                                 *)
(*                                                                         *)
(* Credentials are a pair, numbered in the order upstream grants them, and *)
(* whether its access token is valid.  Upstream accepts the refresh token  *)
(* of the last pair only; it may renew the access token without a new pair. *)
(***************************************************************************)
EXTENDS Naturals

CONSTANTS
    Callers,   \* requests, each at GetToken or at the refresher of a 403
    None,
    MaxGrant   \* bound: upstream grants no pair beyond this one

VARIABLES
    db,       \* the credentials in the database
    cached,   \* AuthManager.cached, or None
    grant,    \* the last pair upstream granted
    asking,   \* asking[c]: "idle", "missed" the cache, or "waiting" for the flight
    flight,   \* where the singleflight "refresh" is, and with which credentials
    cli,      \* the pair kiro-cli was granted and has not written yet, or None
    given     \* history: the newest pair a caller was handed

vars == <<db, cached, grant, asking, flight, cli, given>>

Pairs == 0 .. MaxGrant
Credentials == [pair : Pairs, valid : BOOLEAN]
Ground == [step |-> "none", with |-> None]

Init ==
    /\ db \in [pair : {0}, valid : BOOLEAN]
    /\ cached = None /\ cli = None
    /\ grant = 0 /\ given = 0
    /\ asking = [c \in Callers |-> "idle"]
    /\ flight = Ground

Valid(creds) == creds # None /\ creds.valid
Newer(p, q) == IF p > q THEN p ELSE q

-----------------------------------------------------------------------------
(* GetToken: the cache under m.mu, and after the unlock the flight.         *)
GetToken(c) ==
    /\ asking[c] = "idle"
    /\ IF Valid(cached)
       THEN given' = Newer(cached.pair, given) /\ UNCHANGED asking
       ELSE asking' = [asking EXCEPT ![c] = "missed"] /\ UNCHANGED given
    /\ UNCHANGED <<db, cached, grant, flight, cli>>

Join(c) ==
    /\ asking[c] = "missed"
    /\ asking' = [asking EXCEPT ![c] = "waiting"]
    /\ flight' = IF flight = Ground THEN [flight EXCEPT !.step = "recheck"] ELSE flight
    /\ UNCHANGED <<db, cached, grant, cli, given>>

(* The refresher of a 403 invalidates first.                                *)
InvalidateCache(c) ==
    /\ asking[c] = "idle"
    /\ cached' = None
    /\ asking' = [asking EXCEPT ![c] = "missed"]
    /\ UNCHANGED <<db, grant, flight, cli, given>>

-----------------------------------------------------------------------------
(* refreshCredentials, under the singleflight.                              *)

Answer == [c \in Callers |-> IF asking[c] = "waiting" THEN "idle" ELSE asking[c]]

Hand(creds) ==
    /\ given' = Newer(creds.pair, given)
    /\ asking' = Answer
    /\ flight' = Ground

(* Mutant: an error is tried again without end.                             *)
FailNever == UNCHANGED <<asking, flight, given>>

Fail ==
    /\ asking' = Answer
    /\ flight' = Ground
    /\ UNCHANGED given

Recheck ==
    /\ flight.step = "recheck"
    /\ IF Valid(cached) THEN Hand(cached)
       ELSE flight' = [flight EXCEPT !.step = "read"] /\ UNCHANGED <<given, asking>>
    /\ UNCHANGED <<db, cached, grant, cli>>

(* What is in the database, or an error: what is there may be incomplete or *)
(* not parse.                                                               *)
ReadCredentials == {db, None}

ReadFromDB ==
    /\ flight.step = "read"
    /\ \E creds \in ReadCredentials :
         IF creds = None THEN Fail
         ELSE /\ flight' = [step |-> IF creds.valid THEN "answered" ELSE "refresh", with |-> creds]
              /\ UNCHANGED <<asking, given>>
    /\ UNCHANGED <<db, cached, grant, cli>>

(* Upstream's answer to the refresh, or the end of its 30 s and 35 s, when  *)
(* the pair may have been granted all the same.                             *)
Granted ==
    /\ flight.step = "refresh"
    /\ flight.with.pair = grant
    /\ \E p \in {grant, grant + 1} \cap Pairs :
         /\ grant' = p
         /\ flight' = [step |-> "answered", with |-> [pair |-> p, valid |-> TRUE]]
    /\ UNCHANGED <<db, cached, asking, cli, given>>

(* Mutant: when the refresh is refused, the expired credentials will do.     *)
RefusedAnswers ==
    /\ flight.step = "refresh"
    /\ flight' = [flight EXCEPT !.step = "answered"]
    /\ UNCHANGED <<db, cached, grant, asking, cli, given>>

Refused ==
    /\ flight.step = "refresh"
    /\ Fail
    /\ \/ UNCHANGED grant
       \/ flight.with.pair = grant /\ grant < MaxGrant /\ grant' = grant + 1
    /\ UNCHANGED <<db, cached, cli>>

Cache ==
    /\ flight.step = "answered"
    /\ cached' = flight.with
    /\ Hand(flight.with)
    /\ UNCHANGED <<db, grant, cli>>

-----------------------------------------------------------------------------
(* kiro-cli, and the clock.                                                 *)

(* It refreshes the same grant, or its user logs in again.                   *)
CliRefreshes ==
    /\ cli = None
    /\ grant < MaxGrant
    /\ grant' = grant + 1
    /\ cli' = grant + 1
    /\ UNCHANGED <<db, cached, asking, flight, given>>

CliWrites ==
    /\ cli # None
    /\ db' = [pair |-> cli, valid |-> TRUE]
    /\ cli' = None
    /\ UNCHANGED <<cached, grant, asking, flight, given>>

Expires ==
    /\ \/ db.valid /\ db' = [db EXCEPT !.valid = FALSE] /\ UNCHANGED cached
       \/ Valid(cached) /\ cached' = [cached EXCEPT !.valid = FALSE] /\ UNCHANGED db
    /\ UNCHANGED <<grant, asking, flight, cli, given>>

Fly == Recheck \/ ReadFromDB \/ Granted \/ Refused \/ Cache
Next ==
    \/ \E c \in Callers : GetToken(c) \/ Join(c) \/ InvalidateCache(c)
    \/ Fly \/ CliRefreshes \/ CliWrites \/ Expires

Spec == Init /\ [][Next]_vars

-----------------------------------------------------------------------------
(* No caller is handed older credentials than a caller before it, whatever  *)
(* is cached, invalidated, read and refreshed in between, by kiroxy or by   *)
(* kiro-cli (refresh.go refreshCredentials).                                *)
NeverOlder ==
    /\ Valid(cached) => cached.pair >= given
    /\ flight.step = "answered" => flight.with.pair >= given

=============================================================================
