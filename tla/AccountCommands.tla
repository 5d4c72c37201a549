--------------------------- MODULE AccountCommands ---------------------------
(***************************************************************************)
(* The operator's commands beside a running server: add-account (by device *)
(* login or with a pasted refresh token), import-accounts,                 *)
(* import-accounts-json, debug-refresh and remove-account.  Each is a      *)
(* process of its own on the server's vault.  All but remove-account write *)
(* a row with Save, which asks for no generation and no reservation; what  *)
(* stands between them and the account's live refresh token is what they   *)
(* look at before, and the refreshes of RefreshFlow run meanwhile.         *)
(*                                                                         *)
(* The account's first login grants pair 0.  Either the operator has it at *)
(* hand already, in a file or to paste, or add-account makes that login.   *)
(* What the commands do that may cost the live token, and that no code     *)
(* prevents, is recorded in lapses.                                        *)
(***************************************************************************)
EXTENDS RefreshFlow, FiniteSets

CONSTANTS
  Operators, \* who runs commands, one at a time
  Intervals, \* the polling intervals upstream asks for, in clock ticks
  SlowDown,  \* the 5 s a slow_down adds
  Timeout,   \* -timeout
  Lifetime,  \* expiresIn of a device code
  MaxLapses  \* bound: after so many kinds of lapses no command begins

ASSUME CommandAssumption ==
  /\ Intervals \subseteq Nat \ {0}
  /\ {SlowDown, Timeout, Lifetime, MaxLapses} \subseteq Nat \ {0}

VARIABLES
  job,      \* job[o]: the command o runs, where it is and what it holds
  login,    \* login[o]: its device authorization
  filed,    \* the operator has pair 0 at hand
  signedIn, \* somebody has logged in to the account
  lapses    \* history: what commands have done to the account

commandVars == <<job, login, filed, signedIn, lapses>>

Idle == [cmd  |-> "none", at |-> "idle",
         pair |-> 0,         \* the tokens to save
         read |-> NoBundle,  \* the tokens Get returned
         told |-> FALSE]     \* -allow-overwrite, -persist

NoLogin == [interval |-> 0, \* WaitForCompletion's
            demand   |-> 0, \* history: what upstream asks for by now
            since    |-> 0, \* time since the last poll
            left     |-> 0, \* time left of -timeout
            expires  |-> 0] \* time left of the device code

Lapses == {"overwritten", \* saved another pair, as told or without a look
           "raced",       \* saved over a change, or beside a refresh
           "alike",       \* two access tokens begin with the same characters
           "unreserved",  \* refreshed beside a refresh
           "dropped",     \* upstream's answer was not stored
           "relogin",     \* a second login to the account
           "removed"}

CommandTypeOK ==
  /\ \A o \in Operators : job[o].pair \in TokenPairs
  /\ \A o \in Operators : job[o].read \in TokenPairs \cup {NoBundle}
  /\ lapses \subseteq Lapses

CommandInit ==
  /\ FlowInit
  /\ job = [o \in Operators |-> Idle]
  /\ login = [o \in Operators |-> NoLogin]
  /\ filed \in BOOLEAN /\ signedIn = filed
  /\ lapses = {}

Tokens == CellValue

At(o, cmd, at) == job[o].cmd = cmd /\ job[o].at = at

Begin(o, cmd, at, told) ==
  /\ job[o] = Idle /\ Cardinality(lapses) < MaxLapses
  /\ job' = [job EXCEPT ![o] = [Idle EXCEPT !.cmd = cmd, !.at = at, !.told = told]]
  /\ UNCHANGED <<allVars, login, filed, signedIn, lapses>>

(* The command is over. *)
Exit(o) ==
  /\ job' = [job EXCEPT ![o] = Idle]
  /\ login' = [login EXCEPT ![o] = NoLogin]

Lapse(what, really) == lapses' = lapses \cup (IF really THEN {what} ELSE {})

(* Interrupted, or failed on the way: an answer in hand is gone. *)
Quit(o) ==
  /\ job[o] # Idle
  /\ Exit(o)
  /\ Lapse("dropped", job[o].at = "save" /\ job[o].cmd \in {"login", "debug-refresh"})
  /\ UNCHANGED <<allVars, filed, signedIn>>

-----------------------------------------------------------------------------
(* The commands begin; what is pasted or imported is pair 0. *)

AddAccountWithRefreshToken(o) == filed /\ Begin(o, "add-account", "save", FALSE)

AddAccountViaOAuth(o) == Begin(o, "login", "register", FALSE)

RunAddAccount(o) == AddAccountWithRefreshToken(o) \/ AddAccountViaOAuth(o)

RunImportAccounts(o) == filed /\ Begin(o, "import-accounts", "lookup", FALSE)

RunImportAccountsJSON(o) ==
  \E allowOverwrite \in BOOLEAN :
    filed /\ Begin(o, "import-accounts-json", "lookup", allowOverwrite)

RunDebugRefresh(o) ==
  \E persist \in BOOLEAN : Begin(o, "debug-refresh", "lookup", persist)

(* remove-account: vault.Delete *)
RunRemoveAccount(o) ==
  /\ job[o] = Idle /\ Cardinality(lapses) < MaxLapses
  /\ Delete
  /\ Lapse("removed", TRUE)
  /\ UNCHANGED <<flowVars, job, login, filed, signedIn>>

-----------------------------------------------------------------------------
(* What they look at *)

Found(o, at) == job' = [job EXCEPT ![o].read = Tokens, ![o].at = at]

(* importOne asks whether the account exists, to report it. *)
ImportOne(o) ==
  /\ At(o, "import-accounts", "lookup")
  /\ Found(o, "save")
  /\ UNCHANGED <<allVars, login, filed, signedIn, lapses>>

(* Faulty: takes any tokens for those of the file. *)
CollidesNever(o, alike) == FALSE

(* The account exists with another access token, by its first characters,  *)
(* and -allow-overwrite was not given.                                     *)
Collides(o, alike) == Tokens # NoBundle /\ ~alike /\ ~job[o].told

(* The access token may be another than the file's with the refresh token  *)
(* the same (a placeholder, an answer without a new refresh token), or     *)
(* begin like the file's with the pair another.                            *)
CompareEntry(o) ==
  \E alike \in BOOLEAN :
    /\ At(o, "import-accounts-json", "lookup")
    /\ IF Collides(o, alike) THEN Exit(o) ELSE (Found(o, "save") /\ UNCHANGED login)
    /\ Lapse("alike", alike /\ ~job[o].told /\ Tokens \notin {NoBundle, job[o].pair})
    /\ UNCHANGED <<allVars, filed, signedIn>>

(* debug-refresh's Get *)
GetBundle(o) ==
  /\ At(o, "debug-refresh", "lookup")
  /\ IF row = NoBundle THEN Exit(o) ELSE Found(o, "post") /\ UNCHANGED login
  /\ UNCHANGED <<allVars, filed, signedIn, lapses>>

-----------------------------------------------------------------------------
(* debug-refresh presents the refresh token without Reserve, and stores the *)
(* rotated one if there is one, the one sent otherwise.                    *)
PostRefresh(o) ==
  /\ At(o, "debug-refresh", "post")
  /\ job[o].read = grant
  /\ grant' \in {grant, grant + 1} \cap TokenPairs
  /\ IF job[o].told
     THEN /\ job' = [job EXCEPT ![o].pair = grant', ![o].at = "save"]
          /\ UNCHANGED login
     ELSE Exit(o)
  /\ lapses' = lapses \cup (IF Refreshing # {} THEN {"unreserved"} ELSE {})
                      \cup (IF ~job[o].told /\ grant' # grant THEN {"dropped"} ELSE {})
  /\ UNCHANGED <<vars, phase, attempt, fresh, cancelled, waiting, struck, mishaps,
                 filed, signedIn>>

(* The answer does not arrive, or does not parse. *)
PostLost(o) ==
  /\ At(o, "debug-refresh", "post")
  /\ job[o].read = grant /\ grant + 1 \in TokenPairs
  /\ grant' = grant + 1
  /\ Exit(o)
  /\ Lapse("dropped", TRUE)
  /\ UNCHANGED <<vars, phase, attempt, fresh, cancelled, waiting, struck, mishaps,
                 filed, signedIn>>

-----------------------------------------------------------------------------
(* vault.Save, with metadata made anew *)

Compares(o) == job[o].cmd = "import-accounts-json" /\ ~job[o].told

Source(o) == IF job[o].cmd \in {"import-accounts-json", "debug-refresh"}
             THEN Patch(ExpiresAt, Stamp) ELSE NoMetadata

SaveBundle(o) ==
  /\ job[o].at = "save"
  /\ Save(job[o].pair, Source(o))
  /\ Exit(o)
  /\ LET other == Tokens \notin {NoBundle, job[o].pair}
         stale == Tokens # job[o].read
     IN lapses' = lapses
          \cup (IF \/ Refreshing # {}
                   \/ stale /\ (job[o].cmd = "debug-refresh" \/ Compares(o))
                THEN {"raced"} ELSE {})
          \cup (IF other /\ job[o].cmd # "debug-refresh" /\ ~Compares(o)
                THEN {"overwritten"} ELSE {})
  /\ UNCHANGED <<flowVars, filed, signedIn>>

-----------------------------------------------------------------------------
(* Device login *)

(* client.Start: the client is registered, then the device authorized.     *)
Register(o) ==
  /\ At(o, "login", "register")
  /\ job' = [job EXCEPT ![o].at = "authorize"]
  /\ UNCHANGED <<allVars, login, filed, signedIn, lapses>>

DeviceAuthorize(o) ==
  \E interval \in Intervals :
    /\ At(o, "login", "authorize")
    /\ job' = [job EXCEPT ![o].at = "wait"]
    /\ login' = [login EXCEPT ![o] =
                   [interval |-> interval, demand |-> interval, since |-> 0,
                    left |-> Timeout, expires |-> Lifetime]]
    /\ UNCHANGED <<allVars, filed, signedIn, lapses>>

(* WaitForCompletion: the timer has fired, and Poll finds the code still   *)
(* good.                                                                   *)
Polls(o) ==
  /\ At(o, "login", "wait")
  /\ login[o].since >= login[o].interval
  /\ login[o].expires > 0

Pending(o) ==
  /\ Polls(o)
  /\ login' = [login EXCEPT ![o].since = 0]
  /\ UNCHANGED <<allVars, job, filed, signedIn, lapses>>

(* Faulty: goes on at the same pace. *)
NextIntervalKept(l) == l.interval

(* interval += 5 * time.Second *)
NextInterval(l) == l.interval + SlowDown

SlowedDown(o) ==
  /\ Polls(o)
  /\ login' = [login EXCEPT ![o].since = 0, ![o].demand = @ + SlowDown,
                            ![o].interval = NextInterval(login[o])]
  /\ UNCHANGED <<allVars, job, filed, signedIn, lapses>>

(* The user has approved, and upstream grants the tokens of a new login.   *)
Granted ==
  /\ signedIn' = TRUE
  /\ IF signedIn THEN grant + 1 \in TokenPairs /\ grant' = grant + 1 ELSE UNCHANGED grant
  /\ UNCHANGED <<vars, phase, attempt, fresh, cancelled, waiting, struck, mishaps, filed>>

Approved(o) ==
  /\ Polls(o)
  /\ Granted
  /\ job' = [job EXCEPT ![o].at = "save", ![o].pair = grant']
  /\ Lapse("relogin", signedIn)
  /\ UNCHANGED login

(* Any other failure of a poll ends the command, the tokens of an answer   *)
(* that is lost with it.                                                   *)
ApprovedUnheard(o) ==
  /\ Polls(o)
  /\ Granted
  /\ Exit(o)
  /\ Lapse("dropped", TRUE)

(* access_denied, expired_token, anything else *)
Denied(o) ==
  /\ Polls(o)
  /\ Exit(o)
  /\ UNCHANGED <<allVars, filed, signedIn, lapses>>

(* The time allowed is over, or Poll finds the code expired. *)
WaitEnds(o) ==
  /\ At(o, "login", "wait")
  /\ \/ login[o].left = 0
     \/ login[o].expires = 0 /\ login[o].since >= login[o].interval
  /\ Exit(o)
  /\ UNCHANGED <<allVars, filed, signedIn, lapses>>

Longer(l) == [l EXCEPT !.since = IF @ < l.demand THEN @ + 1 ELSE @,
                       !.left = Sooner(@), !.expires = Sooner(@)]

-----------------------------------------------------------------------------
(* The server *)

(* A flight that starts while debug-refresh has an answer to store presents *)
(* a refresh token that is used up.                                         *)
Serve ==
  /\ \/ \E s \in Sessions, c \in Callers : Start(s, c) \/ Join(s, c)
     \/ \E s \in Sessions : FlowStep(s) \/ Cancel(s) \/ Crash(s)
  /\ Lapse("unreserved", /\ Refreshing' # Refreshing
                         /\ \E o \in Operators : At(o, "debug-refresh", "save"))
  /\ UNCHANGED <<job, login, filed, signedIn>>

Time ==
  /\ TimePasses
  /\ login' = [o \in Operators |-> Longer(login[o])]
  /\ UNCHANGED <<job, filed, signedIn, lapses>>

Commands(o) ==
  \/ RunAddAccount(o) \/ RunImportAccounts(o) \/ RunImportAccountsJSON(o)
  \/ RunDebugRefresh(o) \/ RunRemoveAccount(o)

Login(o) ==
  \/ Register(o) \/ DeviceAuthorize(o) \/ Pending(o) \/ SlowedDown(o)
  \/ Approved(o) \/ ApprovedUnheard(o) \/ Denied(o) \/ WaitEnds(o)

CommandStep(o) ==
  \/ Commands(o) \/ Login(o) \/ Quit(o)
  \/ ImportOne(o) \/ CompareEntry(o) \/ GetBundle(o)
  \/ PostRefresh(o) \/ PostLost(o) \/ SaveBundle(o)

CommandNext == Serve \/ Time \/ \E o \in Operators : CommandStep(o)

CommandSpec == CommandInit /\ [][CommandNext]_<<allVars, commandVars>>

-----------------------------------------------------------------------------
(* Properties *)

Careful == Smooth /\ lapses = {}

(* A command alone never costs the account its live refresh token, nor     *)
(* leaves the server one that upstream refuses, for which the account would *)
(* be taken out: a file imported again after the server has refreshed      *)
(* leaves the row alone, and a debug-refresh or a login stores what it     *)
(* got.  Only what mishaps names of a refresh (a crash, a lost answer, a   *)
(* commit whose transaction fails) and lapses of a command can do it       *)
(* (import_json.go:132-140, debug_refresh.go:144-148).                     *)
AccountUnharmed ==
  Careful =>
    /\ ~struck
    /\ signedIn =>
         \/ grant = Tokens
         \/ Tokens = NoBundle /\ filed /\ grant = 0
         \/ \E s \in Sessions : phase[s] = "commit" /\ fresh[s] = grant
         \/ \E o \in Operators : job[o].at = "save" /\ job[o].pair = grant

(* The device login polls no faster than upstream has last asked for       *)
(* (builderid.go WaitForCompletion: "Interval grows when the server emits  *)
(* slow_down").                                                            *)
PollsPolitely ==
  [][\A o \in Operators :
       Pending(o) \/ SlowedDown(o) \/ Approved(o) =>
         login[o].since >= login[o].demand]_<<allVars, commandVars>>

=============================================================================
