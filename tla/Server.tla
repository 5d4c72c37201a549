------------------------------- MODULE Server -------------------------------
(***************************************************************************)
(* A kiroxy process from its start to its exit (cmd/kiroxy/main.go): its   *)
(* handlers use the pool with the UsagePoller beside them, or kiro-cli's   *)
(* credentials in their place, until a signal; awaitShutdown then drains   *)
(* the server, stops the poller and closes the vault.                      *)
(*                                                                         *)
(* The handlers and the poller are the requests of Pool, the handlers the  *)
(* callers of AuthManager.                                                 *)
(***************************************************************************)
EXTENDS Pool

CONSTANTS
  ThePoller,
  MaxGrant

Handlers == Requests \ {ThePoller}

VARIABLES
  mode,      \* "vault", or "kiro-cli" with KiroDBPath
  process,   \* "serving", "draining" the server, "stopping" the poller,
             \* "closing" the vault, or "exited"
  inFlight,  \* the handlers at work
  poller,    \* UsagePoller.loop: "delayed", at its "select", in a "pass", or "done"
  queue,     \* the accounts the pass has not come to
  ticked,    \* the ticker's channel is full
  db, cached, grant, asking, flight, cli, given

manager == <<db, cached, grant, asking, flight, cli, given>>
polling == <<poller, queue, ticked>>
serverVars == <<poolVars, manager, mode, process, inFlight, polling>>

M == INSTANCE AuthManager WITH Callers <- Handlers

ASSUME ServerAssumption ==
  /\ ThePoller \in Requests
  /\ MaxGrant \in Nat /\ None \notin M!Credentials

(* The poller runs in vault mode, unless it is disabled.  Either mode has  *)
(* no use for the other's state.                                           *)
ServerInit ==
  /\ PoolInit /\ M!Init
  /\ \/ mode = "vault" /\ db.valid
     \/ mode = "kiro-cli" /\ \A a \in Accounts : ~Cooling(a)
  /\ process = "serving"
  /\ inFlight = {}
  /\ poller \in IF mode = "vault" THEN {"delayed", "done"} ELSE {"done"}
  /\ queue = {} /\ ticked = FALSE

Stopping == process \in {"stopping", "closing", "exited"}
VaultOpen == mode = "vault" /\ process # "exited"

-----------------------------------------------------------------------------
(* The handlers.                                                           *)

Arrive(r) ==
  /\ process = "serving"
  /\ r \notin inFlight
  /\ inFlight' = inFlight \cup {r}
  /\ UNCHANGED <<poolVars, manager, mode, process, polling>>

Leave(r) ==
  /\ r \in inFlight
  /\ doing[r] = "idle" /\ asking[r] = "idle"
  /\ inFlight' = inFlight \ {r}
  /\ UNCHANGED <<poolVars, manager, mode, process, polling>>

UsePool(r) ==
  /\ VaultOpen /\ r \in inFlight
  /\ Pick(r) \/ Answer(r) \/ Drop(r) \/ Record(r) \/ Unpin(r)
  /\ UNCHANGED <<manager, mode, process, inFlight, polling>>

(* kiro-cli goes on as long as anyone looks.                               *)
UseCredentials(r) ==
  /\ r \in inFlight
  /\ M!GetToken(r) \/ M!InvalidateCache(r)
  /\ UNCHANGED <<poolVars, mode, process, inFlight, polling>>

Join(r) == M!Join(r) /\ UNCHANGED <<poolVars, mode, process, inFlight, polling>>
Fly == M!Fly /\ UNCHANGED <<poolVars, mode, process, inFlight, polling>>
Elsewhere ==
  /\ M!CliRefreshes \/ M!CliWrites \/ M!Expires
  /\ UNCHANGED <<poolVars, mode, process, inFlight, polling>>

-----------------------------------------------------------------------------
(* The poller.                                                             *)

Polling == doing[ThePoller] # "idle"

(* pollAll *)
BeginPass ==
  /\ poller = "delayed" \/ (poller = "select" /\ ticked)
  /\ poller' = "pass"
  /\ queue' = present
  /\ ticked' = FALSE
  /\ UNCHANGED <<poolVars, manager, mode, process, inFlight>>

PollNext ==
  /\ poller = "pass" /\ ~Polling
  /\ IF Stopping \/ queue = {}
     THEN /\ poller' = "select" /\ queue' = {}
          /\ UNCHANGED poolVars
     ELSE \E a \in queue :
            /\ queue' = queue \ {a}
            /\ IF a \in present THEN Poll(ThePoller, a) ELSE UNCHANGED poolVars
            /\ UNCHANGED poller
  /\ UNCHANGED <<manager, mode, process, inFlight, ticked>>

(* A reading or an error, which is one of banned, throttled, unauthorized   *)
(* and transient: either way the account's health stays as it is.           *)
GetUsageLimits == Drop(ThePoller)

(* pollOne, with the token the vault has or with one it has refreshed; or   *)
(* that refresh is refused.                                                 *)
PollOne ==
  /\ poller = "pass"
  /\ GetUsageLimits \/ Unauthorized(ThePoller) \/ Unpin(ThePoller)
  /\ UNCHANGED <<manager, mode, process, inFlight, polling>>

Ticker ==
  /\ poller # "done"
  /\ ticked' = TRUE
  /\ UNCHANGED <<poolVars, manager, mode, process, inFlight, poller, queue>>

(* Faulty: looks for the end only where the delay is.                      *)
PollerEndsEarly ==
  /\ poller = "delayed" /\ Stopping
  /\ poller' = "done"
  /\ UNCHANGED <<poolVars, manager, mode, process, inFlight, queue, ticked>>

PollerEnds ==
  /\ poller \in {"delayed", "select"} /\ Stopping
  /\ poller' = "done"
  /\ UNCHANGED <<poolVars, manager, mode, process, inFlight, queue, ticked>>

-----------------------------------------------------------------------------
(* awaitShutdown.                                                          *)

Moves(to) ==
  /\ process' = to
  /\ UNCHANGED <<poolVars, manager, mode, inFlight, polling>>

Signal == process = "serving" /\ Moves("draining")

(* ListenAndServe fails: the process exits without a shutdown.             *)
ListenFails == process = "serving" /\ inFlight = {} /\ poller \in {"delayed", "done"} /\ Moves("exited")

Drained == process = "draining" /\ inFlight = {} /\ Moves("stopping")

(* The timeout of Shutdown: the handlers go on.                            *)
DrainTimesOut == process = "draining" /\ inFlight # {} /\ Moves("stopping")

PollerStopped == process = "stopping" /\ poller = "done" /\ Moves("closing")

(* vault.Close and the end of runServe.                                    *)
Exit == process = "closing" /\ Moves("exited")

Shutdown == Drained \/ DrainTimesOut \/ PollerStopped \/ Exit

-----------------------------------------------------------------------------
Passes == BeginPass \/ PollNext \/ PollOne

Clock ==
  /\ Tick
  /\ UNCHANGED <<manager, mode, process, inFlight, polling>>

InVaultMode ==
  \/ \E r \in Handlers : UsePool(r)
  \/ Passes \/ Ticker \/ PollerEnds \/ Clock

InKiroCLIMode ==
  \/ \E r \in Handlers : UseCredentials(r) \/ Join(r)
  \/ Fly \/ Elsewhere

ServerNext ==
  /\ process # "exited"
  /\ \/ \E r \in Handlers : Arrive(r) \/ Leave(r)
     \/ mode = "vault" /\ InVaultMode
     \/ mode = "kiro-cli" /\ InKiroCLIMode
     \/ Signal \/ ListenFails \/ Shutdown

ServerSpec == ServerInit /\ [][ServerNext]_serverVars

Runs(A) == process # "exited" /\ A

(* Goroutines go on running, every call of upstream has a timeout, and a   *)
(* select does not pass over a channel that is ready for ever.             *)
FairServerSpec ==
  /\ ServerSpec
  /\ WF_serverVars(Runs(mode = "vault" /\ Clock))
  /\ WF_serverVars(Runs(mode = "vault" /\ Passes))
  /\ SF_serverVars(Runs(mode = "vault" /\ PollerEnds))
  /\ WF_serverVars(Runs(mode = "kiro-cli" /\ Fly))
  /\ \A r \in Handlers : WF_serverVars(Runs(mode = "kiro-cli" /\ Join(r)))
  /\ WF_serverVars(Shutdown)

-----------------------------------------------------------------------------
(* A poll has just found the refresh token of a refused: nothing else makes *)
(* the poller release pins.                                                *)
FoundRefused(a) == doing[ThePoller] = "unpinning" /\ using[ThePoller] = a

(* However late the failures of its requests come in, and whatever else    *)
(* the poller finds, every account leaves its cooldown again while the     *)
(* process runs, unless polls keep finding its refresh token refused.      *)
AccountsRecover ==
  \A a \in Accounts : []<>(~Cooling(a) \/ FoundRefused(a) \/ process = "exited")

(* No caller is handed older credentials than a caller before it, whatever *)
(* is cached, invalidated, read and refreshed in between, by kiroxy or by  *)
(* kiro-cli (refresh.go refreshCredentials).                               *)
NeverOlder == M!NeverOlder

(* Whoever asks the AuthManager is answered while the process runs.        *)
HandlersAnswered ==
  \A r \in Handlers : asking[r] # "idle" ~> asking[r] = "idle" \/ process = "exited"

(* A signal ends the process, though handlers hang, a pass is under way    *)
(* and the ticker has fired again (awaitShutdown waits for the server, but *)
(* not for long, and for the poller, which has to notice).                 *)
ShutdownEnds == process = "draining" ~> process = "exited"

=============================================================================
