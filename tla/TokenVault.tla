----------------------------- MODULE TokenVault -----------------------------
(***************************************************************************)
(* The generation-lock protocol of internal/tokenvault on one row, driven  *)
(* by the most general clients the code has:                               *)
(*   - refresh sessions (pool.refreshOneInner, Vault.Refresh), in one or   *)
(*     several processes, that Reserve and later commit or release with    *)
(*     the generation Reserve gave them, or die in between;                *)
(*   - writers that Get the row and patch its metadata with a commit under *)
(*     the generation they read (pool.ensureMachineID and the ban written  *)
(*     by TokenGetter.RecordStructuralError), which take no lock;          *)
(*   - the operator's commands, that Save or Delete the row.               *)
(*   - an import that checks the row it read before it saves over it.      *)
(***************************************************************************)
EXTENDS Bundle

CONSTANTS
  Sessions,      \* refresh sessions
  Writers,       \* metadata writers
  MachineID,     \* the metadata key "machine_id"
  BanUntil,      \* the metadata key "suspicious_ban_until"
  ExpiresAt,     \* the metadata key "expires_at"
  IdOf,          \* IdOf[w]: the UUID writer w generates
  Stamp,         \* a time written to expires_at or suspicious_ban_until
  None,          \* a client that holds nothing
  MaxGeneration, \* bound: writers and sessions stop at this generation
  MaxEra         \* bound: how often the operator deletes the row

ASSUME VaultAssumption ==
  /\ {MachineID, BanUntil, ExpiresAt} \subseteq MetaKeys
  /\ MachineID # BanUntil /\ MachineID # ExpiresAt
  /\ IdOf \in [Writers -> MetaValues]
  /\ Stamp \in MetaValues
  /\ MaxGeneration \in Nat /\ MaxEra \in Nat
  /\ Sessions \cap Writers = {}
  /\ NoBundle \notin TokenPairs

VARIABLES
  row,      \* the row, or NoBundle
  held,     \* held[s]: the locals of session s between Reserve and its end
  seen,     \* seen[w]: the bundle writer w read and has not used yet
  era,      \* history: how many times the row has been deleted
  strayed   \* history: some session has outlived its reservation

vars == <<row, held, seen, era, strayed>>

Holds == [tokens     : TokenPairs,   \* the refresh token Reserve returned
          generation : Nat,          \* the generation Reserve returned
          lease      : 0 .. LockTTL, \* time left of what Reserve granted
          era        : Nat]

Reads == [bundle : Bundles, era : Nat]

ASSUME NoneAssumption == None \notin Holds /\ None \notin Reads

TypeOK ==
  /\ row \in Bundles \cup {NoBundle}
  /\ held \in [Sessions -> Holds \cup {None}]
  /\ seen \in [Writers -> Reads \cup {None}]
  /\ era \in Nat
  /\ strayed \in BOOLEAN

Patch(key, value) == [NoMetadata EXCEPT ![key] = value]

Init ==
  /\ row = NoBundle
  /\ held = [s \in Sessions |-> None]
  /\ seen = [w \in Writers |-> None]
  /\ era = 0
  /\ strayed = FALSE

Bounded == IF row = NoBundle THEN TRUE ELSE row.generation < MaxGeneration

(* ---- the operator: add-account, import, debug-refresh; remove-account *)

Save(tokens, metadata) ==
  /\ Bounded
  /\ row' = Saved(row, tokens, metadata)
  /\ UNCHANGED <<held, seen, era, strayed>>

(* No generation check, and not under Vault.mu: a running refresh does not *)
(* hold it off.                                                            *)
Delete ==
  /\ row # NoBundle /\ era < MaxEra
  /\ row' = NoBundle
  /\ era' = era + 1
  /\ strayed' = (strayed \/ \E s \in Sessions : held[s] # None)
  /\ UNCHANGED <<held, seen>>

(* ---- refresh sessions *)

Reserve(s) ==
  /\ held[s] = None
  /\ ReserveOutcome(row) = "ok"
  /\ row' = Reserved(row)
  /\ held' = [held EXCEPT ![s] = [tokens     |-> row.tokens,
                                  generation |-> row.generation,
                                  lease      |-> LockTTL,
                                  era        |-> era]]
  /\ UNCHANGED <<seen, era, strayed>>

End(s) == held' = [held EXCEPT ![s] = None]

Commits(s) == /\ held[s] # None
              /\ CommitOutcome(row, held[s].generation) = "ok"

(* A refresh that succeeded upstream: the new pair and its expires_at.     *)
Commit(s) ==
  /\ Commits(s) /\ Bounded
  /\ \E tokens \in TokenPairs, patch \in {NoMetadata, Patch(ExpiresAt, Stamp)} :
       row' = Committed(row, tokens, patch)
  /\ End(s)
  /\ UNCHANGED <<seen, era, strayed>>

(* The commit failed: the session releases with the same generation.       *)
CommitFails(s) ==
  /\ held[s] # None
  /\ CommitOutcome(row, held[s].generation) # "ok"
  /\ row' = Released(row, held[s].generation, FALSE)
  /\ End(s)
  /\ UNCHANGED <<seen, era, strayed>>

(* A refresh that failed upstream. *)
Release(s) ==
  /\ held[s] # None
  /\ \E onlyIfExpired \in BOOLEAN :
       row' = Released(row, held[s].generation, onlyIfExpired)
  /\ End(s)
  /\ UNCHANGED <<seen, era, strayed>>

(* The session's process dies, or its last transaction fails: the row      *)
(* stays locked.                                                           *)
Abandon(s) ==
  /\ held[s] # None
  /\ End(s)
  /\ UNCHANGED <<row, seen, era, strayed>>

(* ---- metadata writers: they look at no lock, so what a row says of its  *)
(* lock plays no part in what they read                                    *)

Get(w) ==
  /\ seen[w] = None /\ row # NoBundle
  /\ seen' = [seen EXCEPT ![w] = [bundle |-> Unlocked(row), era |-> era]]
  /\ UNCHANGED <<row, held, era, strayed>>

(* CommitWithMetaPatch under the generation read, giving back the tokens   *)
(* read; an error, the generation's or the database's, is logged and the   *)
(* writer goes on without.                                                 *)
WritePatch(w, patch) ==
  /\ \/ /\ CommitOutcome(row, seen[w].bundle.generation) = "ok" /\ Bounded
        /\ row' = Committed(row, seen[w].bundle.tokens, patch)
     \/ UNCHANGED row
  /\ seen' = [seen EXCEPT ![w] = None]
  /\ UNCHANGED <<held, era, strayed>>

EnsureMachineID(w) ==
  /\ seen[w] # None
  /\ seen[w].bundle.metadata[MachineID] = Absent
  /\ WritePatch(w, Patch(MachineID, IdOf[w]))

PersistBan(w) ==
  /\ seen[w] # None
  /\ WritePatch(w, Patch(BanUntil, Stamp))

(* import-json without -allow-overwrite: the access token read is the one  *)
(* being imported, so the entry is saved, with no look at the row again.   *)
ImportJSON(w) ==
  /\ seen[w] # None /\ Bounded
  /\ row' = Saved(row, seen[w].bundle.tokens, Patch(ExpiresAt, Stamp))
  /\ seen' = [seen EXCEPT ![w] = None]
  /\ UNCHANGED <<held, era, strayed>>

(* The bundle read already has a machine id: nothing to write. *)
UseRead(w) ==
  /\ seen[w] # None
  /\ seen[w].bundle.metadata[MachineID] # Absent
  /\ seen' = [seen EXCEPT ![w] = None]
  /\ UNCHANGED <<row, held, era, strayed>>

(* ---- time *)

Older(h) == IF h = None THEN None ELSE [h EXCEPT !.lease = Sooner(@)]

Tick ==
  /\ row' = Aged(row)
  /\ held' = [s \in Sessions |-> Older(held[s])]
  /\ strayed' = (strayed \/ \E s \in Sessions : held[s] # None /\ held[s].lease <= 1)
  /\ UNCHANGED <<seen, era>>

(* The metadata a command writes is made anew: it never has a machine id   *)
(* or a ban, and an expires_at only from import-json and debug-refresh.    *)
SavedMetadata == {NoMetadata, Patch(ExpiresAt, Stamp)}

SaveSome == \E tokens \in TokenPairs, metadata \in SavedMetadata :
              Save(tokens, metadata)

SessionStep(s) == Reserve(s) \/ Commit(s) \/ CommitFails(s) \/ Release(s) \/ Abandon(s)

WriterStep(w) ==
  Get(w) \/ EnsureMachineID(w) \/ PersistBan(w) \/ ImportJSON(w) \/ UseRead(w)

(* The steps taken while the operator does not remove the account. *)
ServingNext ==
  \/ SaveSome
  \/ \E s \in Sessions : SessionStep(s)
  \/ \E w \in Writers : WriterStep(w)
  \/ Tick

Next == ServingNext \/ Delete

Spec == Init /\ [][Next]_vars

ServingSpec == Init /\ [][ServingNext]_vars

(* Time passes.  Sessions and writers are not assumed to make progress.    *)
FairSpec == Spec /\ WF_vars(Tick)

-----------------------------------------------------------------------------
(* Properties *)

SameEra == row # NoBundle /\ row' # NoBundle /\ era' = era

(* A commit is accepted only if the row still has the tokens its session   *)
(* reserved, as long as nobody has removed the account meanwhile: a        *)
(* refresh never overwrites a newer rotation (Commit's generation check).  *)
NoStaleCommit ==
  [][\A s \in Sessions :
       Commit(s) /\ held[s].era = era => row.tokens = held[s].tokens]_vars

(* Writing a machine id or a ban gives back the tokens read earlier; it    *)
(* never changes the tokens stored, while the row is not removed.          *)
PatchKeepsTokens ==
  [][\A w \in Writers :
       (EnsureMachineID(w) \/ PersistBan(w)) /\ seen[w].era = era /\ SameEra
          => row'.tokens = row.tokens]_vars

(* Requests that race to generate an account's machine id agree: once the  *)
(* row has one, only the operator replaces it (ensureMachineID).  A writer *)
(* whose read is older than a removal is left out.                         *)
MachineIDStable ==
  [][ \/ SaveSome \/ \E w \in Writers : ImportJSON(w)
      \/ \E w \in Writers : seen[w] # None /\ seen[w].era # era
      \/ SameEra /\ row.metadata[MachineID] # Absent
           => row'.metadata[MachineID] = row.metadata[MachineID] ]_vars

(* Whatever changes the tokens or the metadata also raises the generation, *)
(* and nothing lowers it while the row exists: that is what makes the      *)
(* generation a version number commits can be checked against.             *)
GenerationIsVersion ==
  [][SameEra =>
       /\ row'.generation >= row.generation
       /\ row'.tokens # row.tokens \/ row'.metadata # row.metadata
            => row'.generation > row.generation]_vars

(* A lock left behind by a session that died does not last: the row can    *)
(* always be reserved again, or is gone, or has no refresh token.          *)
AlwaysReservable == []<>(ReserveOutcome(row) # "ErrLockHeld")

(* What makes the properties above inductive: a client that read the row   *)
(* in its present era has read its present version or an older one, and    *)
(* what it read of the present version is what the row still has.          *)
CurrentEra(h) == h # None /\ h.era = era

SessionReads ==
  \A s \in Sessions : CurrentEra(held[s]) =>
    /\ row # NoBundle
    /\ held[s].generation <= row.generation
    /\ held[s].generation = row.generation => held[s].tokens = row.tokens

WriterReads ==
  \A w \in Writers : CurrentEra(seen[w]) =>
    /\ row # NoBundle
    /\ seen[w].bundle.generation <= row.generation
    /\ seen[w].bundle.generation = row.generation =>
         /\ seen[w].bundle.tokens = row.tokens
         /\ seen[w].bundle.metadata = row.metadata

PastReads ==
  /\ \A s \in Sessions : held[s] # None => held[s].era <= era
  /\ \A w \in Writers : seen[w] # None => seen[w].era <= era

VersionInv == SessionReads /\ WriterReads /\ PastReads

(* While every session ends within its lock TTL and before its row is      *)
(* removed, one session at most holds a reservation of the row's present   *)
(* generation, and the row is locked for exactly as long as that session's *)
(* own lease lasts: no Release or Commit of another frees it early.        *)
HoldsVersion(s) == CurrentEra(held[s]) /\ held[s].generation = row.generation

LockHolder ==
  ~strayed =>
    /\ \A s \in Sessions : held[s] # None => CurrentEra(held[s])
    /\ \A s \in Sessions : HoldsVersion(s) => row.lock = held[s].lease /\ row.lock > 0
    /\ \A s, t \in Sessions : HoldsVersion(s) /\ HoldsVersion(t) => s = t

(* While no operator removes the account, the vault is a versioned cell    *)
(* holding the token pair: its generation is the version, and a client's   *)
(* base is what Reserve or Get gave it (Commit and CommitWithMetaPatch are *)
(* compare-and-swap).                                                      *)
CellVersion == IF row = NoBundle THEN 0 ELSE row.generation

CellValue == IF row = NoBundle THEN NoBundle ELSE row.tokens

Base(generation, tokens) == [version |-> generation, value |-> tokens]

CellBase ==
  [c \in Sessions \cup Writers |->
     IF c \in Sessions
     THEN IF held[c] = None THEN None
          ELSE Base(held[c].generation, held[c].tokens)
     ELSE IF seen[c] = None THEN None
          ELSE Base(seen[c].bundle.generation, seen[c].bundle.tokens)]

Cell == INSTANCE VersionedCell WITH
  Values  <- TokenPairs,
  Clients <- Sessions \cup Writers,
  Empty   <- NoBundle,
  Nothing <- None,
  version <- CellVersion,
  value   <- CellValue,
  base    <- CellBase

IsVersionedCell == Cell!CellSpec

=============================================================================
