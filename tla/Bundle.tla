------------------------------- MODULE Bundle -------------------------------
(***************************************************************************)
(* One row of the token_bundles table of internal/tokenvault/vault.go, the *)
(* credentials of one (provider, connection_id), and what each SQL         *)
(* transaction of the vault does to it.  Every vault operation runs in one *)
(* SQLite transaction under Vault.mu, so it is one function of the row.    *)
(*                                                                         *)
(* A token pair (access and refresh token) is one opaque value.  The lock  *)
(* columns are one field, the time left until RefreshLockExpiresAt while   *)
(* RefreshInProgress; it is 0 both for a free row and for one whose        *)
(* deadline has passed, which no operation tells apart.  The columns       *)
(* nothing reads back (previous_refresh_token, updated_at, source,         *)
(* refresh_started_at) are left out.                                       *)
(***************************************************************************)
EXTENDS Integers

CONSTANTS
  TokenPairs,     \* the token pairs that logins and refreshes produce
  Unrefreshable,  \* the pairs whose refresh token is the empty string
  MetaKeys,       \* keys of the metadata JSON object
  MetaValues,     \* values of those keys
  Absent,         \* the value of a key the object does not have
  LockTTL,        \* the lockTTL given to Reserve, in clock ticks
  NoBundle        \* the row that is not in the table

ASSUME BundleAssumption ==
  /\ Unrefreshable \subseteq TokenPairs
  /\ Absent \notin MetaValues
  /\ LockTTL \in Nat \ {0}

Metadata == [MetaKeys -> MetaValues \cup {Absent}]

NoMetadata == [k \in MetaKeys |-> Absent]

Bundles == [tokens     : TokenPairs,
            generation : Nat,
            metadata   : Metadata,
            lock       : 0 .. LockTTL]

ASSUME NoBundleAssumption == NoBundle \notin Bundles

(* json.Unmarshal of the stored object, then `merged[k] = val` for each    *)
(* key of the patch.                                                       *)
Merge(metadata, patch) ==
  [k \in MetaKeys |-> IF patch[k] # Absent THEN patch[k] ELSE metadata[k]]

Unlocked(b) == [b EXCEPT !.lock = 0]

(* Faulty variants of the operators below, one mistake each.  Each of them  *)
(* breaks a property of TokenVault that the operator it stands for keeps.  *)
ReserveOutcomeUnlocked(b) ==               \* no look at the lock
  IF b = NoBundle THEN "ErrNotFound" ELSE "ok"

CommitOutcomeUnversioned(b, generation) == \* no generation check
  IF b = NoBundle THEN "ErrNotFound" ELSE "ok"

CommittedInPlace(b, tokens, patch) ==      \* does not raise the generation
  [b EXCEPT !.tokens = tokens, !.metadata = Merge(@, patch), !.lock = 0]

AgedNever(b) == b                          \* a deadline that never comes

(* Save: an upsert.  The generation continues from the prior row if there  *)
(* is one and restarts at 1 otherwise; metadata and lock are overwritten.  *)
Saved(b, tokens, metadata) ==
  [tokens     |-> tokens,
   generation |-> IF b = NoBundle THEN 1 ELSE b.generation + 1,
   metadata   |-> metadata,
   lock       |-> 0]

ReserveOutcome(b) ==
  CASE b = NoBundle                       -> "ErrNotFound"
    [] b # NoBundle /\ b.tokens \in Unrefreshable
                                          -> "ErrNoRefreshToken"
    [] b # NoBundle /\ b.tokens \notin Unrefreshable
         /\ b.lock > 0                    -> "ErrLockHeld"
    [] OTHER                              -> "ok"

Reserved(b) == [b EXCEPT !.lock = LockTTL]

(* Commit and CommitWithMetaPatch look at the generation alone: neither    *)
(* asks whether the row is locked, or by whom.                             *)
CommitOutcome(b, generation) ==
  CASE b = NoBundle                                      -> "ErrNotFound"
    [] b # NoBundle /\ b.generation # generation         -> "ErrGenerationStale"
    [] OTHER                                             -> "ok"

(* Commit is the case of an empty patch. *)
Committed(b, tokens, patch) ==
  [tokens     |-> tokens,
   generation |-> b.generation + 1,
   metadata   |-> Merge(b.metadata, patch),
   lock       |-> 0]

(* Release clears the lock of any row at this generation, whoever took it. *)
Released(b, generation, onlyIfExpired) ==
  IF \/ b = NoBundle
     \/ b.generation # generation
     \/ onlyIfExpired /\ b.lock > 0
  THEN b
  ELSE Unlocked(b)

(* The clock moves one tick nearer to the lock's deadline. *)
Sooner(t) == IF t = 0 THEN 0 ELSE t - 1

Aged(b) == IF b = NoBundle THEN b ELSE [b EXCEPT !.lock = Sooner(@)]
=============================================================================
