----------------------------- MODULE Vault_proofs -----------------------------
(***************************************************************************)
(* Proofs about the vault, for every set of processes, sessions, writers   *)
(* and tokens: of TokenVault; of RefreshFlow, for every number of retries; *)
(* and of AccountCommands, for every set of operators and callers and      *)
(* every polling interval.                                                 *)
(***************************************************************************)
EXTENDS AccountCommands, TLAPS

-----------------------------------------------------------------------------
(* TokenVault                                                               *)

-----------------------------------------------------------------------------
(* What the row operators return *)

(* The shallow merge of two metadata objects is a metadata object. *)
LEMMA MergeType ==
  ASSUME NEW m \in Metadata, NEW p \in Metadata
  PROVE  Merge(m, p) \in Metadata
BY DEF Merge, Metadata

(* NoMetadata and the one-key patches of the code are metadata objects. *)
LEMMA PatchType ==
  /\ NoMetadata \in Metadata
  /\ \A k \in MetaKeys, v \in MetaValues : Patch(k, v) \in Metadata
BY DEF NoMetadata, Patch, Metadata

(* Save and Commit make a row: its generation is one more than the row's,  *)
(* and Save makes one where there is none.                                 *)
LEMMA WriteRow ==
  ASSUME NEW tokens \in TokenPairs, NEW m \in Metadata
  PROVE  /\ Saved(NoBundle, tokens, m) \in Bundles
         /\ \A b \in Bundles :
              /\ Saved(b, tokens, m) \in Bundles
              /\ Saved(b, tokens, m).generation = b.generation + 1
              /\ Saved(b, tokens, m).tokens = tokens
              /\ Committed(b, tokens, m) \in Bundles
              /\ Committed(b, tokens, m).generation = b.generation + 1
              /\ Committed(b, tokens, m).tokens = tokens
              /\ Committed(b, tokens, m).metadata = Merge(b.metadata, m)
              /\ Committed(b, tokens, m).lock = 0
<1>1. Saved(NoBundle, tokens, m) \in Bundles
  BY BundleAssumption DEF Saved, Bundles
<1>2. ASSUME NEW b \in Bundles
      PROVE  /\ Saved(b, tokens, m) \in Bundles
             /\ Saved(b, tokens, m).generation = b.generation + 1
             /\ Saved(b, tokens, m).tokens = tokens
  BY BundleAssumption, NoBundleAssumption DEF Saved, Bundles
<1>3. ASSUME NEW b \in Bundles
      PROVE  /\ Committed(b, tokens, m) \in Bundles
             /\ Committed(b, tokens, m).generation = b.generation + 1
             /\ Committed(b, tokens, m).tokens = tokens
             /\ Committed(b, tokens, m).metadata = Merge(b.metadata, m)
             /\ Committed(b, tokens, m).lock = 0
  BY MergeType, BundleAssumption DEF Committed, Bundles
<1> QED BY <1>1, <1>2, <1>3

(* r is the row b, but for its lock. *)
SameData(b, r) ==
  /\ r \in Bundles
  /\ r.generation = b.generation
  /\ r.tokens = b.tokens
  /\ r.metadata = b.metadata

(* Reserve, Release and the clock change a row's lock and nothing else,    *)
(* and none of them makes a row.                                           *)
LEMMA LockRow ==
  /\ \A g, o : Released(NoBundle, g, o) = NoBundle
  /\ Aged(NoBundle) = NoBundle
  /\ \A b \in Bundles : /\ SameData(b, Reserved(b))
                       /\ \A g, o : SameData(b, Released(b, g, o))
                       /\ SameData(b, Aged(b))
                       /\ SameData(b, Unlocked(b))
<1>1. (\A g, o : Released(NoBundle, g, o) = NoBundle) /\ Aged(NoBundle) = NoBundle
  BY DEF Released, Aged
<1>2. ASSUME NEW b \in Bundles, NEW t \in 0 .. LockTTL
      PROVE  SameData(b, [b EXCEPT !.lock = t])
  BY DEF Bundles, SameData
<1>4. \A b \in Bundles : SameData(b, b)
  BY DEF SameData
<1>3. ASSUME NEW b \in Bundles
      PROVE  LockTTL \in 0 .. LockTTL /\ 0 \in 0 .. LockTTL
             /\ Sooner(b.lock) \in 0 .. LockTTL
  BY BundleAssumption DEF Bundles, Sooner
<1> QED BY <1>1, <1>2, <1>3, <1>4, NoBundleAssumption
        DEF Reserved, Released, Unlocked, Aged

(* Reserve and Commit succeed only on a row that is there, and Reserve     *)
(* only on one whose lock is free or has passed its deadline.              *)
LEMMA Outcomes ==
  ASSUME NEW b \in Bundles \cup {NoBundle}, NEW g
  PROVE  /\ ReserveOutcome(b) = "ok" => b \in Bundles /\ b.lock = 0
         /\ CommitOutcome(b, g) = "ok" => b \in Bundles /\ b.generation = g
<1>1. CommitOutcome(b, g) = "ok" => b \in Bundles /\ b.generation = g
  BY DEF CommitOutcome
<1>2. ASSUME ReserveOutcome(b) = "ok" PROVE b # NoBundle
  BY <1>2 DEF ReserveOutcome
<1>3. ASSUME ReserveOutcome(b) = "ok", b # NoBundle PROVE ~(b.lock > 0)
  BY <1>3 DEF ReserveOutcome
<1>4. b \in Bundles => b.lock \in Nat
  BY BundleAssumption DEF Bundles
<1> QED BY <1>1, <1>2, <1>3, <1>4

(* A session's lease only gets shorter. *)
LEMMA OlderType ==
  ASSUME NEW h \in Holds
  PROVE  /\ Older(h) \in Holds
         /\ Older(h).tokens = h.tokens
         /\ Older(h).generation = h.generation
         /\ Older(h).era = h.era
         /\ Older(h).lease = Sooner(h.lease)
<1>1. h # None
  BY NoneAssumption
<1>2. Sooner(h.lease) \in 0 .. LockTTL
  BY BundleAssumption DEF Holds, Sooner
<1> QED BY <1>1, <1>2 DEF Older, Holds

-----------------------------------------------------------------------------
(* Type correctness *)

LEMMA TypeInit == Init => TypeOK
<1> SUFFICES ASSUME Init PROVE TypeOK
  OBVIOUS
<1>1. /\ held \in [Sessions -> Holds \cup {None}]
      /\ seen \in [Writers -> Reads \cup {None}]
  BY DEF Init
<1>2. row \in Bundles \cup {NoBundle} /\ era \in Nat /\ strayed \in BOOLEAN
  BY DEF Init
<1> QED BY <1>1, <1>2 DEF TypeOK

(* The patches writers and sessions pass are metadata objects. *)
LEMMA PatchesType ==
  /\ NoMetadata \in Metadata
  /\ Patch(ExpiresAt, Stamp) \in Metadata
  /\ Patch(BanUntil, Stamp) \in Metadata
  /\ \A w \in Writers : Patch(MachineID, IdOf[w]) \in Metadata
BY PatchType, VaultAssumption

LEMMA TypeStep == TypeOK /\ [Next]_vars => TypeOK'
<1> SUFFICES ASSUME TypeOK, [Next]_vars PROVE TypeOK'
  OBVIOUS
<1> USE DEF TypeOK
<1>1. ASSUME NEW tokens \in TokenPairs, NEW m \in SavedMetadata, Save(tokens, m)
      PROVE  TypeOK'
  <2>1. m \in Metadata
    BY PatchesType DEF SavedMetadata
  <2>2. Saved(row, tokens, m) \in Bundles
    BY <2>1, WriteRow
  <2> QED BY <1>1, <2>2 DEF Save
<1>2. ASSUME NEW s \in Sessions, Reserve(s) PROVE TypeOK'
  <2>1. row \in Bundles
    BY <1>2, Outcomes DEF Reserve
  <2>2. [tokens |-> row.tokens, generation |-> row.generation,
         lease |-> LockTTL, era |-> era] \in Holds
    BY <2>1, BundleAssumption DEF Bundles, Holds
  <2>3. Reserved(row) \in Bundles
    BY <2>1, LockRow DEF SameData
  <2> QED BY <1>2, <2>2, <2>3 DEF Reserve
<1>3. ASSUME NEW s \in Sessions, Commit(s) PROVE TypeOK'
  <2>1. row \in Bundles
    BY <1>3, Outcomes DEF Commit, Commits
  <2>2. row' \in Bundles
    BY <1>3, <2>1, WriteRow, PatchesType DEF Commit
  <2> QED BY <1>3, <2>2 DEF Commit, End
<1>4. ASSUME NEW s \in Sessions, CommitFails(s) \/ Release(s) PROVE TypeOK'
  <2>1. \A g, o : Released(row, g, o) \in Bundles \cup {NoBundle}
    BY LockRow DEF SameData
  <2> QED BY <1>4, <2>1 DEF CommitFails, Release, End
<1>5. ASSUME NEW s \in Sessions, Abandon(s) PROVE TypeOK'
  BY <1>5 DEF Abandon, End
<1>6. ASSUME NEW w \in Writers, Get(w) PROVE TypeOK'
  <2>1. Unlocked(row) \in Bundles
    BY <1>6, LockRow DEF Get, SameData
  <2> QED BY <1>6, <2>1 DEF Get, Reads
<1>7. ASSUME NEW w \in Writers, NEW p \in Metadata, seen[w] # None, WritePatch(w, p)
      PROVE  TypeOK'
  <2>1. seen[w].bundle.tokens \in TokenPairs
    BY <1>7 DEF Reads, Bundles
  <2>2. row \in Bundles => Committed(row, seen[w].bundle.tokens, p) \in Bundles
    BY <2>1, WriteRow
  <2>3. row' # row => row \in Bundles
    BY <1>7, Outcomes DEF WritePatch
  <2>4. row' \in Bundles \cup {NoBundle}
    BY <1>7, <2>2, <2>3 DEF WritePatch
  <2> QED BY <1>7, <2>4 DEF WritePatch
<1>8. ASSUME NEW w \in Writers, ImportJSON(w) PROVE TypeOK'
  <2>1. seen[w].bundle.tokens \in TokenPairs
    BY <1>8 DEF Reads, Bundles, ImportJSON
  <2>2. row' \in Bundles
    BY <1>8, <2>1, PatchesType, WriteRow DEF ImportJSON
  <2> QED BY <1>8, <2>2 DEF ImportJSON
<1>9. ASSUME NEW w \in Writers, UseRead(w) PROVE TypeOK'
  BY <1>9 DEF UseRead
<1>10. CASE Tick
  <2>1. row' \in Bundles \cup {NoBundle}
    BY <1>10, LockRow DEF SameData, Tick
  <2>2. \A s \in Sessions : Older(held[s]) \in Holds \cup {None}
    BY OlderType DEF Older
  <2> QED BY <1>10, <2>1, <2>2 DEF Tick
<1>11. CASE Delete
  BY <1>11 DEF Delete
<1>12. CASE UNCHANGED vars
  BY <1>12 DEF vars
<1> QED
  BY <1>1, <1>2, <1>3, <1>4, <1>5, <1>6, <1>7, <1>8, <1>9, <1>10, <1>11, <1>12,
     PatchesType
  DEF Next, ServingNext, SaveSome, SessionStep, WriterStep, EnsureMachineID, PersistBan

(* The vault's row, its clients' locals and the history variables keep     *)
(* their types in every behaviour, whatever the operator does.             *)
THEOREM TypeCorrect == Spec => []TypeOK
BY TypeInit, TypeStep, PTL DEF Spec

-----------------------------------------------------------------------------
(* Versions: what a client read of the present generation is still there   *)

(* A step that writes no tokens and no metadata keeps every client's read  *)
(* current, if it also adds no read and starts no era.                     *)
LEMMA KeepsReads ==
  ASSUME TypeOK, VersionInv, era' = era,
         row \in Bundles => SameData(row, row'),
         \A s \in Sessions : held'[s] # None =>
            /\ held[s] # None
            /\ held'[s].era = held[s].era
            /\ held'[s].generation = held[s].generation
            /\ held'[s].tokens = held[s].tokens,
         \A w \in Writers : seen'[w] # None => seen'[w] = seen[w]
  PROVE  VersionInv'
<1>1. \A s \in Sessions : CurrentEra(held'[s]) /\ held[s] # None => CurrentEra(held[s])
  BY DEF CurrentEra
<1>2. SessionReads'
  BY NoBundleAssumption DEF SameData, VersionInv, SessionReads, CurrentEra, TypeOK
<1>3. WriterReads'
  BY NoBundleAssumption DEF SameData, VersionInv, WriterReads, CurrentEra, TypeOK
<1>4. PastReads'
  BY DEF VersionInv, PastReads
<1> QED BY <1>2, <1>3, <1>4 DEF VersionInv

(* A step that writes the row under a higher generation leaves every       *)
(* client's read older than it.                                            *)
LEMMA OutdatesReads ==
  ASSUME TypeOK, VersionInv, era' = era,
         row' \in Bundles,
         row \in Bundles => row'.generation = row.generation + 1,
         \A s \in Sessions : held'[s] # None => held'[s] = held[s],
         \A w \in Writers : seen'[w] # None => seen'[w] = seen[w]
  PROVE  VersionInv'
<1>1. SessionReads'
  BY NoBundleAssumption DEF VersionInv, SessionReads, CurrentEra, TypeOK, Bundles, Holds
<1>2. WriterReads'
  BY NoBundleAssumption DEF VersionInv, WriterReads, CurrentEra, TypeOK, Bundles, Reads
<1>3. PastReads'
  BY DEF VersionInv, PastReads
<1> QED BY <1>1, <1>2, <1>3 DEF VersionInv

LEMMA VersionInit == Init => VersionInv
BY DEF Init, VersionInv, SessionReads, WriterReads, PastReads, CurrentEra

LEMMA VersionStep == TypeOK /\ VersionInv /\ [Next]_vars => VersionInv'
<1> SUFFICES ASSUME TypeOK, VersionInv, [Next]_vars PROVE VersionInv'
  OBVIOUS
<1>a. TypeOK'
  BY TypeStep
<1>b. row \in Bundles \cup {NoBundle}
  BY DEF TypeOK
<1>1. ASSUME NEW tokens \in TokenPairs, NEW m \in SavedMetadata, Save(tokens, m)
      PROVE  VersionInv'
  <2>1. m \in Metadata
    BY PatchesType DEF SavedMetadata
  <2>2. row' \in Bundles /\ (row \in Bundles => row'.generation = row.generation + 1)
    BY <1>1, <1>b, <2>1, WriteRow DEF Save
  <2> QED BY <1>1, <2>2, OutdatesReads DEF Save
<1>2. ASSUME NEW s \in Sessions, Reserve(s) PROVE VersionInv'
  <2>1. row \in Bundles
    BY <1>2, <1>b, Outcomes DEF Reserve
  <2>2. SameData(row, row')
    BY <1>2, <2>1, LockRow DEF Reserve
  <2>3. /\ held'[s].generation = row.generation
        /\ held'[s].tokens = row.tokens
        /\ held'[s].era = era
        /\ \A t \in Sessions \ {s} : held'[t] = held[t]
        /\ era' = era /\ seen' = seen
    BY <1>2 DEF Reserve, TypeOK
  <2>4. SessionReads'
    BY <2>1, <2>2, <2>3, NoBundleAssumption
    DEF SameData, VersionInv, SessionReads, CurrentEra, Bundles
  <2>5. WriterReads'
    BY <2>1, <2>2, <2>3, NoBundleAssumption DEF SameData, VersionInv, WriterReads, CurrentEra
  <2>6. PastReads'
    BY <2>3 DEF VersionInv, PastReads, TypeOK
  <2> QED BY <2>4, <2>5, <2>6 DEF VersionInv
<1>3. ASSUME NEW s \in Sessions, Commit(s) PROVE VersionInv'
  <2>1. row \in Bundles
    BY <1>3, <1>b, Outcomes DEF Commit, Commits
  <2>2. row' \in Bundles /\ row'.generation = row.generation + 1
    BY <1>3, <2>1, WriteRow, PatchesType DEF Commit
  <2> QED BY <1>3, <2>2, OutdatesReads DEF Commit, End, TypeOK
<1>4. ASSUME NEW s \in Sessions, CommitFails(s) \/ Release(s) \/ Abandon(s)
      PROVE  VersionInv'
  <2>1. row' = row \/ \E g, o : row' = Released(row, g, o)
    BY <1>4 DEF CommitFails, Release, Abandon
  <2>2. row \in Bundles => SameData(row, row')
    <3>1. CASE row' = row
      BY <3>1 DEF SameData
    <3>2. ASSUME NEW g, NEW o, row' = Released(row, g, o), row \in Bundles
          PROVE  SameData(row, row')
      BY <3>2, LockRow
    <3> QED BY <2>1, <3>1, <3>2
  <2> QED BY <1>4, <2>2, KeepsReads DEF CommitFails, Release, Abandon, End, TypeOK
<1>5. ASSUME NEW w \in Writers, Get(w) PROVE VersionInv'
  <2>1. /\ row \in Bundles /\ row' = row /\ held' = held /\ era' = era
        /\ SameData(row, seen'[w].bundle) /\ seen'[w].era = era
        /\ \A v \in Writers \ {w} : seen'[v] = seen[v]
    BY <1>5, <1>b, LockRow DEF Get, TypeOK
  <2>2. SessionReads'
    BY <2>1 DEF VersionInv, SessionReads, CurrentEra
  <2>3. WriterReads'
    BY <2>1, NoBundleAssumption DEF VersionInv, WriterReads, CurrentEra, Bundles, SameData
  <2>4. PastReads'
    BY <2>1 DEF VersionInv, PastReads, TypeOK
  <2> QED BY <2>2, <2>3, <2>4 DEF VersionInv
<1>6. ASSUME NEW w \in Writers, NEW p \in Metadata, seen[w] # None, WritePatch(w, p)
      PROVE  VersionInv'
  <2>1. seen[w].bundle.tokens \in TokenPairs
    BY <1>6 DEF TypeOK, Reads, Bundles
  <2>2. /\ \A v \in Writers : seen'[v] # None => seen'[v] = seen[v]
        /\ held' = held /\ era' = era
    BY <1>6 DEF WritePatch, TypeOK
  <2>3. CASE row' # row
    <3>1. row \in Bundles
      BY <1>6, <2>3, <1>b, Outcomes DEF WritePatch
    <3>2. row' \in Bundles /\ row'.generation = row.generation + 1
      BY <1>6, <2>1, <2>3, <3>1, WriteRow DEF WritePatch
    <3> QED BY <2>2, <3>2, OutdatesReads
  <2>4. CASE row' = row
    BY <2>2, <2>4, KeepsReads DEF SameData
  <2> QED BY <2>3, <2>4
<1>7. ASSUME NEW w \in Writers, ImportJSON(w) PROVE VersionInv'
  <2>1. seen[w].bundle.tokens \in TokenPairs
    BY <1>7 DEF TypeOK, Reads, Bundles, ImportJSON
  <2>2. row' \in Bundles /\ (row \in Bundles => row'.generation = row.generation + 1)
    BY <1>7, <1>b, <2>1, WriteRow, PatchesType DEF ImportJSON
  <2> QED BY <1>7, <2>2, OutdatesReads DEF ImportJSON, TypeOK
<1>8. ASSUME NEW w \in Writers, UseRead(w) PROVE VersionInv'
  BY <1>8, KeepsReads DEF SameData, UseRead, TypeOK
<1>9. CASE Tick
  <2>1. row \in Bundles => SameData(row, row')
    BY <1>9, LockRow DEF Tick
  <2>2. \A s \in Sessions : held'[s] # None =>
          /\ held[s] # None
          /\ held'[s].era = held[s].era
          /\ held'[s].generation = held[s].generation
          /\ held'[s].tokens = held[s].tokens
    <3>1. \A s \in Sessions : held'[s] = Older(held[s])
      BY <1>9 DEF Tick
    <3>2. \A s \in Sessions : held[s] \in Holds \/ held[s] = None
      BY DEF TypeOK
    <3> QED BY <3>1, <3>2, OlderType DEF Older
  <2> QED BY <1>9, <2>1, <2>2, KeepsReads DEF Tick
<1>10. CASE Delete
  <2>1. row' = NoBundle /\ era' = era + 1 /\ held' = held /\ seen' = seen
    BY <1>10 DEF Delete
  <2>2. /\ \A s \in Sessions : ~ CurrentEra(held[s])'
        /\ \A w \in Writers : ~ CurrentEra(seen[w])'
    BY <2>1 DEF CurrentEra, VersionInv, PastReads, TypeOK, Holds, Reads
  <2>3. PastReads'
    BY <2>1 DEF VersionInv, PastReads, TypeOK, Holds, Reads
  <2> QED BY <2>2, <2>3 DEF VersionInv, SessionReads, WriterReads
<1>11. CASE UNCHANGED vars
  BY <1>11, KeepsReads DEF SameData, vars
<1> QED
  BY <1>1, <1>2, <1>3, <1>4, <1>5, <1>6, <1>7, <1>8, <1>9, <1>10, <1>11, PatchesType
  DEF Next, ServingNext, SaveSome, SessionStep, WriterStep, EnsureMachineID, PersistBan

(* In every behaviour a client that read the present version of the row    *)
(* knows exactly the tokens and metadata it has: what makes the generation *)
(* check of Commit sufficient.                                             *)
THEOREM VersionsHold == Spec => [](TypeOK /\ VersionInv)
<1>1. Init => TypeOK /\ VersionInv
  BY TypeInit, VersionInit
<1>2. TypeOK /\ VersionInv /\ [Next]_vars => (TypeOK /\ VersionInv)'
  BY TypeStep, VersionStep
<1> QED BY <1>1, <1>2, PTL DEF Spec

-----------------------------------------------------------------------------
(* What commits may do *)

(* A refresh that commits in the era it reserved in overwrites exactly the *)
(* tokens it reserved (Vault.Commit, Vault.CommitWithMetaPatch).           *)
THEOREM CommitsAreCurrent == Spec => NoStaleCommit
<1>1. ASSUME TypeOK, VersionInv, NEW s \in Sessions,
             Commit(s), held[s].era = era
      PROVE  row.tokens = held[s].tokens
  <2>1. held[s] # None /\ held[s].generation = row.generation
    BY <1>1, Outcomes DEF Commit, Commits, TypeOK
  <2> QED BY <1>1, <2>1 DEF VersionInv, SessionReads, CurrentEra
<1>2. TypeOK /\ VersionInv
        => \A s \in Sessions :
             Commit(s) /\ held[s].era = era => row.tokens = held[s].tokens
  BY <1>1
<1> QED BY <1>2, VersionsHold, PTL DEF NoStaleCommit, Spec

(* A metadata write of the era it read in leaves the tokens as they are    *)
(* (ensureMachineID, RecordStructuralError).                               *)
THEOREM PatchesKeepTokens == Spec => PatchKeepsTokens
<1>1. ASSUME TypeOK, VersionInv, NEW w \in Writers, NEW p \in Metadata,
             seen[w] # None, WritePatch(w, p), seen[w].era = era, SameEra
      PROVE  row'.tokens = row.tokens
  <2>1. CASE row' # row
    <3>1. row \in Bundles /\ row.generation = seen[w].bundle.generation
      BY <2>1, <1>1, Outcomes DEF TypeOK, WritePatch
    <3>2. seen[w].bundle.tokens = row.tokens
      BY <1>1, <3>1 DEF VersionInv, WriterReads, CurrentEra
    <3>3. row.tokens \in TokenPairs
      BY <3>1 DEF Bundles
    <3> QED BY <1>1, <2>1, <3>1, <3>2, <3>3, WriteRow DEF WritePatch
  <2>2. CASE row' = row
    BY <2>2
  <2> QED BY <2>1, <2>2
<1>2. TypeOK /\ VersionInv
        => \A w \in Writers :
             (EnsureMachineID(w) \/ PersistBan(w)) /\ seen[w].era = era /\ SameEra
                => row'.tokens = row.tokens
  BY <1>1, PatchesType DEF EnsureMachineID, PersistBan
<1> QED BY <1>2, VersionsHold, PTL DEF PatchKeepsTokens, Spec

(* A patch without a machine id leaves the one in the row. *)
LEMMA PatchKeepsMachineID ==
  ASSUME NEW m \in Metadata, NEW p \in {NoMetadata, Patch(ExpiresAt, Stamp), Patch(BanUntil, Stamp)}
  PROVE  Merge(m, p)[MachineID] = m[MachineID]
<1>1. MachineID \in MetaKeys /\ p \in Metadata
  BY PatchesType, VaultAssumption
<1>2. p[MachineID] = Absent
  BY VaultAssumption DEF Patch, NoMetadata
<1> QED BY <1>1, <1>2 DEF Merge, Metadata

(* How a step changes a row that stays there: its lock at most, or the     *)
(* generation rises by one in an operator's save, an import, a machine id  *)
(* installed, or a commit whose patch leaves the machine id alone.         *)
StepOutcome ==
  \/ SameData(row, row')
  \/ /\ row'.generation = row.generation + 1
     /\ \/ SaveSome
        \/ \E w \in Writers : ImportJSON(w)
        \/ \E w \in Writers :
             /\ EnsureMachineID(w)
             /\ CommitOutcome(row, seen[w].bundle.generation) = "ok"
        \/ \E p \in {NoMetadata, Patch(ExpiresAt, Stamp), Patch(BanUntil, Stamp)} :
             row'.metadata = Merge(row.metadata, p)

(* Every step that keeps the row has such an outcome. *)
LEMMA StepEffect ==
  ASSUME TypeOK, [Next]_vars, SameEra
  PROVE  StepOutcome
<1>a. row \in Bundles
  BY DEF SameEra, TypeOK
<1>b. SameData(row, row)
  BY <1>a DEF SameData
<1>1. ASSUME NEW tokens \in TokenPairs, NEW m \in SavedMetadata, Save(tokens, m)
      PROVE  StepOutcome
  <2>1. m \in Metadata
    BY PatchesType DEF SavedMetadata
  <2> QED BY <1>1, <1>a, <2>1, WriteRow DEF Save, SaveSome, StepOutcome
<1>2. ASSUME NEW s \in Sessions, Reserve(s) PROVE StepOutcome
  BY <1>2, <1>a, LockRow DEF Reserve, StepOutcome
<1>3. ASSUME NEW s \in Sessions, Commit(s) PROVE StepOutcome
  <2>1. PICK tokens \in TokenPairs, p \in {NoMetadata, Patch(ExpiresAt, Stamp)} :
          row' = Committed(row, tokens, p)
    BY <1>3 DEF Commit
  <2> QED BY <1>a, <2>1, WriteRow, PatchesType DEF StepOutcome
<1>4. ASSUME NEW s \in Sessions, CommitFails(s) \/ Release(s) \/ Abandon(s) PROVE StepOutcome
  <2>1. row' = row \/ \E g, o : row' = Released(row, g, o)
    BY <1>4 DEF CommitFails, Release, Abandon
  <2>2. \A g, o : SameData(row, Released(row, g, o))
    BY <1>a, LockRow
  <2> QED BY <1>b, <2>1, <2>2 DEF StepOutcome
<1>5. ASSUME NEW w \in Writers, NEW p \in Metadata, seen[w] # None, WritePatch(w, p)
      PROVE  \/ SameData(row, row')
             \/ /\ row'.generation = row.generation + 1
                /\ row'.metadata = Merge(row.metadata, p)
                /\ CommitOutcome(row, seen[w].bundle.generation) = "ok"
  <2>1. seen[w].bundle.tokens \in TokenPairs
    BY <1>5 DEF TypeOK, Reads, Bundles
  <2> QED BY <1>5, <1>a, <1>b, <2>1, WriteRow DEF WritePatch
<1>6. ASSUME NEW w \in Writers, EnsureMachineID(w) PROVE StepOutcome
  BY <1>5, <1>6, PatchesType DEF EnsureMachineID, StepOutcome
<1>7. ASSUME NEW w \in Writers, PersistBan(w) PROVE StepOutcome
  <2>1. seen[w] # None /\ WritePatch(w, Patch(BanUntil, Stamp))
    BY <1>7 DEF PersistBan
  <2> QED BY <1>5, <2>1, PatchesType DEF StepOutcome
<1>8. ASSUME NEW w \in Writers, ImportJSON(w) PROVE StepOutcome
  <2>1. seen[w].bundle.tokens \in TokenPairs
    BY <1>8 DEF TypeOK, Reads, Bundles, ImportJSON
  <2>2. row'.generation = row.generation + 1
    BY <1>8, <1>a, <2>1, WriteRow, PatchesType DEF ImportJSON
  <2> QED BY <1>8, <2>2 DEF StepOutcome
<1>9. ASSUME NEW w \in Writers, Get(w) \/ UseRead(w) PROVE StepOutcome
  BY <1>9, <1>b DEF Get, UseRead, StepOutcome
<1>10. CASE Tick
  BY <1>10, <1>a, LockRow DEF Tick, StepOutcome
<1>11. CASE Delete
  BY <1>11 DEF Delete, SameEra
<1>12. CASE UNCHANGED vars
  BY <1>12, <1>b DEF vars, StepOutcome
<1> QED
  BY <1>1, <1>2, <1>3, <1>4, <1>6, <1>7, <1>8, <1>9, <1>10, <1>11, <1>12
  DEF Next, ServingNext, SaveSome, SessionStep, WriterStep

(* Every change of the tokens or the metadata of a row raises its          *)
(* generation, and nothing lowers it while the row exists.                 *)
THEOREM GenerationsRise == Spec => GenerationIsVersion
<1>1. TypeOK /\ [Next]_vars
        => (SameEra =>
              /\ row'.generation >= row.generation
              /\ row'.tokens # row.tokens \/ row'.metadata # row.metadata
                   => row'.generation > row.generation)
  <2> SUFFICES ASSUME TypeOK, [Next]_vars, SameEra
               PROVE  /\ row'.generation >= row.generation
                      /\ row'.tokens # row.tokens \/ row'.metadata # row.metadata
                           => row'.generation > row.generation
    OBVIOUS
  <2>1. row.generation \in Nat
    BY DEF TypeOK, SameEra, Bundles
  <2>2. CASE SameData(row, row')
    BY <2>1, <2>2 DEF SameData
  <2>3. CASE row'.generation = row.generation + 1
    BY <2>1, <2>3
  <2> QED BY <2>2, <2>3, StepEffect DEF StepOutcome
<1> QED BY <1>1, TypeCorrect, PTL DEF GenerationIsVersion, Spec

(* Once a row has a machine id only the operator changes it: two requests  *)
(* that both found none do not both install theirs (ensureMachineID).      *)
THEOREM MachineIDsAgree == Spec => MachineIDStable
<1> DEFINE Kept == \/ SaveSome \/ \E w \in Writers : ImportJSON(w)
                   \/ \E w \in Writers : seen[w] # None /\ seen[w].era # era
                   \/ SameEra /\ row.metadata[MachineID] # Absent
                        => row'.metadata[MachineID] = row.metadata[MachineID]
<1>1. ASSUME TypeOK, VersionInv, [Next]_vars PROVE Kept
  <2> SUFFICES ASSUME ~ SaveSome, ~ \E w \in Writers : ImportJSON(w),
                      ~ \E w \in Writers : seen[w] # None /\ seen[w].era # era,
                      SameEra, row.metadata[MachineID] # Absent
               PROVE  row'.metadata[MachineID] = row.metadata[MachineID]
    OBVIOUS
  <2>1. row \in Bundles /\ row.metadata \in Metadata
    BY <1>1 DEF TypeOK, SameEra, Bundles
  <2>2. CASE SameData(row, row')
    BY <2>2 DEF SameData
  <2>3. ASSUME NEW w \in Writers, EnsureMachineID(w),
               CommitOutcome(row, seen[w].bundle.generation) = "ok"
        PROVE  FALSE
    <3>1. CurrentEra(seen[w]) /\ seen[w].bundle.generation = row.generation
      BY <1>1, <2>1, <2>3, Outcomes DEF EnsureMachineID, CurrentEra
    <3>2. seen[w].bundle.metadata = row.metadata
      BY <1>1, <3>1 DEF VersionInv, WriterReads
    <3> QED BY <2>3, <3>2 DEF EnsureMachineID
  <2>4. ASSUME NEW p \in {NoMetadata, Patch(ExpiresAt, Stamp), Patch(BanUntil, Stamp)},
               row'.metadata = Merge(row.metadata, p)
        PROVE  row'.metadata[MachineID] = row.metadata[MachineID]
    BY <2>1, <2>4, PatchKeepsMachineID
  <2> QED BY <1>1, <2>2, <2>3, <2>4, StepEffect DEF StepOutcome
<1>2. TypeOK /\ VersionInv /\ [Next]_vars => Kept
  BY <1>1
<1> QED BY <1>2, VersionsHold, PTL DEF MachineIDStable, Spec

-----------------------------------------------------------------------------
(* The lock *)

(* A step that raises the generation leaves no session holding it. *)
LEMMA NewVersionUnheld ==
  ASSUME TypeOK, VersionInv, LockHolder, era' = era, strayed' = strayed,
         row \in Bundles => row'.generation = row.generation + 1,
         row' \in Bundles,
         \A s \in Sessions : held'[s] # None => held'[s] = held[s]
  PROVE  LockHolder'
<1> SUFFICES ASSUME ~strayed PROVE LockHolder'
  BY DEF LockHolder
<1>1. \A s \in Sessions : held'[s] # None => CurrentEra(held[s]) /\ CurrentEra(held[s])'
  BY DEF LockHolder, CurrentEra
<1>2. ASSUME NEW s \in Sessions, held'[s] # None PROVE held'[s].generation # row'.generation
  <2>1. row \in Bundles /\ held[s].generation <= row.generation
    BY <1>1, <1>2 DEF VersionInv, SessionReads, TypeOK
  <2>2. row.generation \in Nat /\ held[s].generation \in Nat
    BY <1>2, <2>1 DEF TypeOK, Bundles, Holds
  <2> QED BY <1>2, <2>1, <2>2
<1>3. \A s \in Sessions : ~ HoldsVersion(s)'
  BY <1>2 DEF HoldsVersion, CurrentEra
<1> QED BY <1>1, <1>3 DEF LockHolder

(* A session that ends, releasing the lock or not, takes no other's. *)
LEMMA EndKeepsHolder ==
  ASSUME TypeOK, VersionInv, LockHolder, NEW s \in Sessions, held[s] # None, End(s),
         row' = row \/ \E o : row' = Released(row, held[s].generation, o),
         era' = era, strayed' = strayed
  PROVE  LockHolder'
<1> SUFFICES ASSUME ~strayed PROVE LockHolder'
  BY DEF LockHolder
<1>1. CurrentEra(held[s]) /\ row \in Bundles
  BY DEF LockHolder, VersionInv, SessionReads, TypeOK
<1>2. held' = [held EXCEPT ![s] = None]
  BY DEF End
<1>3. \A t \in Sessions : held'[t] # None => t # s /\ held'[t] = held[t]
  BY <1>2 DEF TypeOK
<1>4. row'.generation = row.generation
  BY <1>1, LockRow DEF SameData
<1>5. ASSUME NEW t \in Sessions, HoldsVersion(t)'
      PROVE  HoldsVersion(t) /\ t # s
  BY <1>3, <1>4, <1>5 DEF HoldsVersion, CurrentEra
<1>6. ASSUME NEW t \in Sessions, HoldsVersion(t)' PROVE row' = row
  <2>1. ~ HoldsVersion(s)
    BY <1>5, <1>6 DEF LockHolder
  <2>2. held[s].generation # row.generation
    BY <1>1, <2>1 DEF HoldsVersion
  <2> QED BY <2>2 DEF Released
<1>7. \A t \in Sessions : held'[t] # None => CurrentEra(held[t])'
  BY <1>3 DEF LockHolder, CurrentEra
<1>8. ASSUME NEW t \in Sessions, HoldsVersion(t)'
      PROVE  row'.lock = held'[t].lease /\ row'.lock > 0
  <2>1. row.lock = held[t].lease /\ row.lock > 0
    BY <1>5, <1>8 DEF LockHolder
  <2>2. held'[t] = held[t]
    BY <1>3, <1>8 DEF HoldsVersion, CurrentEra
  <2> QED BY <1>6, <1>8, <2>1, <2>2
<1>9. \A t, u \in Sessions : HoldsVersion(t)' /\ HoldsVersion(u)' => t = u
  BY <1>5 DEF LockHolder
<1> QED BY <1>7, <1>8, <1>9 DEF LockHolder

LEMMA HolderStep == TypeOK /\ VersionInv /\ LockHolder /\ [Next]_vars => LockHolder'
<1> SUFFICES ASSUME TypeOK, VersionInv, LockHolder, [Next]_vars PROVE LockHolder'
  OBVIOUS
<1>a. row \in Bundles \cup {NoBundle}
  BY DEF TypeOK
<1>0. ASSUME row' = row, era' = era, strayed' = strayed, held' = held PROVE LockHolder'
  BY <1>0 DEF LockHolder, HoldsVersion, CurrentEra
<1>1. ASSUME NEW tokens \in TokenPairs, NEW m \in SavedMetadata, Save(tokens, m)
      PROVE  LockHolder'
  <2>1. m \in Metadata
    BY PatchesType DEF SavedMetadata
  <2>2. row' \in Bundles /\ (row \in Bundles => row'.generation = row.generation + 1)
    BY <1>1, <1>a, <2>1, WriteRow DEF Save
  <2> QED BY <1>1, <2>2, NewVersionUnheld DEF Save
<1>2. ASSUME NEW s \in Sessions, Reserve(s) PROVE LockHolder'
  <2> SUFFICES ASSUME ~strayed PROVE LockHolder'
    BY <1>2 DEF Reserve, LockHolder
  <2>1. row \in Bundles /\ row.lock = 0
    BY <1>2, <1>a, Outcomes DEF Reserve
  <2>2. /\ row'.generation = row.generation
        /\ row'.lock = LockTTL /\ LockTTL > 0
    BY <1>2, <2>1, BundleAssumption DEF Reserve, Reserved, Bundles
  <2>3. /\ held'[s].generation = row.generation /\ held'[s].lease = LockTTL
        /\ held'[s].era = era /\ era' = era
        /\ \A t \in Sessions \ {s} : held'[t] = held[t]
    BY <1>2 DEF Reserve, TypeOK
  <2>4. held'[s] # None
    <3>1. held'[s] \in Holds
      BY <1>2, <2>1, BundleAssumption DEF Reserve, Holds, TypeOK, Bundles
    <3> QED BY <3>1, NoneAssumption
  <2>5. \A t \in Sessions : ~ HoldsVersion(t)
    BY <2>1 DEF LockHolder
  <2>6. \A t \in Sessions \ {s} : ~ HoldsVersion(t)'
    BY <2>2, <2>3, <2>5 DEF HoldsVersion, CurrentEra
  <2>7. \A t \in Sessions : held'[t] # None => CurrentEra(held[t])'
    BY <2>3 DEF LockHolder, CurrentEra
  <2> QED BY <2>2, <2>3, <2>4, <2>6, <2>7 DEF LockHolder
<1>3. ASSUME NEW s \in Sessions, Commit(s) PROVE LockHolder'
  <2>1. row \in Bundles
    BY <1>3, <1>a, Outcomes DEF Commit, Commits
  <2>2. row' \in Bundles /\ row'.generation = row.generation + 1
    BY <1>3, <2>1, WriteRow, PatchesType DEF Commit
  <2> QED BY <1>3, <2>2, NewVersionUnheld DEF Commit, End, TypeOK
<1>4. ASSUME NEW s \in Sessions, CommitFails(s) \/ Release(s) \/ Abandon(s)
      PROVE  LockHolder'
  <2>1. /\ held[s] # None /\ End(s) /\ era' = era /\ strayed' = strayed
        /\ row' = row \/ \E o : row' = Released(row, held[s].generation, o)
    BY <1>4 DEF CommitFails, Release, Abandon
  <2> QED BY <2>1, EndKeepsHolder
<1>5. ASSUME NEW w \in Writers, NEW p \in Metadata, seen[w] # None, WritePatch(w, p)
      PROVE  LockHolder'
  <2>1. seen[w].bundle.tokens \in TokenPairs
    BY <1>5 DEF TypeOK, Reads, Bundles
  <2>2. held' = held /\ era' = era /\ strayed' = strayed
    BY <1>5 DEF WritePatch
  <2>3. CASE row' # row
    <3>1. row \in Bundles
      BY <1>5, <2>3, <1>a, Outcomes DEF WritePatch
    <3>2. row' \in Bundles /\ row'.generation = row.generation + 1
      BY <1>5, <2>1, <2>3, <3>1, WriteRow DEF WritePatch
    <3> QED BY <2>2, <3>2, NewVersionUnheld
  <2>4. CASE row' = row
    BY <1>0, <1>5, <2>2, <2>4 DEF WritePatch
  <2> QED BY <2>3, <2>4
<1>6. ASSUME NEW w \in Writers, ImportJSON(w) PROVE LockHolder'
  <2>1. seen[w].bundle.tokens \in TokenPairs
    BY <1>6 DEF TypeOK, Reads, Bundles, ImportJSON
  <2>2. row' \in Bundles /\ (row \in Bundles => row'.generation = row.generation + 1)
    BY <1>6, <1>a, <2>1, WriteRow, PatchesType DEF ImportJSON
  <2> QED BY <1>6, <2>2, NewVersionUnheld DEF ImportJSON
<1>7. ASSUME NEW w \in Writers, Get(w) \/ UseRead(w) PROVE LockHolder'
  BY <1>0, <1>7 DEF Get, UseRead
<1>8. CASE Tick
  <2> SUFFICES ASSUME ~strayed, ~strayed' PROVE LockHolder'
    BY <1>8 DEF Tick, LockHolder
  <2>1. \A s \in Sessions : held[s] # None => ~(held[s].lease <= 1)
    BY <1>8 DEF Tick
  <2>2. \A s \in Sessions : held'[s] = Older(held[s])
    BY <1>8 DEF Tick
  <2>3. \A s \in Sessions : held'[s] # None =>
          /\ held[s] # None
          /\ held'[s].era = held[s].era
          /\ held'[s].generation = held[s].generation
          /\ held'[s].lease = Sooner(held[s].lease)
    <3>1. \A s \in Sessions : held[s] \in Holds \/ held[s] = None
      BY DEF TypeOK
    <3> QED BY <2>2, <3>1, OlderType DEF Older
  <2>4. era' = era
    BY <1>8 DEF Tick
  <2>5. \A s \in Sessions : held'[s] # None => CurrentEra(held[s])'
    BY <2>3, <2>4 DEF LockHolder, CurrentEra
  <2>6. ASSUME NEW s \in Sessions, HoldsVersion(s)'
        PROVE  HoldsVersion(s) /\ row'.lock = held'[s].lease /\ row'.lock > 0
    <3>1. held'[s] # None /\ held[s] # None
      BY <2>3, <2>6 DEF HoldsVersion, CurrentEra
    <3>2. CurrentEra(held[s]) /\ row \in Bundles
      BY <3>1 DEF LockHolder, VersionInv, SessionReads, TypeOK
    <3>3. row' = [row EXCEPT !.lock = Sooner(row.lock)]
      BY <1>8, <3>2, NoBundleAssumption DEF Tick, Aged
    <3>4. row'.generation = row.generation /\ row'.lock = Sooner(row.lock)
      BY <3>2, <3>3 DEF Bundles
    <3>5. HoldsVersion(s)
      BY <2>3, <2>6, <3>1, <3>2, <3>4 DEF HoldsVersion
    <3>6. row.lock = held[s].lease /\ ~(row.lock <= 1) /\ row.lock \in Nat
      BY <2>1, <3>1, <3>2, <3>5, BundleAssumption DEF LockHolder, Bundles
    <3>7. Sooner(row.lock) > 0
      BY <3>6 DEF Sooner
    <3> QED BY <2>3, <3>1, <3>4, <3>5, <3>6, <3>7
  <2> QED BY <2>5, <2>6 DEF LockHolder
<1>9. CASE Delete
  <2> SUFFICES ASSUME ~strayed' PROVE LockHolder'
    BY DEF LockHolder
  <2>1. \A s \in Sessions : held'[s] = None
    BY <1>9 DEF Delete
  <2> QED BY <2>1 DEF LockHolder, HoldsVersion, CurrentEra
<1>10. CASE UNCHANGED vars
  BY <1>0, <1>10 DEF vars
<1> QED
  BY <1>1, <1>2, <1>3, <1>4, <1>5, <1>6, <1>7, <1>8, <1>9, <1>10, PatchesType
  DEF Next, ServingNext, SaveSome, SessionStep, WriterStep, EnsureMachineID, PersistBan

(* While no session outlives its TTL or its row, the row is locked for     *)
(* exactly the one session that holds its present generation               *)
(* (Vault.Reserve, Vault.Release).                                         *)
THEOREM LockIsExclusive == Spec => []LockHolder
<1>1. Init => LockHolder
  BY DEF Init, LockHolder, HoldsVersion, CurrentEra
<1> QED BY <1>1, HolderStep, VersionsHold, PTL DEF Spec

-----------------------------------------------------------------------------
(* The vault is a versioned cell while no account is removed *)

(* Then every client's read is of the present era. *)
OneEra ==
  /\ \A s \in Sessions : held[s] # None => CurrentEra(held[s])
  /\ \A w \in Writers : seen[w] # None => CurrentEra(seen[w])

ServingInv == TypeOK /\ VersionInv /\ OneEra

LEMMA ServingStep == ServingInv /\ [ServingNext]_vars => ServingInv'
<1> SUFFICES ASSUME ServingInv, [ServingNext]_vars PROVE ServingInv'
  OBVIOUS
<1>1. TypeOK' /\ VersionInv'
  BY TypeStep, VersionStep DEF ServingInv, Next
<1>2. \A s \in Sessions : held[s] \in Holds \/ held[s] = None
  BY DEF ServingInv, TypeOK
<1>3. /\ era' = era
      /\ \A s \in Sessions : held'[s] # None => held'[s].era = era
      /\ \A w \in Writers : seen'[w] # None => seen'[w].era = era
  <2> USE DEF ServingInv, OneEra, CurrentEra, TypeOK
  <2>1. CASE SaveSome
    BY <2>1 DEF SaveSome, Save
  <2>2. ASSUME NEW s \in Sessions, SessionStep(s) PROVE <1>3!:
    <3>1. era' = era /\ seen' = seen
      BY <2>2 DEF SessionStep, Reserve, Commit, CommitFails, Release, Abandon
    <3>2. CASE Reserve(s)
      BY <3>1, <3>2 DEF Reserve
    <3>3. CASE ~ Reserve(s)
      <4>1. held' = [held EXCEPT ![s] = None]
        BY <2>2, <3>3 DEF SessionStep, Commit, CommitFails, Release, Abandon, End
      <4> QED BY <3>1, <4>1
    <3> QED BY <3>2, <3>3
  <2>3. ASSUME NEW w \in Writers, WriterStep(w) PROVE <1>3!:
    <3>1. /\ era' = era /\ held' = held
          /\ \/ seen' = [seen EXCEPT ![w] = None]
             \/ seen' = [seen EXCEPT ![w] = [bundle |-> Unlocked(row), era |-> era]]
      BY <2>3 DEF WriterStep, Get, EnsureMachineID, PersistBan, WritePatch, ImportJSON, UseRead
    <3> QED BY <3>1
  <2>4. CASE Tick
    <3>1. /\ era' = era /\ seen' = seen
          /\ \A s \in Sessions : held'[s] = Older(held[s])
      BY <2>4 DEF Tick
    <3>2. \A s \in Sessions : held'[s] # None => held[s] # None /\ held'[s].era = held[s].era
      BY <1>2, <3>1, OlderType DEF Older
    <3> QED BY <3>1, <3>2
  <2>5. CASE UNCHANGED vars
    BY <2>5 DEF vars
  <2> QED BY <2>1, <2>2, <2>3, <2>4, <2>5 DEF ServingNext
<1>4. OneEra'
  BY <1>3 DEF OneEra, CurrentEra
<1> QED BY <1>1, <1>4 DEF ServingInv

(* The base of a session and of a writer. *)
LEMMA BaseOf ==
  /\ CellBase \in [Sessions \cup Writers -> {CellBase[c] : c \in Sessions \cup Writers}]
  /\ \A s \in Sessions :
       CellBase[s] = IF held[s] = None THEN None ELSE Base(held[s].generation, held[s].tokens)
  /\ \A w \in Writers :
       CellBase[w] = IF seen[w] = None THEN None
                     ELSE Base(seen[w].bundle.generation, seen[w].bundle.tokens)
<1>1. Sessions \cap Writers = {}
  BY VaultAssumption
<1> QED BY <1>1 DEF CellBase

LEMMA BaseNext ==
  /\ CellBase' \in [Sessions \cup Writers -> {CellBase'[c] : c \in Sessions \cup Writers}]
  /\ \A s \in Sessions :
       CellBase'[s] = IF held'[s] = None THEN None ELSE Base(held'[s].generation, held'[s].tokens)
  /\ \A w \in Writers :
       CellBase'[w] = IF seen'[w] = None THEN None
                      ELSE Base(seen'[w].bundle.generation, seen'[w].bundle.tokens)
<1>1. Sessions \cap Writers = {}
  BY VaultAssumption
<1> QED BY <1>1 DEF CellBase

(* How a client's locals show in the mapping: a session that ends and a    *)
(* writer that is done with its read have no base any more.                *)
LEMMA BaseChange ==
  ASSUME TypeOK
  PROVE  /\ \A s \in Sessions :
              seen' = seen /\ held' = [held EXCEPT ![s] = None]
                => CellBase' = [CellBase EXCEPT ![s] = None]
         /\ \A w \in Writers :
              held' = held /\ seen' = [seen EXCEPT ![w] = None]
                => CellBase' = [CellBase EXCEPT ![w] = None]
         /\ held' = held /\ seen' = seen => CellBase' = CellBase
<1>1. ASSUME NEW s \in Sessions, seen' = seen, held' = [held EXCEPT ![s] = None]
      PROVE  CellBase' = [CellBase EXCEPT ![s] = None]
  <2>1. \A c \in Sessions \cup Writers : CellBase'[c] = [CellBase EXCEPT ![s] = None][c]
    BY <1>1, BaseOf, BaseNext, VaultAssumption DEF TypeOK
  <2> QED BY <2>1, BaseOf, BaseNext
<1>2. ASSUME NEW w \in Writers, held' = held, seen' = [seen EXCEPT ![w] = None]
      PROVE  CellBase' = [CellBase EXCEPT ![w] = None]
  <2>1. \A c \in Sessions \cup Writers : CellBase'[c] = [CellBase EXCEPT ![w] = None][c]
    BY <1>2, BaseOf, BaseNext, VaultAssumption DEF TypeOK
  <2> QED BY <2>1, BaseOf, BaseNext
<1>3. held' = held /\ seen' = seen => CellBase' = CellBase
  BY DEF CellBase
<1> QED BY <1>1, <1>2, <1>3

(* Version and value of the row before and after a step. *)
LEMMA CellRow ==
  /\ row \in Bundles => CellVersion = row.generation /\ CellValue = row.tokens
                         /\ CellValue # NoBundle
  /\ row' \in Bundles => CellVersion' = row'.generation /\ CellValue' = row'.tokens
  /\ row = NoBundle => CellVersion = 0 /\ CellValue = NoBundle
  /\ row' = NoBundle => CellVersion' = 0 /\ CellValue' = NoBundle
  /\ row' = row => CellVersion' = CellVersion /\ CellValue' = CellValue
BY NoBundleAssumption, VaultAssumption DEF CellVersion, CellValue, Bundles

(* A write installs the next version. *)
LEMMA Installs ==
  ASSUME TypeOK, NEW tokens \in TokenPairs, NEW m \in Metadata,
         row' = Saved(row, tokens, m) \/ (row \in Bundles /\ row' = Committed(row, tokens, m))
  PROVE  Cell!Install(tokens)
<1>1. CASE row = NoBundle
  <2>1. row' = Saved(NoBundle, tokens, m) /\ row' \in Bundles
    BY <1>1, WriteRow, NoBundleAssumption
  <2>2. row'.generation = 1 /\ row'.tokens = tokens
    BY <2>1 DEF Saved
  <2> QED BY <1>1, <2>1, <2>2, CellRow DEF Cell!Install
<1>2. CASE row \in Bundles
  <2>1. row' \in Bundles /\ row'.generation = row.generation + 1
    BY <1>2, WriteRow
  <2>2. row'.tokens = tokens
    BY <1>2, WriteRow
  <2> QED BY <1>2, <2>1, <2>2, CellRow DEF Cell!Install
<1> QED BY <1>1, <1>2 DEF TypeOK

(* A step that changes at most the row's lock changes neither. *)
LEMMA KeepsCell ==
  ASSUME TypeOK, row' = row \/ (row \in Bundles /\ SameData(row, row'))
  PROVE  CellVersion' = CellVersion /\ CellValue' = CellValue
BY CellRow DEF SameData

LEMMA CellStep == ServingInv /\ [ServingNext]_vars => [Cell!Next]_(Cell!cellVars)
<1> SUFFICES ASSUME ServingInv, [ServingNext]_vars
             PROVE  Cell!Next \/ UNCHANGED <<CellVersion, CellValue, CellBase>>
  BY DEF Cell!cellVars
<1> USE DEF ServingInv
<1>a. TypeOK /\ row \in Bundles \cup {NoBundle}
  BY DEF TypeOK
<1>1. ASSUME NEW tokens \in TokenPairs, NEW m \in SavedMetadata, Save(tokens, m)
      PROVE  Cell!Next
  <2>1. m \in Metadata
    BY PatchesType DEF SavedMetadata
  <2>2. Cell!Install(tokens)
    BY <1>1, <1>a, <2>1, Installs DEF Save
  <2>3. CellBase' = CellBase
    BY <1>1, <1>a, BaseChange DEF Save
  <2>4. Cell!Overwrite(tokens)
    BY <2>2, <2>3 DEF Cell!Overwrite
  <2> QED BY <2>4 DEF Cell!Next
<1>2. ASSUME NEW s \in Sessions, Reserve(s) PROVE Cell!Next
  <2>1. row \in Bundles
    BY <1>2, <1>a, Outcomes DEF Reserve
  <2>2. CellVersion' = CellVersion /\ CellValue' = CellValue /\ CellValue # NoBundle
        /\ CellVersion = row.generation /\ CellValue = row.tokens
    BY <1>2, <1>a, <2>1, LockRow, KeepsCell, CellRow DEF Reserve
  <2>3. /\ held'[s].generation = row.generation /\ held'[s].tokens = row.tokens
        /\ held'[s] # None
        /\ \A t \in Sessions \ {s} : held'[t] = held[t]
        /\ seen' = seen /\ held[s] = None
    <3>1. held'[s] \in Holds
      BY <1>2, <1>a, <2>1, BundleAssumption DEF Reserve, Holds, TypeOK, Bundles
    <3> QED BY <1>2, <1>a, <3>1, NoneAssumption DEF Reserve, TypeOK
  <2>4. \A c \in Sessions \cup Writers :
          CellBase'[c] = [CellBase EXCEPT ![s] = Base(CellVersion, CellValue)][c]
    BY <2>2, <2>3, BaseOf, BaseNext, VaultAssumption
  <2>5. CellBase' = [CellBase EXCEPT ![s] = Base(CellVersion, CellValue)]
    BY <2>4, BaseOf, BaseNext
  <2>6. Cell!Read(s)
    BY <2>2, <2>3, <2>5, BaseOf DEF Cell!Read, Base
  <2> QED BY <2>6 DEF Cell!Next
<1>3. ASSUME NEW s \in Sessions, Commit(s) PROVE Cell!Next
  <2>1. row \in Bundles /\ held[s] # None /\ held[s].generation = row.generation
    BY <1>3, <1>a, Outcomes DEF Commit, Commits
  <2>2. PICK tokens \in TokenPairs, p \in {NoMetadata, Patch(ExpiresAt, Stamp)} :
          row' = Committed(row, tokens, p)
    BY <1>3 DEF Commit
  <2>3. Cell!Install(tokens)
    BY <1>a, <2>1, <2>2, PatchesType, Installs
  <2>4. held[s].tokens = row.tokens
    BY <2>1 DEF OneEra, VersionInv, SessionReads
  <2>5. CellBase[s] = Base(CellVersion, CellValue)
    BY <2>1, <2>4, BaseOf, CellRow
  <2>6. CellBase' = [CellBase EXCEPT ![s] = None]
    BY <1>3, <1>a, BaseChange DEF Commit, End
  <2>7. Cell!CompareAndSwap(s, tokens)
    BY <2>3, <2>5, <2>6 DEF Cell!CompareAndSwap, Base
  <2> QED BY <2>7 DEF Cell!Next
<1>4. ASSUME NEW s \in Sessions, CommitFails(s) \/ Release(s) \/ Abandon(s)
      PROVE  Cell!Next
  <2>1. row' = row \/ \E g, o : row' = Released(row, g, o)
    BY <1>4 DEF CommitFails, Release, Abandon
  <2>2. row' = row \/ (row \in Bundles /\ SameData(row, row'))
    <3>1. \A g, o : row \in Bundles => SameData(row, Released(row, g, o))
      BY LockRow
    <3>2. \A g, o : row = NoBundle => Released(row, g, o) = row
      BY LockRow
    <3> QED BY <1>a, <2>1, <3>1, <3>2
  <2>3. CellBase' = [CellBase EXCEPT ![s] = None]
    BY <1>4, <1>a, BaseChange DEF CommitFails, Release, Abandon, End
  <2>4. Cell!Forget(s)
    BY <1>a, <2>2, <2>3, KeepsCell DEF Cell!Forget
  <2> QED BY <2>4 DEF Cell!Next
<1>5. ASSUME NEW w \in Writers, Get(w) PROVE Cell!Next
  <2>1. row \in Bundles /\ row' = row
    BY <1>5, <1>a DEF Get
  <2>2. CellVersion' = CellVersion /\ CellValue' = CellValue /\ CellValue # NoBundle
        /\ CellVersion = row.generation /\ CellValue = row.tokens
    BY <2>1, CellRow
  <2>3. /\ SameData(row, seen'[w].bundle) /\ seen'[w] # None
        /\ \A v \in Writers \ {w} : seen'[v] = seen[v]
        /\ held' = held /\ seen[w] = None
    <3>1. seen'[w] = [bundle |-> Unlocked(row), era |-> era]
      BY <1>5, <1>a DEF Get, TypeOK
    <3>2. SameData(row, Unlocked(row))
      BY <2>1, LockRow
    <3>3. seen'[w] \in Reads
      BY <1>a, <3>1, <3>2 DEF Reads, TypeOK, SameData
    <3> QED BY <1>5, <1>a, <3>1, <3>2, <3>3, NoneAssumption DEF Get, TypeOK
  <2>4. \A c \in Sessions \cup Writers :
          CellBase'[c] = [CellBase EXCEPT ![w] = Base(CellVersion, CellValue)][c]
    BY <2>2, <2>3, BaseOf, BaseNext, VaultAssumption DEF SameData
  <2>5. CellBase' = [CellBase EXCEPT ![w] = Base(CellVersion, CellValue)]
    BY <2>4, BaseOf, BaseNext
  <2>6. Cell!Read(w)
    BY <2>2, <2>3, <2>5, BaseOf DEF Cell!Read, Base
  <2> QED BY <2>6 DEF Cell!Next
<1>6. ASSUME NEW w \in Writers, NEW p \in Metadata, seen[w] # None, WritePatch(w, p)
      PROVE  Cell!Next
  <2>1. seen[w].bundle.tokens \in TokenPairs
    BY <1>6, <1>a DEF TypeOK, Reads, Bundles
  <2>2. CellBase' = [CellBase EXCEPT ![w] = None]
    BY <1>6, <1>a, BaseChange DEF WritePatch
  <2>3. CASE row' # row
    <3>1. row \in Bundles /\ row.generation = seen[w].bundle.generation
      BY <1>6, <2>3, <1>a, Outcomes DEF WritePatch
    <3>2. Cell!Install(seen[w].bundle.tokens)
      BY <1>6, <1>a, <2>1, <2>3, <3>1, Installs DEF WritePatch
    <3>3. seen[w].bundle.tokens = row.tokens
      BY <1>6, <3>1 DEF OneEra, VersionInv, WriterReads
    <3>4. CellBase[w] = Base(CellVersion, CellValue)
      BY <1>6, <3>1, <3>3, BaseOf, CellRow
    <3>5. Cell!CompareAndSwap(w, seen[w].bundle.tokens)
      BY <2>2, <3>2, <3>4 DEF Cell!CompareAndSwap, Base
    <3> QED BY <2>1, <3>5 DEF Cell!Next
  <2>4. CASE row' = row
    <3>1. Cell!Forget(w)
      BY <1>6, <1>a, <2>2, <2>4, KeepsCell DEF WritePatch, Cell!Forget
    <3> QED BY <3>1 DEF Cell!Next
  <2> QED BY <2>3, <2>4
<1>7. ASSUME NEW w \in Writers, ImportJSON(w) PROVE Cell!Next
  <2>1. seen[w].bundle.tokens \in TokenPairs
    BY <1>7, <1>a DEF TypeOK, Reads, Bundles, ImportJSON
  <2>2. Cell!Install(seen[w].bundle.tokens)
    BY <1>7, <1>a, <2>1, PatchesType, Installs DEF ImportJSON
  <2>3. CellBase' = [CellBase EXCEPT ![w] = None]
    BY <1>7, <1>a, BaseChange DEF ImportJSON
  <2>4. Cell!Overwrite(seen[w].bundle.tokens)
    BY <2>2, <2>3 DEF Cell!Overwrite
  <2> QED BY <2>1, <2>4 DEF Cell!Next
<1>8. ASSUME NEW w \in Writers, UseRead(w) PROVE Cell!Next
  <2>1. CellBase' = [CellBase EXCEPT ![w] = None]
    BY <1>8, <1>a, BaseChange DEF UseRead
  <2>2. Cell!Forget(w)
    BY <1>8, <1>a, <2>1, KeepsCell DEF UseRead, Cell!Forget
  <2> QED BY <2>2 DEF Cell!Next
<1>9. CASE Tick
  <2>1. row' = row \/ (row \in Bundles /\ SameData(row, row'))
    BY <1>9, <1>a, LockRow DEF Tick
  <2>2. \A s \in Sessions : held'[s] = Older(held[s]) /\ held[s] \in Holds \cup {None}
    BY <1>9, <1>a DEF Tick, TypeOK
  <2>3. \A s \in Sessions : held[s] = None => held'[s] = None
    BY <2>2 DEF Older
  <2>4. \A s \in Sessions : held[s] # None =>
          held'[s] # None /\ held'[s].generation = held[s].generation
          /\ held'[s].tokens = held[s].tokens
    BY <2>2, OlderType, NoneAssumption
  <2>5. \A c \in Sessions \cup Writers : CellBase'[c] = CellBase[c]
    BY <1>9, <2>3, <2>4, BaseOf, BaseNext DEF Tick
  <2>6. CellBase' = CellBase
    BY <2>5, BaseOf, BaseNext
  <2> QED BY <1>a, <2>1, <2>6, KeepsCell
<1>10. CASE UNCHANGED vars
  BY <1>10, <1>a, BaseChange, KeepsCell DEF vars
<1> QED
  BY <1>1, <1>2, <1>3, <1>4, <1>5, <1>6, <1>7, <1>8, <1>9, <1>10, PatchesType
  DEF ServingNext, SaveSome, SessionStep, WriterStep, EnsureMachineID, PersistBan

(* While no account is removed, the vault implements a versioned cell: a   *)
(* client that commits overwrites exactly the version and tokens it read.  *)
THEOREM VaultIsVersionedCell == ServingSpec => IsVersionedCell
<1>1. Init => ServingInv
  BY TypeInit, VersionInit DEF ServingInv, Init, OneEra
<1>2. Init => Cell!Init
  BY CellRow, BaseOf DEF Init, Cell!Init, CellBase
<1>3. ServingInv /\ [ServingNext]_vars => ServingInv'
  BY ServingStep
<1>4. ServingInv /\ [ServingNext]_vars => [Cell!Next]_(Cell!cellVars)
  BY CellStep
<1> QED BY <1>1, <1>2, <1>3, <1>4, PTL DEF ServingSpec, IsVersionedCell, Cell!CellSpec

-----------------------------------------------------------------------------
(* RefreshFlow                                                              *)

-----------------------------------------------------------------------------
(* What the parts of a step do *)

(* The row keeps its version: no tokens or metadata are written. *)
RowKept ==
  /\ row = NoBundle => row' = NoBundle
  /\ row \in Bundles => SameData(row, row')

(* A flight goes on and leaves the vault alone. *)
Flying(s) ==
  /\ UNCHANGED vars
  /\ phase[s] # "idle"
  /\ \E q \in Phases \ {"idle"} : phase' = [phase EXCEPT ![s] = q]

(* A flight ends without a commit. *)
Ending(s) ==
  /\ RowKept
  /\ held[s] # None
  /\ held' = [held EXCEPT ![s] = None]
  /\ phase' = [phase EXCEPT ![s] = "idle"]
  /\ UNCHANGED <<seen, era, strayed>>

(* Releasing a row, or not, keeps its version. *)
LEMMA ReleaseKeeps ==
  ASSUME TypeOK, NEW g, row' = Released(row, g, FALSE) \/ row' = row
  PROVE  RowKept
<1>1. row \in Bundles => SameData(row, row)
  BY DEF SameData
<1>2. row \in Bundles => SameData(row, Released(row, g, FALSE))
  BY LockRow
<1>3. row = NoBundle => Released(row, g, FALSE) = NoBundle
  BY LockRow
<1> QED BY <1>1, <1>2, <1>3 DEF RowKept

(* Giving up ends the flight and records why; the row is released, or that *)
(* it was not is recorded too.                                             *)
LEMMA GiveUpEnds ==
  ASSUME TypeOK, NEW s \in Sessions, NEW causes, GiveUp(s, causes)
  PROVE  /\ Ending(s) /\ Land(s)
         /\ mishaps \cup causes \subseteq mishaps'
         /\ mishaps' \subseteq mishaps \cup causes \cup {"release_failed"}
         /\ \/ "release_failed" \in mishaps'
            \/ row' = Released(row, held[s].generation, FALSE)
<1>1. /\ held[s] # None /\ End(s) /\ UNCHANGED <<seen, era, strayed>>
      /\ row' = row \/ row' = Released(row, held[s].generation, FALSE)
  BY DEF GiveUp, Abandon, Release
<1>2. RowKept
  BY <1>1, ReleaseKeeps
<1>3. Ending(s) /\ Land(s)
  BY <1>1, <1>2 DEF Ending, End, GiveUp, Land
<1> QED BY <1>3 DEF GiveUp

(* Trying again goes on with the flight or ends it, and records why. *)
LEMMA TryAgainGoesOn ==
  ASSUME TypeOK, NEW s \in Sessions, phase[s] # "idle",
         NEW causes, TryAgain(s, causes)
  PROVE  /\ Flying(s) \/ GiveUp(s, causes)
         /\ mishaps \cup causes \subseteq mishaps'
<1>1. CASE /\ attempt[s] < MaxRetries /\ phase' = [phase EXCEPT ![s] = "backoff"]
           /\ UNCHANGED vars /\ mishaps' = mishaps \cup causes
  BY <1>1 DEF Flying, Phases
<1>2. CASE GiveUp(s, causes)
  BY <1>2, GiveUpEnds
<1> QED BY <1>1, <1>2 DEF TryAgain

(* A commit stores the answer and changes nothing upstream, *)
Storing(s) ==
  /\ phase[s] = "commit" /\ Commits(s)
  /\ row' = Committed(row, fresh[s], Patch(ExpiresAt, Stamp))
  /\ Commit(s) /\ Land(s)
  /\ UNCHANGED <<grant, struck, mishaps>>

(* or fails, of which the transaction's failure is recorded. *)
LEMMA CommitShape ==
  ASSUME NEW s \in Sessions, FlowCommit(s)
  PROVE  /\ phase[s] = "commit" /\ UNCHANGED <<grant, struck>>
         /\ \/ Storing(s)
            \/ GiveUp(s, {"commit_failed"})
            \/ ~ Commits(s) /\ GiveUp(s, {})
BY DEF FlowCommit, Storing

(* Every step of the flow is a step of the vault's clients, none of them   *)
(* the removal of the account, or leaves the vault alone.                  *)
LEMMA VaultStep == [FlowNext]_allVars => [ServingNext]_vars
<1> SUFFICES ASSUME [FlowNext]_allVars PROVE [ServingNext]_vars
  OBVIOUS
<1>1. CASE AddAccount
  <2>1. 0 \in TokenPairs /\ NoMetadata \in SavedMetadata
    BY FlowAssumption DEF SavedMetadata
  <2> QED BY <1>1, <2>1 DEF AddAccount, ServingNext, SaveSome
<1>2. ASSUME NEW s \in Sessions, NEW c \in Callers, Start(s, c) \/ Join(s, c)
      PROVE  [ServingNext]_vars
  BY <1>2 DEF Start, Join, ServingNext, SessionStep
<1>3. ASSUME NEW s \in Sessions, NEW c, GiveUp(s, c) PROVE [ServingNext]_vars
  BY <1>3 DEF GiveUp, ServingNext, SessionStep
<1>4. ASSUME NEW s \in Sessions, NEW c, TryAgain(s, c) PROVE [ServingNext]_vars
  BY <1>3, <1>4 DEF TryAgain
<1>5. ASSUME NEW s \in Sessions, FlowCommit(s) PROVE [ServingNext]_vars
  BY <1>3, <1>5, CommitShape DEF Storing, ServingNext, SessionStep
<1>6. ASSUME NEW s \in Sessions, FlowStep(s) PROVE [ServingNext]_vars
  BY <1>3, <1>4, <1>5, <1>6
  DEF FlowStep, Succeed, FailTransient, LoseReply, Malformed, Refuse, Resume, Interrupt
<1>7. ASSUME NEW s \in Sessions, Cancel(s) \/ Crash(s) PROVE [ServingNext]_vars
  BY <1>7 DEF Cancel, Crash, ServingNext, SessionStep
<1>8. ASSUME NEW w \in Writers, ReadRow(w) \/ PatchRow(w) PROVE [ServingNext]_vars
  BY <1>8 DEF ReadRow, PatchRow, ServingNext, WriterStep
<1>9. CASE TimePasses
  BY <1>9 DEF TimePasses, ServingNext
<1>10. CASE UNCHANGED allVars
  BY <1>10 DEF allVars
<1> QED BY <1>1, <1>2, <1>6, <1>7, <1>8, <1>9, <1>10 DEF FlowNext

(* The refresh of pool/refresh.go uses the vault as its protocol demands:  *)
(* it implements the vault's specification, so what is proved of the vault *)
(* holds of every refresh.                                                 *)
THEOREM FlowImplementsVault == FlowSpec => Spec /\ ServingSpec
<1>1. FlowInit => Init
  BY DEF FlowInit
<1>2. [FlowNext]_allVars => [Next]_vars
  BY VaultStep DEF Next
<1> QED BY <1>1, <1>2, VaultStep, PTL DEF FlowSpec, Spec, ServingSpec

-----------------------------------------------------------------------------
(* Type correctness *)

LocalsTypeOK ==
  /\ phase \in [Sessions -> Phases]
  /\ attempt \in [Sessions -> 0 .. MaxRetries]
  /\ fresh \in [Sessions -> TokenPairs]
  /\ cancelled \subseteq Sessions
  /\ waiting \in [Sessions -> SUBSET Callers]

LEMMA FlowTypeInit == FlowInit => FlowTypeOK
<1> SUFFICES ASSUME FlowInit PROVE FlowTypeOK
  OBVIOUS
<1>1. 0 \in TokenPairs /\ 0 \in 0 .. MaxRetries /\ "idle" \in Phases
  BY FlowAssumption DEF Phases
<1> QED BY <1>1 DEF FlowInit, FlowTypeOK

LEMMA FlowTypeStep == FlowTypeOK /\ [FlowNext]_allVars => FlowTypeOK'
<1> SUFFICES ASSUME FlowTypeOK, [FlowNext]_allVars PROVE FlowTypeOK'
  OBVIOUS
<1> USE FlowAssumption DEF FlowTypeOK, LocalsTypeOK, Phases, Mishaps
<1>1. CASE AddAccount
  BY <1>1 DEF AddAccount, flowVars
<1>2. ASSUME NEW s \in Sessions, NEW c \in Callers, Start(s, c) \/ Join(s, c)
      PROVE  FlowTypeOK'
  <2>1. CASE Start(s, c)
    BY <2>1 DEF Start
  <2>2. CASE Join(s, c)
    <3>1. waiting' \in [Sessions -> SUBSET Callers]
      BY <2>2 DEF Join
    <3> QED BY <2>2, <3>1 DEF Join
  <2> QED BY <1>2, <2>1, <2>2
<1>3. ASSUME NEW s \in Sessions, Land(s) PROVE LocalsTypeOK'
  BY <1>3 DEF Land
<1>4. ASSUME NEW s \in Sessions, NEW c \in SUBSET Mishaps, GiveUp(s, c)
      PROVE  LocalsTypeOK' /\ mishaps' \subseteq Mishaps
  BY <1>3, <1>4 DEF GiveUp
<1>5. ASSUME NEW s \in Sessions, NEW c \in SUBSET Mishaps, TryAgain(s, c)
      PROVE  LocalsTypeOK' /\ mishaps' \subseteq Mishaps
  <2>1. CASE GiveUp(s, c)
    BY <1>4, <2>1
  <2>2. CASE ~ GiveUp(s, c)
    <3>1. attempt[s] + 1 \in 0 .. MaxRetries
      BY <1>5, <2>2 DEF TryAgain
    <3> QED BY <1>5, <2>2, <3>1, ZenonT(60) DEF TryAgain
  <2> QED BY <2>1, <2>2
<1>6. ASSUME NEW s \in Sessions, FlowStep(s) PROVE FlowTypeOK'
  <2>1. CASE Succeed(s)
    BY <2>1 DEF Succeed
  <2>2. CASE FailTransient(s)
    BY <2>2, <1>5 DEF FailTransient
  <2>3. CASE LoseReply(s)
    BY <2>3, <1>4, <1>5 DEF LoseReply
  <2>4. CASE Malformed(s)
    BY <2>4, <1>4 DEF Malformed
  <2>5. CASE Refuse(s)
    BY <2>5, <1>4 DEF Refuse
  <2>6. CASE Resume(s)
    BY <2>6 DEF Resume
  <2>7. CASE Interrupt(s)
    BY <2>7, <1>4 DEF Interrupt
  <2>8. CASE FlowCommit(s)
    BY <2>8, <1>3, <1>4, CommitShape DEF Storing
  <2> QED BY <1>6, <2>1, <2>2, <2>3, <2>4, <2>5, <2>6, <2>7, <2>8 DEF FlowStep
<1>7. ASSUME NEW s \in Sessions, Cancel(s) PROVE FlowTypeOK'
  BY <1>7 DEF Cancel, Refreshing
<1>8. ASSUME NEW s \in Sessions, Crash(s) PROVE FlowTypeOK'
  BY <1>8, <1>3 DEF Crash
<1>9. ASSUME NEW w \in Writers, ReadRow(w) \/ PatchRow(w) PROVE FlowTypeOK'
  BY <1>9 DEF ReadRow, PatchRow, flowVars
<1>10. CASE TimePasses \/ UNCHANGED allVars
  BY <1>10 DEF TimePasses, flowVars, allVars
<1> QED BY <1>1, <1>2, <1>6, <1>7, <1>8, <1>9, <1>10 DEF FlowNext

(* The flow's locals, upstream's grant and the record of mishaps keep their *)
(* types: no refresh makes more than its MaxRetries + 1 attempts.          *)
THEOREM FlowTypeCorrect == FlowSpec => []FlowTypeOK
BY FlowTypeInit, FlowTypeStep, PTL DEF FlowSpec

-----------------------------------------------------------------------------
(* The invariant of the flow *)

VaultInv == TypeOK /\ VersionInv /\ LockHolder

Stored == IF row = NoBundle THEN 0 ELSE row.tokens

(* GrantKept, made inductive: a flight that is about to commit has the     *)
(* grant, and while there is none the row has it.                          *)
GrantInv ==
  Smooth =>
    /\ \A s \in Sessions : phase[s] = "commit" => fresh[s] = grant
    /\ (\A s \in Sessions : phase[s] # "commit") => grant = Stored

FlowInv == FlowTypeOK /\ FlightsCurrent /\ GrantInv /\ NoFalseStrike /\ LockIsHeld

(* While nothing has gone wrong there is one flight at most, and it holds  *)
(* the tokens of the row.                                                  *)
LEMMA FlightAlone ==
  ASSUME VaultInv, FlightsCurrent, Smooth
  PROVE  /\ \A s \in Refreshing :
              /\ row \in Bundles
              /\ held[s] # None
              /\ held[s].generation = row.generation
              /\ held[s].tokens = row.tokens
         /\ OneFlight
<1>1. \A s \in Refreshing : s \in Sessions /\ HoldsVersion(s)
  BY DEF FlightsCurrent, Refreshing
<1>2. \A s \in Refreshing : row # NoBundle /\ held[s].tokens = row.tokens
  BY <1>1 DEF VaultInv, VersionInv, SessionReads, HoldsVersion
<1>3. OneFlight
  BY <1>1 DEF VaultInv, LockHolder, OneFlight, Smooth
<1> QED BY <1>1, <1>2, <1>3 DEF VaultInv, TypeOK, HoldsVersion, CurrentEra

(* Then the refresh token the flight holds is upstream's, until it is told *)
(* otherwise.                                                              *)
LEMMA FlightHasGrant ==
  ASSUME VaultInv, FlightsCurrent, GrantInv, Smooth,
         NEW s \in Sessions, phase[s] \in {"call", "backoff"}
  PROVE  held[s].tokens = grant
<1>1. s \in Refreshing
  BY DEF Refreshing
<1>2. \A t \in Sessions : phase[t] # "commit"
  BY <1>1, FlightAlone DEF OneFlight, Refreshing
<1>3. grant = row.tokens
  BY <1>1, <1>2, FlightAlone, NoBundleAssumption DEF GrantInv, Stored
<1> QED BY <1>1, <1>3, FlightAlone

(* What has gone wrong stays on record. *)
LEMMA SmoothBefore ==
  ASSUME [FlowNext]_allVars
  PROVE  /\ mishaps \subseteq mishaps'
         /\ strayed => strayed'
         /\ Smooth' => Smooth
<1>1. [ServingNext]_vars
  BY VaultStep
<1>2. strayed => strayed'
  <2>1. CASE ServingNext
    BY <2>1 DEF ServingNext, SaveSome, Save, SessionStep, WriterStep, Reserve, Commit,
       CommitFails, Release, Abandon, Get, EnsureMachineID, PersistBan, WritePatch,
       ImportJSON, UseRead, Tick
  <2> QED BY <1>1, <2>1 DEF vars
<1>3. mishaps \subseteq mishaps'
  <2>1. CASE FlowNext
    BY <2>1 DEF FlowNext, AddAccount, Start, Join, FlowStep, Succeed, FailTransient,
       LoseReply, Malformed, Refuse, Resume, Interrupt, FlowCommit, Cancel, Crash,
       ReadRow, PatchRow, TimePasses, flowVars, TryAgain, GiveUp
  <2> QED BY <2>1 DEF allVars, flowVars
<1> QED BY <1>2, <1>3 DEF Smooth

(* A commit writes the row anew. *)
LEMMA CommitWrites ==
  ASSUME TypeOK, FlowTypeOK, NEW s \in Sessions, Storing(s)
  PROVE  /\ row \in Bundles /\ row' \in Bundles
         /\ row'.generation = row.generation + 1
         /\ row'.tokens = fresh[s]
         /\ row'.lock = 0
         /\ held' = [held EXCEPT ![s] = None]
         /\ UNCHANGED <<era, strayed>>
<1>1. Commit(s) /\ row' = Committed(row, fresh[s], Patch(ExpiresAt, Stamp))
  BY DEF Storing
<1>2. row \in Bundles /\ fresh[s] \in TokenPairs
  BY Outcomes DEF Storing, Commits, TypeOK, FlowTypeOK
<1>3. Patch(ExpiresAt, Stamp) \in Metadata
  BY PatchesType
<1>4. /\ row' \in Bundles
      /\ row'.generation = row.generation + 1
      /\ row'.tokens = fresh[s]
      /\ row'.lock = 0
  BY <1>1, <1>2, <1>3, WriteRow
<1> QED BY <1>1, <1>2, <1>4 DEF Commit, End

(* Each step of a flight that is not a commit goes on with it or ends it,  *)
(* and only an answer from upstream is committed.                          *)
LEMMA FlowStepShape ==
  ASSUME TypeOK, NEW s \in Sessions, FlowStep(s) \/ Crash(s)
  PROVE  Flying(s) \/ Ending(s) \/ Storing(s)
<1>1. CASE Succeed(s) \/ Resume(s)
  BY <1>1 DEF Succeed, Resume, Flying, Phases
<1>2. CASE FailTransient(s) \/ LoseReply(s)
  BY <1>2, TryAgainGoesOn, GiveUpEnds DEF FailTransient, LoseReply
<1>3. CASE Malformed(s) \/ Refuse(s) \/ Interrupt(s)
  BY <1>3, GiveUpEnds DEF Malformed, Refuse, Interrupt
<1>4. CASE FlowCommit(s)
  BY <1>4, CommitShape, GiveUpEnds
<1>5. CASE Crash(s)
  <2>1. Abandon(s) /\ Land(s)
    BY <1>5 DEF Crash
  <2>2. RowKept
    BY <2>1, ReleaseKeeps DEF Abandon
  <2> QED BY <2>1, <2>2 DEF Ending, Abandon, End, Land
<1> QED BY <1>1, <1>2, <1>3, <1>4, <1>5 DEF FlowStep

(* A machine id or a ban is written over the tokens the row has: either    *)
(* nothing is written, or the row's generation rises and its lock is free. *)
LEMMA PatchWrites ==
  ASSUME TypeOK, VersionInv, era = 0, NEW w \in Writers, PatchRow(w)
  PROVE  /\ UNCHANGED <<held, era, strayed>>
         /\ \/ row' = row
            \/ /\ row \in Bundles /\ row' \in Bundles
               /\ row'.tokens = row.tokens
               /\ row'.lock = 0
<1>1. PICK p \in Metadata : seen[w] # None /\ WritePatch(w, p)
  BY PatchesType DEF PatchRow, EnsureMachineID, PersistBan
<1>2. UNCHANGED <<held, era, strayed>>
  BY <1>1 DEF WritePatch
<1>3. CASE row' = row
  BY <1>2, <1>3
<1>4. CASE row' # row
  <2>1. row \in Bundles /\ row.generation = seen[w].bundle.generation
    BY <1>1, <1>4, Outcomes DEF TypeOK, WritePatch
  <2>2. seen[w] \in Reads
    BY <1>1 DEF TypeOK
  <2>3. seen[w].era \in Nat /\ seen[w].era <= 0
    BY <1>1, <2>2 DEF Reads, VersionInv, PastReads
  <2>4. CurrentEra(seen[w])
    BY <1>1, <2>3 DEF CurrentEra
  <2>5. seen[w].bundle.tokens = row.tokens /\ row.tokens \in TokenPairs
    BY <2>1, <2>4 DEF VersionInv, WriterReads, Bundles
  <2>6. row' = Committed(row, row.tokens, p)
    BY <1>1, <1>4, <2>5 DEF WritePatch
  <2>7. /\ row' \in Bundles
        /\ row'.tokens = row.tokens
        /\ row'.lock = 0
    BY <2>1, <2>5, <2>6, WriteRow
  <2> QED BY <1>2, <2>1, <2>7
<1> QED BY <1>3, <1>4

-----------------------------------------------------------------------------
(* Flights hold the version of the row *)

(* A flight that keeps its locals while the row keeps its version. *)
LEMMA HoldKept ==
  ASSUME NEW t \in Sessions, HoldsVersion(t), RowKept, row \in Bundles,
         era' = era, held'[t] = held[t]
  PROVE  HoldsVersion(t)'
BY DEF HoldsVersion, CurrentEra, RowKept, SameData

LEMMA OlderSame ==
  ASSUME NEW h \in Holds \cup {None}
  PROVE  /\ Older(h) = None <=> h = None
         /\ h # None => Older(h).era = h.era /\ Older(h).generation = h.generation
<1>1. CASE h = None
  BY <1>1 DEF Older
<1>2. CASE h \in Holds
  BY <1>2, OlderType, NoneAssumption
<1> QED BY <1>1, <1>2

LEMMA FlightsStep ==
  ASSUME VaultInv, FlowTypeOK, FlightsCurrent, [FlowNext]_allVars
  PROVE  FlightsCurrent'
<1> USE DEF FlightsCurrent, Refreshing
<1>a. TypeOK /\ FlowTypeOK /\ held \in [Sessions -> Holds \cup {None}]
      /\ phase \in [Sessions -> Phases] /\ VersionInv
  BY DEF VaultInv, TypeOK, FlowTypeOK
<1>b. Smooth' => Smooth
  BY SmoothBefore
<1>c. Smooth => \A t \in Sessions : phase[t] # "idle" =>
         /\ row \in Bundles /\ HoldsVersion(t)
         /\ \A s \in Sessions : phase[s] # "idle" => s = t
  BY FlightAlone DEF OneFlight
<1>1. CASE AddAccount
  <2>1. /\ row = NoBundle /\ UNCHANGED <<held, era, phase>>
    BY <1>1 DEF AddAccount, Save, flowVars
  <2>2. Smooth => \A t \in Sessions : phase[t] = "idle"
    BY <1>c, <2>1, NoBundleAssumption
  <2> QED BY <1>b, <2>1, <2>2
<1>2. ASSUME NEW s \in Sessions, NEW c \in Callers, Start(s, c) PROVE FlightsCurrent'
  <2>1. /\ Reserve(s) /\ phase[s] = "idle" /\ era' = era
        /\ phase' = [phase EXCEPT ![s] = "call"]
    BY <1>2 DEF Start, Reserve
  <2>2. row \in Bundles
    BY <1>a, <2>1, Outcomes DEF Reserve, TypeOK
  <2>3. RowKept
    BY <2>1, <2>2, LockRow, NoBundleAssumption DEF Reserve, RowKept
  <2>4. /\ \A t \in Sessions \ {s} : held'[t] = held[t] /\ phase'[t] = phase[t]
        /\ held'[s] \in Holds /\ held'[s].era = era
        /\ held'[s].generation = row.generation
        /\ phase'[s] = "call"
    <3>1. [tokens |-> row.tokens, generation |-> row.generation,
           lease |-> LockTTL, era |-> era] \in Holds
      BY <1>a, <2>2, BundleAssumption DEF Bundles, Holds, TypeOK
    <3> QED BY <1>a, <2>1, <3>1 DEF Reserve
  <2>5. held'[s] # None /\ HoldsVersion(s)'
    BY <2>1, <2>2, <2>3, <2>4, NoneAssumption
    DEF HoldsVersion, CurrentEra, RowKept, SameData
  <2> QED BY <1>b, <1>c, <2>1, <2>2, <2>3, <2>4, <2>5, HoldKept
<1>3. ASSUME NEW s \in Sessions, Flying(s) PROVE FlightsCurrent'
  <2>1. UNCHANGED <<row, held, era>>
    BY <1>3 DEF Flying, vars
  <2>2. \A t \in Sessions : phase'[t] = "idle" <=> phase[t] = "idle"
    BY <1>a, <1>3 DEF Flying
  <2> QED BY <1>b, <2>1, <2>2 DEF HoldsVersion, CurrentEra
<1>4. ASSUME NEW s \in Sessions, Ending(s) PROVE FlightsCurrent'
  <2>1. /\ RowKept /\ era' = era
        /\ held'[s] = None /\ phase'[s] = "idle"
        /\ \A t \in Sessions \ {s} : held'[t] = held[t] /\ phase'[t] = phase[t]
    BY <1>a, <1>4 DEF Ending
  <2> QED BY <1>b, <1>c, <2>1, HoldKept
<1>5. ASSUME NEW s \in Sessions, Storing(s) PROVE FlightsCurrent'
  <2>1. held' = [held EXCEPT ![s] = None] /\ era' = era
    BY <1>a, <1>5, CommitWrites
  <2>2. phase[s] = "commit" /\ phase' = [phase EXCEPT ![s] = "idle"]
    BY <1>5 DEF Storing, Land
  <2>3. Smooth => \A t \in Sessions : phase'[t] = "idle"
    BY <1>a, <1>c, <2>2
  <2>4. /\ held'[s] = None /\ phase'[s] = "idle"
        /\ \A t \in Sessions \ {s} : held'[t] = held[t] /\ phase'[t] = phase[t]
    BY <1>a, <2>1, <2>2
  <2> QED BY <1>b, <2>1, <2>3, <2>4
<1>6. ASSUME NEW w \in Writers, PatchRow(w) PROVE FlightsCurrent'
  <2>1. UNCHANGED <<held, era, phase>>
    BY <1>a, <1>6, PatchWrites DEF PatchRow
  <2>2. Smooth' /\ (\E t \in Sessions : phase[t] # "idle") => row' = row
    BY <1>6 DEF PatchRow, Smooth
  <2> QED BY <1>b, <2>1, <2>2 DEF HoldsVersion, CurrentEra
<1>7. CASE TimePasses
  <2>1. /\ era' = era /\ phase' = phase
        /\ \A t \in Sessions : held'[t] = Older(held[t])
        /\ row' = Aged(row)
    BY <1>7 DEF TimePasses, Tick, flowVars
  <2>2. \A t \in Sessions : /\ held'[t] = None <=> held[t] = None
                            /\ held[t] # None => /\ held'[t].era = held[t].era
                                                 /\ held'[t].generation = held[t].generation
    BY <1>a, <2>1, OlderSame
  <2>3. row \in Bundles => row'.generation = row.generation
    BY <2>1, LockRow DEF SameData
  <2> QED BY <1>b, <1>c, <2>1, <2>2, <2>3 DEF HoldsVersion, CurrentEra
<1>8. CASE UNCHANGED <<row, held, era, phase>>
  BY <1>b, <1>8 DEF HoldsVersion, CurrentEra
<1>9. ASSUME NEW s \in Sessions, FlowStep(s) \/ Crash(s) PROVE FlightsCurrent'
  BY <1>a, <1>3, <1>4, <1>5, <1>9, FlowStepShape
<1>10. CASE \/ \E s \in Sessions, c \in Callers : Join(s, c)
            \/ \E s \in Sessions : Cancel(s)
            \/ \E w \in Writers : ReadRow(w)
            \/ UNCHANGED allVars
  BY <1>8, <1>10 DEF Join, Cancel, ReadRow, Get, UseRead, allVars, vars, flowVars
<1> QED BY <1>1, <1>2, <1>6, <1>7, <1>9, <1>10 DEF FlowNext

-----------------------------------------------------------------------------
(* The grant is stored, or about to be *)

(* A step that changes no flight's commit, no grant and no stored tokens. *)
LEMMA GrantSame ==
  ASSUME GrantInv, Smooth' => Smooth, UNCHANGED grant,
         \A t \in Sessions : phase'[t] = "commit" <=> phase[t] = "commit",
         \A t \in Sessions : phase'[t] = "commit" => fresh'[t] = fresh[t],
         Smooth' => Stored' = Stored
  PROVE  GrantInv'
BY DEF GrantInv

LEMMA StoredKept ==
  ASSUME TypeOK, RowKept
  PROVE  Stored' = Stored
BY NoBundleAssumption DEF TypeOK, RowKept, SameData, Stored

LEMMA GrantStep ==
  ASSUME VaultInv, FlowInv, [FlowNext]_allVars
  PROVE  GrantInv' /\ NoFalseStrike'
<1> USE DEF FlowInv
<1>a. /\ TypeOK /\ VersionInv /\ FlightsCurrent /\ GrantInv
      /\ FlowTypeOK
      /\ phase \in [Sessions -> Phases] /\ fresh \in [Sessions -> TokenPairs]
  BY DEF VaultInv, FlowTypeOK
<1>b. Smooth' => Smooth
  BY SmoothBefore
<1>c. Smooth => \A s, t \in Sessions : phase[s] # "idle" /\ phase[t] # "idle" => s = t
  BY <1>a, FlightAlone DEF OneFlight, Refreshing
<1>d. ASSUME UNCHANGED struck PROVE NoFalseStrike'
  BY <1>b, <1>d DEF NoFalseStrike
<1>1. CASE AddAccount
  <2>1. row = NoBundle /\ row' = Saved(row, 0, NoMetadata)
        /\ UNCHANGED <<grant, phase, fresh, struck>>
    BY <1>1 DEF AddAccount, Save, flowVars
  <2>2. row' \in Bundles /\ row'.tokens = 0
    <3>1. 0 \in TokenPairs
      BY FlowAssumption
    <3>2. Saved(NoBundle, 0, NoMetadata) \in Bundles
      BY <3>1, PatchesType, WriteRow
    <3> QED BY <2>1, <3>2 DEF Saved
  <2>3. Stored' = Stored
    BY <2>1, <2>2, NoBundleAssumption DEF Stored
  <2> QED BY <1>a, <1>b, <1>d, <2>1, <2>3, GrantSame
<1>2. ASSUME NEW s \in Sessions, NEW c \in Callers, Start(s, c)
      PROVE  GrantInv' /\ NoFalseStrike'
  <2>1. /\ Reserve(s) /\ phase[s] = "idle"
        /\ phase' = [phase EXCEPT ![s] = "call"]
        /\ UNCHANGED <<grant, fresh, struck>>
    BY <1>2 DEF Start
  <2>2. RowKept
    <3>1. row \in Bundles
      BY <1>a, <2>1, Outcomes DEF Reserve, TypeOK
    <3> QED BY <2>1, <3>1, LockRow, NoBundleAssumption DEF Reserve, RowKept
  <2>3. \A t \in Sessions : phase'[t] = "commit" <=> phase[t] = "commit"
    BY <1>a, <2>1
  <2> QED BY <1>a, <1>b, <1>d, <2>1, <2>2, <2>3, GrantSame, StoredKept
<1>3. ASSUME NEW s \in Sessions, Succeed(s)
      PROVE  GrantInv' /\ NoFalseStrike'
  <2>1. /\ phase[s] = "call"
        /\ fresh' = [fresh EXCEPT ![s] = grant']
        /\ phase' = [phase EXCEPT ![s] = "commit"]
        /\ UNCHANGED struck
    BY <1>3 DEF Succeed
  <2>2. phase'[s] = "commit" /\ fresh'[s] = grant'
    BY <1>a, <2>1
  <2>3. Smooth => \A t \in Sessions : phase'[t] = "commit" => t = s
    BY <1>a, <1>c, <2>1
  <2> QED BY <1>b, <1>d, <2>1, <2>2, <2>3 DEF GrantInv
<1>4. ASSUME NEW s \in Sessions, phase[s] # "commit", Flying(s) \/ Ending(s),
             phase'[s] # "commit", UNCHANGED grant,
             \A t \in Sessions \ {s} : fresh'[t] = fresh[t]
      PROVE  GrantInv'
  <2>1. RowKept
    BY <1>4, ReleaseKeeps, <1>a DEF Flying, Ending, vars
  <2>2. \A t \in Sessions : phase'[t] = "commit" <=> phase[t] = "commit"
    BY <1>a, <1>4 DEF Flying, Ending
  <2>3. \A t \in Sessions : phase'[t] = "commit" => fresh'[t] = fresh[t]
    BY <1>4
  <2> QED BY <1>a, <1>b, <1>4, <2>1, <2>2, <2>3, GrantSame, StoredKept
<1>5. ASSUME NEW s \in Sessions, GiveUp(s, {}), phase[s] # "commit", UNCHANGED grant
      PROVE  GrantInv'
  <2>1. Ending(s) /\ Land(s)
    BY <1>a, <1>5, GiveUpEnds
  <2>2. phase'[s] # "commit" /\ \A t \in Sessions \ {s} : fresh'[t] = fresh[t]
    BY <1>a, <2>1 DEF Land
  <2> QED BY <1>4, <1>5, <2>1, <2>2
<1>6. ASSUME NEW s \in Sessions, FailTransient(s)
      PROVE  GrantInv' /\ NoFalseStrike'
  <2>1. phase[s] = "call" /\ TryAgain(s, {}) /\ UNCHANGED <<grant, struck>>
    BY <1>6 DEF FailTransient
  <2>2. CASE GiveUp(s, {})
    BY <1>5, <1>d, <2>1, <2>2
  <2>3. CASE ~ GiveUp(s, {})
    <3>1. UNCHANGED <<vars, fresh>> /\ phase' = [phase EXCEPT ![s] = "backoff"]
      BY <2>1, <2>3 DEF TryAgain
    <3>2. Flying(s) /\ phase'[s] # "commit"
      BY <1>a, <2>1, <3>1 DEF Flying, Phases
    <3> QED BY <1>4, <1>d, <2>1, <3>1, <3>2
  <2> QED BY <2>2, <2>3
<1>7. ASSUME NEW s \in Sessions, LoseReply(s) \/ Crash(s)
      PROVE  GrantInv' /\ NoFalseStrike'
  <2>1. "lost_reply" \in mishaps' \/ "crash" \in mishaps'
    BY <1>7 DEF LoseReply, Crash, TryAgain, GiveUp
  <2>2. ~ Smooth'
    BY <2>1 DEF Smooth
  <2> QED BY <2>2 DEF GrantInv, NoFalseStrike
<1>8. ASSUME NEW s \in Sessions, Malformed(s) \/ Interrupt(s)
      PROVE  GrantInv' /\ NoFalseStrike'
  BY <1>5, <1>8, <1>d DEF Malformed, Interrupt
<1>9. ASSUME NEW s \in Sessions, Refuse(s)
      PROVE  GrantInv' /\ NoFalseStrike'
  <2>1. phase[s] = "call" /\ held[s].tokens # grant /\ GiveUp(s, {}) /\ UNCHANGED grant
    BY <1>9 DEF Refuse
  <2>2. ~ Smooth
    BY <1>a, <2>1, FlightHasGrant
  <2> QED BY <1>b, <1>5, <2>1, <2>2 DEF NoFalseStrike
<1>10. ASSUME NEW s \in Sessions, Resume(s)
       PROVE  GrantInv' /\ NoFalseStrike'
  <2>1. /\ phase[s] = "backoff" /\ phase' = [phase EXCEPT ![s] = "call"]
        /\ UNCHANGED <<vars, fresh, grant, struck>>
    BY <1>10 DEF Resume
  <2>2. Flying(s) /\ phase'[s] # "commit"
    BY <1>a, <2>1 DEF Flying, Phases
  <2> QED BY <1>4, <1>d, <2>1, <2>2
<1>11. ASSUME NEW s \in Sessions, FlowCommit(s)
       PROVE  GrantInv' /\ NoFalseStrike'
  <2>1. phase[s] = "commit" /\ UNCHANGED <<grant, struck>>
    BY <1>11, CommitShape
  <2>2. CASE Storing(s) /\ Smooth
    <3>1. row' \in Bundles /\ row'.tokens = fresh[s]
      BY <1>a, <2>2, CommitWrites
    <3>2. Stored' = grant
      BY <1>a, <2>1, <2>2, <3>1, NoBundleAssumption DEF GrantInv, Stored
    <3>3. \A t \in Sessions : phase'[t] # "commit"
      BY <1>a, <1>c, <2>1, <2>2 DEF Storing, Land
    <3> QED BY <1>d, <2>1, <3>2, <3>3 DEF GrantInv
  <2>3. CASE ~ Smooth
    BY <1>b, <1>d, <2>1, <2>3 DEF GrantInv
  <2>4. CASE GiveUp(s, {"commit_failed"})
    <3>1. "commit_failed" \in mishaps'
      BY <1>a, <2>4, GiveUpEnds
    <3> QED BY <1>d, <2>1, <3>1 DEF GrantInv, Smooth
  <2>5. CASE Smooth /\ ~ Commits(s)
    <3>1. row \in Bundles /\ held[s] # None /\ held[s].generation = row.generation
      BY <1>a, <2>1, <2>5, FlightAlone DEF Refreshing
    <3> QED BY <2>5, <3>1, NoBundleAssumption DEF Commits, CommitOutcome
  <2> QED BY <1>11, <2>2, <2>3, <2>4, <2>5, CommitShape
<1>12. ASSUME NEW w \in Writers, PatchRow(w)
       PROVE  GrantInv' /\ NoFalseStrike'
  <2>1. UNCHANGED <<phase, fresh, grant, struck>>
    BY <1>12 DEF PatchRow
  <2>2. Stored' = Stored
    BY <1>a, <1>12, PatchWrites, NoBundleAssumption DEF Stored, FlightsCurrent
  <2> QED BY <1>a, <1>b, <1>d, <2>1, <2>2, GrantSame
<1>13. CASE TimePasses
  <2>1. UNCHANGED <<phase, fresh, grant, struck>> /\ row' = Aged(row)
    BY <1>13 DEF TimePasses, Tick, flowVars
  <2>2. RowKept
    BY <2>1, LockRow DEF RowKept
  <2> QED BY <1>a, <1>b, <1>d, <2>1, <2>2, GrantSame, StoredKept
<1>14. CASE \/ \E s \in Sessions, c \in Callers : Join(s, c)
            \/ \E s \in Sessions : Cancel(s)
            \/ \E w \in Writers : ReadRow(w)
            \/ UNCHANGED allVars
  <2>1. UNCHANGED <<row, phase, fresh, grant, struck>>
    BY <1>14 DEF Join, Cancel, ReadRow, Get, UseRead, allVars, vars, flowVars
  <2>2. Stored' = Stored
    BY <2>1 DEF Stored
  <2> QED BY <1>a, <1>b, <1>d, <2>1, <2>2, GrantSame
<1> QED BY <1>1, <1>2, <1>3, <1>6, <1>7, <1>8, <1>9, <1>10, <1>11, <1>12, <1>13, <1>14
        DEF FlowNext, FlowStep

-----------------------------------------------------------------------------
(* A locked row is being refreshed *)

Unbroken == mishaps \cap {"crash", "release_failed"} = {}

LEMMA LockStep ==
  ASSUME VaultInv, FlowInv, [FlowNext]_allVars
  PROVE  LockIsHeld'
<1> USE DEF FlowInv, LockIsHeld, Refreshing
<1>a. /\ TypeOK /\ VersionInv /\ FlowTypeOK /\ FlightsCurrent
      /\ held \in [Sessions -> Holds \cup {None}]
      /\ row \in Bundles \cup {NoBundle}
      /\ phase \in [Sessions -> Phases]
  BY DEF VaultInv, TypeOK, FlowTypeOK
<1>b. Unbroken' => Unbroken
  BY SmoothBefore DEF Unbroken
<1>1. CASE AddAccount
  BY <1>1 DEF AddAccount, Save, Saved
<1>2. ASSUME NEW s \in Sessions, NEW c \in Callers, Start(s, c) PROVE LockIsHeld'
  <2>1. Reserve(s) /\ phase' = [phase EXCEPT ![s] = "call"]
    BY <1>2 DEF Start
  <2>2. row \in Bundles
    BY <1>a, <2>1, Outcomes DEF Reserve
  <2>3. [tokens |-> row.tokens, generation |-> row.generation,
         lease |-> LockTTL, era |-> era] \in Holds
    BY <1>a, <2>2, BundleAssumption DEF Bundles, Holds, TypeOK
  <2>4. /\ held'[s] \in Holds /\ held'[s].era = era' /\ era' = era
        /\ held'[s].generation = row.generation /\ phase'[s] # "idle"
    BY <1>a, <2>1, <2>3 DEF Reserve
  <2>5. row'.generation = row.generation
    BY <2>1, <2>2, LockRow DEF Reserve, SameData
  <2>6. HoldsVersion(s)'
    BY <2>4, <2>5, NoneAssumption DEF HoldsVersion, CurrentEra
  <2> QED BY <2>4, <2>6
<1>3. ASSUME NEW s \in Sessions, Flying(s) PROVE LockIsHeld'
  <2>1. UNCHANGED <<row, held, era>>
    BY <1>3 DEF Flying, vars
  <2>2. \A t \in Sessions : phase'[t] = "idle" <=> phase[t] = "idle"
    BY <1>a, <1>3 DEF Flying
  <2> QED BY <1>b, <2>1, <2>2 DEF HoldsVersion, CurrentEra, Unbroken
<1>4. ASSUME NEW s \in Sessions, Ending(s), Unbroken' =>
               row' = Released(row, held[s].generation, FALSE)
      PROVE  LockIsHeld'
  <2>1. SUFFICES ASSUME Unbroken', row' # NoBundle, row'.lock > 0
                 PROVE  \E t \in Sessions : phase'[t] # "idle" /\ HoldsVersion(t)'
    BY DEF Unbroken
  <2>2. row \in Bundles /\ RowKept
    BY <1>a, <1>4, <2>1 DEF Ending, RowKept
  <2>3. row.generation # held[s].generation /\ row' = row
    <3>1. row' = row \/ row' = [row EXCEPT !.lock = 0]
      BY <1>4, <2>1 DEF Released, Unlocked
    <3>2. row' # [row EXCEPT !.lock = 0]
      BY <2>1, <2>2 DEF Bundles
    <3> QED BY <1>4, <2>1, <2>2, <3>1, <3>2, NoBundleAssumption DEF Released, Unlocked
  <2>4. PICK t \in Sessions : phase[t] # "idle" /\ HoldsVersion(t)
    BY <1>b, <2>1, <2>3 DEF Unbroken
  <2>5. t # s
    BY <2>3, <2>4 DEF HoldsVersion
  <2>6. held'[t] = held[t] /\ phase'[t] = phase[t] /\ era' = era
    BY <1>a, <1>4, <2>5 DEF Ending
  <2> QED BY <2>2, <2>4, <2>6, HoldKept
<1>5. ASSUME NEW s \in Sessions, NEW c, GiveUp(s, c) PROVE LockIsHeld'
  <2>1. Ending(s)
    BY <1>a, <1>5, GiveUpEnds
  <2>2. Unbroken' => row' = Released(row, held[s].generation, FALSE)
    BY <1>a, <1>5, GiveUpEnds DEF Unbroken
  <2> QED BY <1>4, <2>1, <2>2
<1>6. ASSUME NEW s \in Sessions, FailTransient(s) \/ Malformed(s) \/ Refuse(s)
                                  \/ Interrupt(s) \/ LoseReply(s)
      PROVE  LockIsHeld'
  <2>1. CASE \E c : GiveUp(s, c)
    BY <1>5, <2>1
  <2>2. CASE ~ \E c : GiveUp(s, c)
    <3>1. PICK c : TryAgain(s, c) /\ phase[s] = "call"
      BY <1>6, <2>2 DEF FailTransient, Malformed, Refuse, Interrupt, LoseReply
    <3>2. Flying(s)
      BY <1>a, <2>2, <3>1, TryAgainGoesOn
    <3> QED BY <1>3, <3>2
  <2> QED BY <2>1, <2>2
<1>8. ASSUME NEW s \in Sessions, Succeed(s) \/ Resume(s) PROVE LockIsHeld'
  <2>1. Flying(s)
    BY <1>8 DEF Succeed, Resume, Flying, Phases
  <2> QED BY <1>3, <2>1
<1>9. ASSUME NEW s \in Sessions, FlowCommit(s) PROVE LockIsHeld'
  <2>1. CASE Storing(s)
    <3>1. row'.lock = 0
      BY <1>a, <2>1, CommitWrites
    <3> QED BY <3>1
  <2>2. CASE \E c : GiveUp(s, c)
    BY <1>5, <2>2
  <2> QED BY <1>9, <2>1, <2>2, CommitShape
<1>10. ASSUME NEW s \in Sessions, Crash(s) PROVE LockIsHeld'
  BY <1>10 DEF Crash
<1>11. ASSUME NEW w \in Writers, PatchRow(w) PROVE LockIsHeld'
  <2>1. UNCHANGED <<held, era, phase>>
    BY <1>a, <1>11, PatchWrites DEF PatchRow, FlightsCurrent
  <2>2. row' = row \/ row'.lock = 0
    BY <1>a, <1>11, PatchWrites DEF FlightsCurrent
  <2> QED BY <1>b, <2>1, <2>2 DEF HoldsVersion, CurrentEra, Unbroken
<1>12. CASE TimePasses
  <2>1. /\ UNCHANGED <<era, phase>>
        /\ row' = Aged(row)
        /\ \A t \in Sessions : held'[t] = Older(held[t])
    BY <1>12 DEF TimePasses, Tick, flowVars
  <2>2. \A t \in Sessions : HoldsVersion(t) /\ row \in Bundles => HoldsVersion(t)'
    BY <1>a, <2>1, OlderSame, LockRow DEF HoldsVersion, CurrentEra, SameData
  <2>3. row' # NoBundle /\ row'.lock > 0 => row \in Bundles /\ row.lock > 0
    <3>1. ASSUME row \in Bundles PROVE row'.lock = Sooner(row.lock) /\ row.lock \in Nat
      BY <2>1, <3>1, NoBundleAssumption, BundleAssumption DEF Aged, Bundles
    <3>2. row = NoBundle => row' = NoBundle
      BY <2>1 DEF Aged
    <3> QED BY <1>a, <3>1, <3>2 DEF Sooner
  <2>4. row \in Bundles => row # NoBundle
    BY NoBundleAssumption
  <2> QED BY <1>b, <2>1, <2>2, <2>3, <2>4 DEF Unbroken
<1>13. CASE \/ \E s \in Sessions, c \in Callers : Join(s, c)
            \/ \E s \in Sessions : Cancel(s)
            \/ \E w \in Writers : ReadRow(w)
            \/ UNCHANGED allVars
  <2>1. UNCHANGED <<row, held, era, phase, mishaps>>
    BY <1>13 DEF Join, Cancel, ReadRow, Get, UseRead, allVars, vars, flowVars
  <2> QED BY <1>b, <2>1 DEF HoldsVersion, CurrentEra, Unbroken
<1> QED BY <1>1, <1>2, <1>6, <1>8, <1>9, <1>10, <1>11, <1>12, <1>13
        DEF FlowNext, FlowStep

-----------------------------------------------------------------------------
(* The theorems *)

LEMMA FlowInvInit == FlowInit => FlowInv
<1> SUFFICES ASSUME FlowInit PROVE FlowInv
  OBVIOUS
<1>1. FlowTypeOK
  BY FlowTypeInit
<1>2. FlightsCurrent
  BY DEF FlowInit, Init, FlightsCurrent, Refreshing
<1> QED BY <1>1, <1>2
        DEF FlowInit, Init, FlowInv, GrantInv, Stored, NoFalseStrike, LockIsHeld

LEMMA FlowInvStep ==
  VaultInv /\ FlowInv /\ [FlowNext]_allVars => FlowInv'
BY FlowTypeStep, FlightsStep, GrantStep, LockStep DEF FlowInv

LEMMA FlowInvariant == FlowSpec => [](VaultInv /\ FlowInv)
<1>1. FlowSpec => []VaultInv
  BY FlowImplementsVault, VersionsHold, LockIsExclusive, PTL DEF VaultInv
<1> QED BY <1>1, FlowInvInit, FlowInvStep, PTL DEF FlowSpec

(* A flight under way holds the row's present version as long as nothing   *)
(* has gone wrong: no request, process or command has written the row.     *)
THEOREM FlightsStayCurrent == FlowSpec => []FlightsCurrent
BY FlowInvariant, PTL DEF FlowInv

(* As long as no process dies in a refresh, no answer is lost, no commit's *)
(* transaction fails and no metadata is written during a refresh, and each *)
(* refresh ends within its lock TTL, the account's refresh token is never  *)
(* lost: not by refreshes of several processes, by retries, by clients     *)
(* that go away before the commit or by a release that fails.              *)
THEOREM GrantIsKept == FlowSpec => []GrantKept
<1>1. FlowTypeOK /\ GrantInv => GrantKept
  BY DEF GrantInv, GrantKept, Stored
<1> QED BY <1>1, FlowInvariant, PTL DEF FlowInv

(* Nor is the account ever taken out for a refused refresh token. *)
THEOREM NoStrikeIsFalse == FlowSpec => []NoFalseStrike
BY FlowInvariant, PTL DEF FlowInv

(* Nor do two processes refresh it at once. *)
THEOREM FlightsExclude == FlowSpec => []OneFlight
<1>1. VaultInv /\ FlightsCurrent => OneFlight
  BY FlightAlone DEF OneFlight
<1> QED BY <1>1, FlowInvariant, PTL DEF FlowInv

(* The row is never left locked by a flight that has ended, unless its     *)
(* process died or the release's transaction failed.                       *)
THEOREM LocksAreHeld == FlowSpec => []LockIsHeld
BY FlowInvariant, PTL DEF FlowInv

-----------------------------------------------------------------------------
(* AccountCommands                                                          *)

-----------------------------------------------------------------------------
(* Types *)

Cmds == {"none", "add-account", "login", "import-accounts", "import-accounts-json",
         "debug-refresh"}

Places == {"idle", "register", "authorize", "wait", "lookup", "post", "save"}

Jobs == [cmd  : Cmds,
         at   : Places,
         pair : TokenPairs,
         read : TokenPairs \cup {NoBundle},
         told : BOOLEAN]

Logins == [interval : Nat, demand : Nat, since : Nat, left : Nat, expires : Nat]

JobsTyped ==
  /\ job \in [Operators -> Jobs]
  /\ filed \in BOOLEAN /\ signedIn \in BOOLEAN
  /\ lapses \subseteq Lapses

-----------------------------------------------------------------------------
(* Types are kept *)

allOf == <<allVars, commandVars>>

LEMMA ServeIsFlow == Serve \/ Time => FlowNext
BY DEF Serve, Time, FlowNext

(* The locals a command begins with *)
LEMMA IdleType == Idle \in Jobs /\ NoLogin \in Logins
BY FlowAssumption DEF Idle, Jobs, Cmds, Places, NoLogin, Logins

LEMMA TokensType == TypeOK => Tokens \in TokenPairs \cup {NoBundle}
BY DEF TypeOK, Tokens, CellValue, Bundles

LEMMA JobsTypeInit == CommandInit => JobsTyped
<1> SUFFICES ASSUME CommandInit PROVE JobsTyped
  OBVIOUS
<1> QED BY IdleType DEF CommandInit, JobsTyped

(* What a command's step does to its locals *)
LEMMA JobStep ==
  ASSUME TypeOK, FlowTypeOK, JobsTyped, NEW o \in Operators, CommandStep(o)
  PROVE  /\ \E j \in Jobs : job' = [job EXCEPT ![o] = j]
         /\ grant' \in TokenPairs
         /\ signedIn' \in BOOLEAN /\ filed' = filed
         /\ lapses' \subseteq Lapses
         /\ UNCHANGED <<phase, attempt, fresh, cancelled, waiting, struck, mishaps>>
<1> USE DEF JobsTyped, FlowTypeOK
<1>a. job[o] \in Jobs /\ Idle \in Jobs /\ job = [job EXCEPT ![o] = job[o]]
  BY IdleType
<1>1. ASSUME Exit(o) PROVE \E j \in Jobs : job' = [job EXCEPT ![o] = j]
  BY <1>a, <1>1 DEF Exit
<1>2. ASSUME NEW what \in Lapses, NEW really, Lapse(what, really)
      PROVE  lapses' \subseteq Lapses
  BY <1>2 DEF Lapse
<1>3. "dropped" \in Lapses /\ "relogin" \in Lapses /\ "removed" \in Lapses /\ "alike" \in Lapses
      /\ "unreserved" \in Lapses /\ "raced" \in Lapses /\ "overwritten" \in Lapses
  BY DEF Lapses
<1>4. ASSUME NEW at \in Places, Found(o, at)
      PROVE  \E j \in Jobs : job' = [job EXCEPT ![o] = j]
  <2>1. [job[o] EXCEPT !.read = Tokens, !.at = at] \in Jobs
    BY <1>a, <1>4, TokensType DEF Jobs
  <2>2. job' = [job EXCEPT ![o] = [job[o] EXCEPT !.read = Tokens, !.at = at]]
    BY <1>4 DEF Found
  <2> QED BY <2>1, <2>2
<1>5. ASSUME NEW cmd \in Cmds, NEW at \in Places, NEW told \in BOOLEAN,
             Begin(o, cmd, at, told)
      PROVE  /\ \E j \in Jobs : job' = [job EXCEPT ![o] = j]
             /\ UNCHANGED <<allVars, filed, signedIn, lapses>>
  <2>1. [Idle EXCEPT !.cmd = cmd, !.at = at, !.told = told] \in Jobs
    BY <1>a, <1>5 DEF Jobs
  <2>2. /\ job' = [job EXCEPT ![o] = [Idle EXCEPT !.cmd = cmd, !.at = at, !.told = told]]
        /\ UNCHANGED <<allVars, filed, signedIn, lapses>>
    BY <1>5 DEF Begin
  <2> QED BY <2>1, <2>2
<1>6. CASE RunAddAccount(o) \/ RunImportAccounts(o) \/ RunImportAccountsJSON(o)
           \/ RunDebugRefresh(o)
  <2>1. /\ \E j \in Jobs : job' = [job EXCEPT ![o] = j]
        /\ UNCHANGED <<allVars, filed, signedIn, lapses>>
    <3>1. {"add-account", "login", "import-accounts", "import-accounts-json",
           "debug-refresh"} \subseteq Cmds
          /\ {"save", "register", "lookup"} \subseteq Places
      BY DEF Cmds, Places
    <3> QED BY <1>5, <1>6, <3>1
            DEF RunAddAccount, AddAccountWithRefreshToken, AddAccountViaOAuth,
                RunImportAccounts, RunImportAccountsJSON, RunDebugRefresh
  <2> QED BY <2>1 DEF allVars, flowVars
<1>7. CASE RunRemoveAccount(o)
  BY <1>a, <1>2, <1>3, <1>7 DEF RunRemoveAccount, flowVars
<1>8. CASE Quit(o)
  BY <1>1, <1>2, <1>3, <1>8 DEF Quit, allVars, flowVars
<1>9. CASE ImportOne(o)
  <2>1. "save" \in Places
    BY DEF Places
  <2> QED BY <1>4, <1>9, <2>1 DEF ImportOne, allVars, flowVars
<1>10. CASE CompareEntry(o)
  <2>1. "save" \in Places
    BY DEF Places
  <2> QED BY <1>1, <1>2, <1>3, <1>4, <1>10, <2>1 DEF CompareEntry, allVars, flowVars
<1>11. CASE GetBundle(o)
  <2>1. "post" \in Places
    BY DEF Places
  <2> QED BY <1>1, <1>4, <1>11, <2>1 DEF GetBundle, allVars, flowVars
<1>12. CASE PostRefresh(o)
  <2>1. grant' \in TokenPairs
    BY <1>12 DEF PostRefresh
  <2>2. \E j \in Jobs : job' = [job EXCEPT ![o] = j]
    <3>1. CASE job[o].told
      <4>1. [job[o] EXCEPT !.pair = grant', !.at = "save"] \in Jobs
        BY <1>a, <2>1 DEF Jobs, Places
      <4>2. job' = [job EXCEPT ![o] = [job[o] EXCEPT !.pair = grant', !.at = "save"]]
        BY <1>12, <3>1 DEF PostRefresh
      <4> QED BY <4>1, <4>2
    <3>2. CASE ~ job[o].told
      BY <1>1, <1>12, <3>2 DEF PostRefresh
    <3> QED BY <3>1, <3>2
  <2> QED BY <1>3, <1>12, <2>1, <2>2 DEF PostRefresh
<1>13. CASE PostLost(o)
  BY <1>1, <1>2, <1>3, <1>13 DEF PostLost
<1>14. CASE SaveBundle(o)
  BY <1>1, <1>3, <1>14 DEF SaveBundle, flowVars
<1>15. CASE Register(o)
  <2>1. [job[o] EXCEPT !.at = "authorize"] \in Jobs
    BY <1>a DEF Jobs, Places
  <2>2. job' = [job EXCEPT ![o] = [job[o] EXCEPT !.at = "authorize"]]
    BY <1>15 DEF Register
  <2> QED BY <1>15, <2>1, <2>2 DEF Register, allVars, flowVars
<1>16. CASE DeviceAuthorize(o)
  <2>1. [job[o] EXCEPT !.at = "wait"] \in Jobs
    BY <1>a DEF Jobs, Places
  <2>2. job' = [job EXCEPT ![o] = [job[o] EXCEPT !.at = "wait"]]
    BY <1>16 DEF DeviceAuthorize
  <2> QED BY <1>16, <2>1, <2>2 DEF DeviceAuthorize, allVars, flowVars
<1>17. CASE Pending(o) \/ SlowedDown(o)
  <2>1. job' = job
    BY <1>17 DEF Pending, SlowedDown
  <2>2. \E j \in Jobs : job' = [job EXCEPT ![o] = j]
    BY <1>a, <2>1
  <2> QED BY <1>17, <2>2 DEF Pending, SlowedDown, allVars, flowVars
<1>18. ASSUME Granted
       PROVE  /\ grant' \in TokenPairs /\ signedIn' \in BOOLEAN /\ filed' = filed
              /\ UNCHANGED <<phase, attempt, fresh, cancelled, waiting, struck, mishaps>>
  BY <1>18 DEF Granted
<1>19. CASE Approved(o)
  <2>1. [job[o] EXCEPT !.at = "save", !.pair = grant'] \in Jobs
    BY <1>a, <1>18, <1>19 DEF Jobs, Places, Approved
  <2>2. job' = [job EXCEPT ![o] = [job[o] EXCEPT !.at = "save", !.pair = grant']]
    BY <1>19 DEF Approved
  <2> QED BY <1>2, <1>3, <1>18, <1>19, <2>1, <2>2 DEF Approved
<1>20. CASE ApprovedUnheard(o)
  BY <1>1, <1>2, <1>3, <1>18, <1>20 DEF ApprovedUnheard
<1>21. CASE Denied(o) \/ WaitEnds(o)
  BY <1>1, <1>21 DEF Denied, WaitEnds, allVars, flowVars
<1> QED BY <1>6, <1>7, <1>8, <1>9, <1>10, <1>11, <1>12, <1>13, <1>14, <1>15, <1>16,
           <1>17, <1>19, <1>20, <1>21 DEF CommandStep, Commands, Login

-----------------------------------------------------------------------------
(* The device login *)

(* The interval WaitForCompletion waits is what upstream asks for. *)
Polite(l) == l \in Logins /\ l.demand <= l.interval

LoginsPolite == login \in [Operators -> Logins] /\ \A o \in Operators : Polite(login[o])

LEMMA LoginChanges ==
  ASSUME LoginsPolite, NEW o \in Operators, NEW l, Polite(l),
         login' = [login EXCEPT ![o] = l]
  PROVE  LoginsPolite'
BY DEF LoginsPolite, Polite

(* What the steps do to one login *)
LEMMA LoginField ==
  ASSUME NEW l \in Logins, NEW n \in Nat
  PROVE  /\ /\ [l EXCEPT !.since = n] \in Logins
            /\ [l EXCEPT !.since = n].interval = l.interval
            /\ [l EXCEPT !.since = n].demand = l.demand
         /\ /\ [l EXCEPT !.left = n] \in Logins
            /\ [l EXCEPT !.left = n].interval = l.interval
            /\ [l EXCEPT !.left = n].demand = l.demand
         /\ /\ [l EXCEPT !.expires = n] \in Logins
            /\ [l EXCEPT !.expires = n].interval = l.interval
            /\ [l EXCEPT !.expires = n].demand = l.demand
         /\ /\ [l EXCEPT !.demand = n] \in Logins
            /\ [l EXCEPT !.demand = n].interval = l.interval
            /\ [l EXCEPT !.demand = n].demand = n
         /\ /\ [l EXCEPT !.interval = n] \in Logins
            /\ [l EXCEPT !.interval = n].interval = n
            /\ [l EXCEPT !.interval = n].demand = l.demand
BY DEF Logins

LEMMA SoonerType == ASSUME NEW t \in Nat PROVE Sooner(t) \in Nat
BY DEF Sooner

LEMMA LoginsPoliteStep == LoginsPolite /\ [CommandNext]_allOf => LoginsPolite'
<1> SUFFICES ASSUME LoginsPolite, [CommandNext]_allOf PROVE LoginsPolite'
  OBVIOUS
<1>a. Polite(NoLogin)
  BY IdleType DEF Polite, NoLogin
<1>1. ASSUME login' = login PROVE LoginsPolite'
  BY <1>1 DEF LoginsPolite
<1>2. ASSUME NEW o \in Operators, Exit(o) PROVE LoginsPolite'
  BY <1>a, <1>2, LoginChanges DEF Exit
<1>3. ASSUME NEW o \in Operators, DeviceAuthorize(o) PROVE LoginsPolite'
  <2>1. PICK interval \in Intervals :
          login' = [login EXCEPT ![o] =
                     [interval |-> interval, demand |-> interval, since |-> 0,
                      left |-> Timeout, expires |-> Lifetime]]
    BY <1>3 DEF DeviceAuthorize
  <2>2. Polite([interval |-> interval, demand |-> interval, since |-> 0,
                left |-> Timeout, expires |-> Lifetime])
    BY CommandAssumption DEF Polite, Logins
  <2> QED BY <2>1, <2>2, LoginChanges
<1>4. ASSUME NEW o \in Operators, Pending(o) PROVE LoginsPolite'
  <2>1. login' = [login EXCEPT ![o] = [login[o] EXCEPT !.since = 0]]
    BY <1>4 DEF Pending
  <2>2. Polite([login[o] EXCEPT !.since = 0])
    BY DEF LoginsPolite, Polite, Logins
  <2> QED BY <2>1, <2>2, LoginChanges
<1>5. ASSUME NEW o \in Operators, SlowedDown(o) PROVE LoginsPolite'
  <2> DEFINE slow == [login[o] EXCEPT !.since = 0, !.demand = login[o].demand + SlowDown,
                                      !.interval = login[o].interval + SlowDown]
  <2>1. login' = [login EXCEPT ![o] = slow]
    BY <1>5 DEF SlowedDown, NextInterval
  <2>2. Polite(slow)
    <3> DEFINE l1 == [login[o] EXCEPT !.since = 0]
               l2 == [l1 EXCEPT !.demand = login[o].demand + SlowDown]
               l3 == [l2 EXCEPT !.interval = login[o].interval + SlowDown]
    <3>1. login[o] \in Logins /\ login[o].demand <= login[o].interval
      BY DEF LoginsPolite, Polite
    <3>2. /\ login[o].demand \in Nat /\ login[o].interval \in Nat /\ SlowDown \in Nat
      BY <3>1, CommandAssumption DEF Logins
    <3>3. /\ login[o].demand + SlowDown \in Nat /\ login[o].interval + SlowDown \in Nat
          /\ login[o].demand + SlowDown <= login[o].interval + SlowDown
      BY <3>1, <3>2
    <3>4. slow = l3
      OBVIOUS
    <3>5. l1 \in Logins
      BY <3>1, LoginField
    <3> HIDE DEF l1
    <3>6. l2 \in Logins /\ l2.demand = login[o].demand + SlowDown
      BY <3>3, <3>5, LoginField
    <3> HIDE DEF l2
    <3>7. /\ l3 \in Logins /\ l3.interval = login[o].interval + SlowDown
          /\ l3.demand = l2.demand
      BY <3>3, <3>6, LoginField
    <3> HIDE DEF l3, slow
    <3> QED BY <3>3, <3>4, <3>6, <3>7 DEF Polite
  <2> QED BY <2>1, <2>2, LoginChanges
<1>6. CASE Time
  <2>1. login' = [o \in Operators |-> Longer(login[o])]
    BY <1>6 DEF Time
  <2>2. ASSUME NEW o \in Operators PROVE Polite(Longer(login[o]))
    <3> DEFINE since == IF login[o].since < login[o].demand THEN login[o].since + 1
                        ELSE login[o].since
               l1 == [login[o] EXCEPT !.since = since]
               l2 == [l1 EXCEPT !.left = Sooner(login[o].left)]
               l3 == [l2 EXCEPT !.expires = Sooner(login[o].expires)]
    <3>1. login[o] \in Logins /\ login[o].demand <= login[o].interval
      BY DEF LoginsPolite, Polite
    <3>2. Sooner(login[o].left) \in Nat /\ Sooner(login[o].expires) \in Nat
      BY <3>1, SoonerType DEF Logins
    <3>3. since \in Nat
      BY <3>1 DEF Logins
    <3>4. Longer(login[o]) = l3
      BY <3>1 DEF Longer, Logins
    <3> HIDE DEF since
    <3>5. l1 \in Logins /\ l1.interval = login[o].interval /\ l1.demand = login[o].demand
      BY <3>1, <3>3, LoginField
    <3> HIDE DEF l1
    <3>6. l2 \in Logins /\ l2.interval = l1.interval /\ l2.demand = l1.demand
      BY <3>2, <3>5, LoginField
    <3> HIDE DEF l2
    <3>7. l3 \in Logins /\ l3.interval = l2.interval /\ l3.demand = l2.demand
      BY <3>2, <3>6, LoginField
    <3> HIDE DEF l3
    <3> QED BY <3>1, <3>4, <3>5, <3>6, <3>7 DEF Polite
  <2> QED BY <2>1, <2>2 DEF LoginsPolite, Polite
<1>7. ASSUME NEW o \in Operators, CommandStep(o) PROVE LoginsPolite'
  <2>1. Exit(o) \/ login' = login \/ DeviceAuthorize(o) \/ Pending(o) \/ SlowedDown(o)
    BY <1>7
    DEF CommandStep, Commands, RunAddAccount, AddAccountWithRefreshToken,
        AddAccountViaOAuth, RunImportAccounts, RunImportAccountsJSON, RunDebugRefresh,
        RunRemoveAccount, Begin, Login, Register, Approved, ApprovedUnheard, Denied,
        WaitEnds, Quit, ImportOne, CompareEntry, GetBundle, PostRefresh, PostLost,
        SaveBundle, Found
  <2> QED BY <1>1, <1>2, <1>3, <1>4, <1>5, <2>1
<1>8. CASE Serve \/ UNCHANGED allOf
  BY <1>1, <1>8 DEF Serve, allOf, commandVars
<1> QED BY <1>6, <1>7, <1>8 DEF CommandNext

LEMMA LoginsPoliteInit == CommandInit => LoginsPolite
BY IdleType DEF CommandInit, LoginsPolite, Polite, NoLogin

(* The device login polls no faster than upstream has last asked for. *)
THEOREM LoginsPollPolitely == CommandSpec => PollsPolitely
<1>1. LoginsPolite /\ [CommandNext]_allOf =>
        [\A o \in Operators :
           Pending(o) \/ SlowedDown(o) \/ Approved(o) =>
             login[o].since >= login[o].demand]_<<allVars, commandVars>>
  <2> SUFFICES ASSUME LoginsPolite, NEW o \in Operators,
                      Pending(o) \/ SlowedDown(o) \/ Approved(o)
               PROVE  login[o].since >= login[o].demand
    OBVIOUS
  <2>1. login[o].since >= login[o].interval
    BY DEF Pending, SlowedDown, Approved, Polls
  <2> QED BY <2>1 DEF LoginsPolite, Polite, Logins
<1>2. CommandInit /\ [][CommandNext]_allOf => []LoginsPolite
  BY LoginsPoliteInit, LoginsPoliteStep, PTL
<1> QED BY <1>1, <1>2, PTL DEF CommandSpec, PollsPolitely, allOf

-----------------------------------------------------------------------------
(* The commands use the vault as its protocol allows *)

LEMMA ServerVaultStep ==
  ASSUME Serve \/ Time
  PROVE  [FlowNext]_allVars /\ [ServingNext]_vars /\ UNCHANGED <<job, filed, signedIn>>
BY ServeIsFlow, VaultStep DEF Serve, Time

(* A command saves, or removes, or leaves the row alone. *)
LEMMA CommandVaultStep ==
  ASSUME JobsTyped, NEW o \in Operators, CommandStep(o)
  PROVE  \/ SaveBundle(o) /\ SaveSome
         \/ RunRemoveAccount(o) /\ Delete
         \/ UNCHANGED vars
<1>1. CASE SaveBundle(o)
  <2>1. job[o].pair \in TokenPairs
    BY DEF JobsTyped, Jobs
  <2>2. Source(o) \in SavedMetadata
    BY DEF Source, SavedMetadata
  <2> QED BY <1>1, <2>1, <2>2 DEF SaveBundle, SaveSome
<1>2. CASE RunRemoveAccount(o)
  BY <1>2 DEF RunRemoveAccount
<1>3. CASE ~ SaveBundle(o) /\ ~ RunRemoveAccount(o)
  BY <1>3
  DEF CommandStep, Commands, RunAddAccount, AddAccountWithRefreshToken,
      AddAccountViaOAuth, RunImportAccounts, RunImportAccountsJSON, RunDebugRefresh,
      Begin, Login, Register, DeviceAuthorize, Pending, SlowedDown, Approved,
      ApprovedUnheard, Granted, Denied, WaitEnds, Quit, ImportOne, CompareEntry,
      GetBundle, PostRefresh, PostLost, allVars
<1> QED BY <1>1, <1>2, <1>3

CommandTyped == TypeOK /\ FlowTypeOK /\ JobsTyped

LEMMA CommandTypeStep ==
  ASSUME CommandTyped, [CommandNext]_allOf
  PROVE  CommandTyped' /\ [Next]_vars
<1> USE DEF CommandTyped
<1>1. CASE Serve \/ Time
  <2>1. [Next]_vars /\ UNCHANGED <<job, filed, signedIn>>
    BY <1>1, ServerVaultStep DEF Next
  <2>2. "unreserved" \in Lapses
    BY DEF Lapses
  <2>3. lapses' \subseteq Lapses
    BY <1>1, <2>2 DEF Serve, Time, Lapse, JobsTyped
  <2> QED BY <1>1, <2>1, <2>3, TypeStep, ServerVaultStep, FlowTypeStep DEF JobsTyped
<1>2. ASSUME NEW o \in Operators, CommandStep(o) PROVE CommandTyped' /\ [Next]_vars
  <2>1. [Next]_vars
    BY <1>2, CommandVaultStep DEF Next, ServingNext
  <2>2. JobsTyped' /\ FlowTypeOK'
    BY <1>2, JobStep DEF JobsTyped, FlowTypeOK
  <2> QED BY <2>1, <2>2, TypeStep
<1>3. CASE UNCHANGED allOf
  <2>1. UNCHANGED <<vars, flowVars, job, filed, signedIn, lapses>>
    BY <1>3 DEF allOf, allVars, commandVars
  <2> QED BY <2>1, TypeStep, FlowTypeStep DEF JobsTyped, allVars
<1> QED BY <1>1, <1>2, <1>3 DEF CommandNext

LEMMA CommandTypesHold == CommandSpec => []CommandTyped
<1>1. CommandInit => CommandTyped
  BY JobsTypeInit, FlowTypeInit, TypeInit DEF CommandInit, FlowInit, CommandTyped
<1> QED BY <1>1, CommandTypeStep, PTL DEF CommandSpec, allOf

(* The operator's commands, beside a server that refreshes, are clients of *)
(* the vault as it takes them: its theorems hold of them too.              *)
THEOREM CommandsImplementVault == CommandSpec => Spec
<1>1. CommandInit => Init
  BY DEF CommandInit, FlowInit
<1>2. CommandTyped /\ [CommandNext]_allOf => [Next]_vars
  BY CommandTypeStep
<1> QED BY <1>1, <1>2, CommandTypesHold, PTL DEF CommandSpec, Spec, allOf

(* What the commands hold keeps its type. *)
THEOREM CommandTypesCorrect == CommandSpec => []CommandTypeOK
<1>1. CommandTyped => CommandTypeOK
  BY DEF CommandTyped, JobsTyped, CommandTypeOK, Jobs
<1> QED BY <1>1, CommandTypesHold, PTL

-----------------------------------------------------------------------------
(* Nobody has tokens of the account before somebody has logged in *)

FromFile == {"add-account", "import-accounts", "import-accounts-json"}

JobSigned(j) == /\ j.at \in {"post", "save"} => signedIn /\ j.cmd # "none"
                /\ j.cmd \in FromFile => filed /\ j.pair = 0

SignedInFirst ==
  /\ filed \/ row # NoBundle => signedIn
  /\ \A o \in Operators : JobSigned(job[o])

(* A step of one command *)
LEMMA SignedChanges ==
  ASSUME SignedInFirst, JobsTyped, NEW o \in Operators, NEW j, job' = [job EXCEPT ![o] = j],
         UNCHANGED filed, signedIn => signedIn',
         row' # NoBundle => row # NoBundle \/ signedIn,
         JobSigned(j)'
  PROVE  SignedInFirst'
<1>1. ASSUME NEW q \in Operators PROVE JobSigned(job[q])'
  <2>1. CASE q = o
    <3>1. job'[q] = j
      BY <2>1 DEF JobsTyped
    <3> QED BY <3>1 DEF JobSigned
  <2>2. CASE q # o
    BY <2>2 DEF SignedInFirst, JobSigned, JobsTyped
  <2> QED BY <2>1, <2>2
<1> QED BY <1>1 DEF SignedInFirst

(* The server never writes a row where there is none. *)
LEMMA ServerRow ==
  ASSUME TypeOK, Serve \/ Time
  PROVE  row = NoBundle => row' = NoBundle
<1>1. ASSUME NEW s \in Sessions, FlowStep(s) \/ Crash(s)
      PROVE  row = NoBundle => row' = NoBundle
  <2>1. Flying(s) \/ Ending(s) \/ Commits(s)
    BY <1>1, FlowStepShape DEF Storing
  <2>2. Commits(s) => row # NoBundle
    BY Outcomes, NoBundleAssumption DEF Commits, TypeOK
  <2> QED BY <2>1, <2>2 DEF Flying, Ending, RowKept, vars
<1>2. ASSUME NEW s \in Sessions, Reserve(s) PROVE row # NoBundle
  BY <1>2, Outcomes, NoBundleAssumption DEF Reserve, TypeOK
<1>3. Aged(row) = NoBundle \/ row # NoBundle
  BY DEF Aged
<1> QED BY <1>1, <1>2, <1>3
        DEF Serve, Time, Start, Join, Cancel, TimePasses, Tick, vars

(* A step that changes nothing but what a command is at *)
Turns(o, j) ==
  \/ j = job[o]
  \/ /\ j = Idle
     /\ lapses' = {} => ~(job[o].at = "save" /\ job[o].cmd \in {"login", "debug-refresh"})
  \/ /\ {j.at, job[o].at} \cap {"post", "save"} = {}
     /\ JobSigned(j)
  \/ /\ j.at = "save" /\ job[o].at \notin {"post", "save"}
     /\ j.cmd \in FromFile /\ JobSigned(j)
     /\ lapses' = {} /\ j.cmd = "import-accounts-json" /\ ~j.told =>
          j.read \in {NoBundle, 0}
  \/ /\ j.at = "post" /\ job[o].at \notin {"post", "save"}
     /\ j.cmd = "debug-refresh"
     /\ row # NoBundle /\ j.read = Tokens

Turning(o) ==
  /\ UNCHANGED <<allVars, filed, signedIn>>
  /\ \E j \in Jobs : job' = [job EXCEPT ![o] = j] /\ Turns(o, j)

LEMMA BeginTurns ==
  ASSUME CommandTyped, SignedInFirst, NEW o \in Operators,
         NEW cmd \in Cmds, NEW at \in Places, NEW told \in BOOLEAN,
         Begin(o, cmd, at, told),
         cmd \in FromFile => filed,
         at \in {"post", "save"} => cmd = "add-account" /\ at = "save"
  PROVE  Turning(o)
<1> DEFINE j == [Idle EXCEPT !.cmd = cmd, !.at = at, !.told = told]
<1>1. /\ job[o] = Idle /\ job' = [job EXCEPT ![o] = j]
      /\ UNCHANGED <<allVars, filed, signedIn>>
  BY DEF Begin
<1>2. j \in Jobs /\ j.cmd = cmd /\ j.at = at /\ j.pair = 0
  BY IdleType DEF Jobs, Idle
<1>3. Idle.at = "idle"
  BY DEF Idle
<1> HIDE DEF j
<1>4. filed => signedIn
  BY DEF SignedInFirst
<1>5. "add-account" \in FromFile /\ "add-account" # "import-accounts-json"
  BY DEF FromFile
<1>6. JobSigned(j)
  BY <1>2, <1>4, <1>5 DEF JobSigned
<1>7. Turns(o, j)
  BY <1>1, <1>2, <1>3, <1>5, <1>6 DEF Turns
<1> QED BY <1>1, <1>2, <1>7 DEF Turning

LEMMA ExitTurns ==
  ASSUME NEW o \in Operators, Exit(o), UNCHANGED <<allVars, filed, signedIn>>,
         lapses' = {} => ~(job[o].at = "save" /\ job[o].cmd \in {"login", "debug-refresh"})
  PROVE  Turning(o)
BY IdleType DEF Exit, Turning, Turns

LEMMA LoginTurns ==
  ASSUME CommandTyped, SignedInFirst, NEW o \in Operators,
         NEW at \in {"authorize", "wait"}, job[o].cmd = "login",
         job[o].at \notin {"post", "save"},
         job' = [job EXCEPT ![o].at = at], UNCHANGED <<allVars, filed, signedIn>>
  PROVE  Turning(o)
<1> DEFINE j == [job[o] EXCEPT !.at = at]
<1>1. j \in Jobs /\ j.at = at /\ j.cmd = "login"
  BY DEF CommandTyped, JobsTyped, Jobs, Places
<1>2. job' = [job EXCEPT ![o] = j]
  OBVIOUS
<1> HIDE DEF j
<1>3. JobSigned(j)
  BY <1>1 DEF JobSigned, FromFile
<1> QED BY <1>1, <1>2, <1>3 DEF Turning, Turns

(* What the commands find *)
LEMMA FoundTurns ==
  ASSUME CommandTyped, SignedInFirst, NEW o \in Operators,
         job[o].at = "lookup", UNCHANGED <<allVars, filed, signedIn>>,
         \/ /\ Found(o, "save") /\ job[o].cmd \in FromFile
            /\ lapses' = {} /\ job[o].cmd = "import-accounts-json" /\ ~job[o].told =>
                 Tokens \in {NoBundle, 0}
         \/ Found(o, "post") /\ job[o].cmd = "debug-refresh" /\ row # NoBundle
  PROVE  Turning(o)
<1>1. PICK at \in {"save", "post"} :
        /\ Found(o, at)
        /\ \/ /\ at = "save" /\ job[o].cmd \in FromFile
              /\ lapses' = {} /\ job[o].cmd = "import-accounts-json" /\ ~job[o].told =>
                   Tokens \in {NoBundle, 0}
           \/ at = "post" /\ job[o].cmd = "debug-refresh" /\ row # NoBundle
  OBVIOUS
<1> DEFINE j == [job[o] EXCEPT !.read = Tokens, !.at = at]
<1>2. /\ j \in Jobs /\ j.at = at /\ j.read = Tokens
      /\ j.cmd = job[o].cmd /\ j.told = job[o].told /\ j.pair = job[o].pair
  BY TokensType DEF CommandTyped, JobsTyped, Jobs, Places
<1>3. job' = [job EXCEPT ![o] = j]
  BY <1>1 DEF Found
<1> HIDE DEF j
<1>4. job[o].cmd \in FromFile => JobSigned(j)
  BY <1>2 DEF SignedInFirst, JobSigned, FromFile
<1> QED BY <1>1, <1>2, <1>3, <1>4 DEF Turning, Turns

LEMMA CommandShape ==
  ASSUME CommandTyped, SignedInFirst, NEW o \in Operators, CommandStep(o)
  PROVE  \/ Turning(o)
         \/ RunRemoveAccount(o) \/ SaveBundle(o)
         \/ PostRefresh(o) \/ PostLost(o)
         \/ Approved(o) \/ ApprovedUnheard(o)
<1>1. CASE RunAddAccount(o) \/ RunImportAccounts(o) \/ RunImportAccountsJSON(o)
           \/ RunDebugRefresh(o)
  <2>1. {"add-account", "login", "import-accounts", "import-accounts-json",
         "debug-refresh"} \subseteq Cmds
        /\ {"save", "register", "lookup"} \subseteq Places
        /\ {"login", "debug-refresh"} \cap FromFile = {}
        /\ {"register", "lookup"} \cap {"post", "save"} = {}
    BY DEF Cmds, Places, FromFile
  <2> QED BY <1>1, <2>1, BeginTurns
          DEF RunAddAccount, AddAccountWithRefreshToken, AddAccountViaOAuth,
              RunImportAccounts, RunImportAccountsJSON, RunDebugRefresh
<1>2. CASE Quit(o)
  BY <1>2, ExitTurns DEF Quit, Lapse
<1>3. CASE ImportOne(o)
  BY <1>3, FoundTurns DEF ImportOne, At, FromFile
<1>4. CASE CompareEntry(o)
  <2>1. PICK alike \in BOOLEAN :
          /\ IF Collides(o, alike) THEN Exit(o) ELSE Found(o, "save")
          /\ Lapse("alike", alike /\ ~job[o].told /\ Tokens \notin {NoBundle, job[o].pair})
    BY <1>4 DEF CompareEntry
  <2>2. /\ job[o].cmd = "import-accounts-json" /\ job[o].at = "lookup"
        /\ UNCHANGED <<allVars, filed, signedIn>>
    BY <1>4 DEF CompareEntry, At
  <2>3. CASE Collides(o, alike)
    BY <2>1, <2>2, <2>3, ExitTurns
  <2>4. CASE ~ Collides(o, alike)
    <3>1. job[o].cmd \in FromFile /\ job[o].pair = 0
      BY <2>2 DEF FromFile, SignedInFirst, JobSigned
    <3>2. lapses' = {} /\ ~job[o].told => Tokens \in {NoBundle, 0}
      BY <2>1, <2>4, <3>1 DEF Collides, Lapse
    <3> QED BY <2>1, <2>2, <2>4, <3>1, <3>2, FoundTurns
  <2> QED BY <2>3, <2>4
<1>5. CASE GetBundle(o)
  BY <1>5, ExitTurns, FoundTurns DEF GetBundle, At
<1>6. CASE Register(o) \/ DeviceAuthorize(o)
  BY <1>6, LoginTurns DEF Register, DeviceAuthorize, At
<1>7. CASE Pending(o) \/ SlowedDown(o)
  <2>1. /\ job' = job /\ UNCHANGED <<allVars, filed, signedIn>>
    BY <1>7 DEF Pending, SlowedDown
  <2>2. job[o] \in Jobs /\ job' = [job EXCEPT ![o] = job[o]]
    BY <2>1 DEF CommandTyped, JobsTyped
  <2> QED BY <2>1, <2>2 DEF Turning, Turns
<1>8. CASE Denied(o) \/ WaitEnds(o)
  BY <1>8, ExitTurns DEF Denied, WaitEnds, Polls, At
<1> QED BY <1>1, <1>2, <1>3, <1>4, <1>5, <1>6, <1>7, <1>8
        DEF CommandStep, Commands, Login

(* What a command saves is from the file, from a login or from a refresh.  *)
LEMMA SignedStep ==
  ASSUME SignedInFirst, CommandTyped, [CommandNext]_allOf
  PROVE  SignedInFirst'
<1> USE DEF CommandTyped
<1>1. CASE Serve \/ Time
  <2>1. row' # NoBundle => row # NoBundle
    BY <1>1, ServerRow
  <2> QED BY <1>1, <2>1, ServerVaultStep DEF SignedInFirst, JobSigned
<1>2. CASE UNCHANGED allOf
  BY <1>2 DEF allOf, allVars, vars, commandVars, SignedInFirst, JobSigned
<1>3. ASSUME NEW o \in Operators, CommandStep(o) PROVE SignedInFirst'
  <2>1. JobSigned(Idle)'
    BY DEF JobSigned, Idle, FromFile
  <2>2. ASSUME Exit(o), UNCHANGED <<filed>>, signedIn => signedIn',
               row' # NoBundle => row # NoBundle \/ signedIn
        PROVE  SignedInFirst'
    BY <2>1, <2>2, SignedChanges DEF Exit
  <2>3. CASE Turning(o)
    <3>1. PICK j \in Jobs : job' = [job EXCEPT ![o] = j] /\ Turns(o, j)
      BY <2>3 DEF Turning
    <3>2. UNCHANGED <<row, filed, signedIn>>
      BY <2>3 DEF Turning, allVars, vars
    <3>3. JobSigned(j)'
      <4>1. CASE JobSigned(j)
        BY <3>2, <4>1 DEF JobSigned
      <4>2. CASE j = job[o]
        BY <3>2, <4>2 DEF SignedInFirst, JobSigned
      <4>3. CASE j.at = "post" /\ j.cmd = "debug-refresh" /\ row # NoBundle
        BY <3>2, <4>3 DEF SignedInFirst, JobSigned, FromFile
      <4> QED BY <2>1, <3>1, <4>1, <4>2, <4>3 DEF Turns
    <3> QED BY <3>1, <3>2, <3>3, SignedChanges
  <2>4. CASE RunRemoveAccount(o)
    <3>1. row' = NoBundle /\ UNCHANGED <<job, filed, signedIn>>
      BY <2>4 DEF RunRemoveAccount, Delete
    <3> QED BY <3>1 DEF SignedInFirst, JobSigned
  <2>5. CASE SaveBundle(o)
    <3>1. signedIn
      BY <2>5 DEF SaveBundle, SignedInFirst, JobSigned
    <3> QED BY <2>2, <2>5, <3>1 DEF SaveBundle
  <2>6. CASE PostLost(o)
    BY <2>2, <2>6 DEF PostLost, vars
  <2>7. CASE PostRefresh(o)
    <3>1. /\ UNCHANGED <<row, filed, signedIn>>
          /\ job[o].cmd = "debug-refresh" /\ job[o].at = "post"
      BY <2>7 DEF PostRefresh, At, vars
    <3>2. CASE job[o].told
      <4>1. PICK g : grant' = g
        OBVIOUS
      <4> DEFINE j == [job[o] EXCEPT !.pair = g, !.at = "save"]
      <4>2. job' = [job EXCEPT ![o] = j] /\ j.cmd = "debug-refresh"
        BY <2>7, <3>1, <3>2, <4>1 DEF PostRefresh, JobsTyped, Jobs
      <4>3. signedIn
        BY <3>1 DEF SignedInFirst, JobSigned
      <4>5. PICK k : k = j
        OBVIOUS
      <4>4. JobSigned(k)'
        BY <3>1, <4>2, <4>3, <4>5 DEF JobSigned, FromFile
      <4> QED BY <3>1, <4>2, <4>4, <4>5, SignedChanges
    <3>3. CASE ~ job[o].told
      BY <2>2, <2>7, <3>1, <3>3 DEF PostRefresh
    <3> QED BY <3>2, <3>3
  <2>8. CASE Approved(o)
    <3>5. PICK g : grant' = g
      OBVIOUS
    <3> DEFINE j == [job[o] EXCEPT !.at = "save", !.pair = g]
    <3>1. /\ UNCHANGED <<row, filed>> /\ signedIn' = TRUE
          /\ job[o].cmd = "login"
      BY <2>8 DEF Approved, Granted, Polls, At, vars
    <3>2. job' = [job EXCEPT ![o] = j]
      BY <2>8, <3>5 DEF Approved
    <3>3. j.cmd = "login"
      BY <3>1 DEF JobsTyped, Jobs
    <3>6. PICK k : k = j
      OBVIOUS
    <3>4. JobSigned(k)'
      BY <3>1, <3>3, <3>6 DEF JobSigned, FromFile
    <3> QED BY <3>1, <3>2, <3>4, <3>6, SignedChanges
  <2>9. CASE ApprovedUnheard(o)
    BY <2>2, <2>9 DEF ApprovedUnheard, Granted, vars
  <2> QED BY <1>3, <2>3, <2>4, <2>5, <2>6, <2>7, <2>8, <2>9, CommandShape
<1> QED BY <1>1, <1>2, <1>3 DEF CommandNext

-----------------------------------------------------------------------------
(* The invariant of the account *)

Posted(o) == At(o, "debug-refresh", "save")

(* A flight that is about to commit has the grant, and none is under way   *)
(* while debug-refresh has an answer to store.                             *)
FlightsFit ==
  /\ \A s \in Sessions : phase[s] = "commit" => fresh[s] = grant
  /\ \A o \in Operators : Posted(o) => Refreshing = {}

(* What a command has read is not newer than the row, and what it is about *)
(* to save not older.                                                      *)
JobFits(j) ==
  /\ j.cmd = "debug-refresh" /\ j.at \in {"post", "save"} =>
       Tokens # NoBundle /\ j.read # NoBundle /\ j.read <= Tokens
  /\ j.cmd = "debug-refresh" /\ j.at = "save" /\ j.read = Tokens =>
       j.pair \in {j.read, grant}
  /\ j.cmd = "login" /\ j.at = "save" => j.pair = 0
  /\ j.cmd = "import-accounts-json" /\ j.at = "save" /\ ~j.told =>
       j.read \in {NoBundle, 0}

JobsFit == \A o \in Operators : JobFits(job[o])

(* Where the account's live refresh token is: *)
InRow == Tokens = grant

AtHand == /\ Tokens = NoBundle
          /\ filed \/ \E o \in Operators : At(o, "login", "save")

InFlight == Tokens # NoBundle /\ \E s \in Sessions : phase[s] = "commit"

InAnswer == \E o \in Operators :
              Posted(o) /\ job[o].read = Tokens /\ job[o].pair = grant

GrantFits ==
  /\ Tokens = NoBundle => grant = 0
  /\ Tokens # NoBundle => Tokens <= grant
  /\ signedIn => InRow \/ AtHand \/ InFlight \/ InAnswer

AccountFits == FlightsCurrent /\ FlightsFit /\ JobsFit /\ GrantFits /\ ~struck

CommandInv ==
  /\ CommandTyped /\ SignedInFirst
  /\ Careful => AccountFits

(* What has gone wrong, or was done without care, stays on record. *)
LEMMA CarefulBefore ==
  ASSUME CommandTyped, [CommandNext]_allOf, Careful'
  PROVE  Careful
<1>1. lapses \subseteq lapses'
  BY DEF CommandNext, Serve, Time, CommandStep, Commands, Login, RunAddAccount,
     AddAccountWithRefreshToken, AddAccountViaOAuth, RunImportAccounts,
     RunImportAccountsJSON, RunDebugRefresh, RunRemoveAccount, Begin, Register,
     DeviceAuthorize, Pending, SlowedDown, Approved, ApprovedUnheard, Denied, WaitEnds,
     Quit, ImportOne, CompareEntry, GetBundle, PostRefresh, PostLost, SaveBundle, Lapse,
     allOf, commandVars
<1>2. Smooth
  <2>1. CASE Serve \/ Time
    BY <2>1, ServerVaultStep, SmoothBefore DEF Careful
  <2>2. ASSUME NEW o \in Operators, CommandStep(o) PROVE Smooth
    <3>1. mishaps' = mishaps
      BY <2>2, JobStep DEF CommandTyped
    <3>2. strayed => strayed'
      BY <2>2, CommandVaultStep DEF CommandTyped, SaveSome, Save, Delete, vars
    <3> QED BY <3>1, <3>2 DEF Careful, Smooth
  <2>3. CASE UNCHANGED allOf
    BY <2>3 DEF allOf, allVars, vars, flowVars, Careful, Smooth
  <2> QED BY <2>1, <2>2, <2>3 DEF CommandNext
<1> QED BY <1>1, <1>2 DEF Careful

-----------------------------------------------------------------------------
(* The server's steps *)

(* A flight that has no answer yet presents the account's live token. *)
LEMMA FlightHasLiveToken ==
  ASSUME VaultInv, SignedInFirst, FlightsCurrent, FlightsFit, GrantFits, Smooth,
         NEW s \in Sessions, phase[s] \in {"call", "backoff"}
  PROVE  held[s].tokens = grant /\ Tokens = grant /\ Tokens # NoBundle
<1>1. s \in Refreshing
  BY DEF Refreshing
<1>2. /\ row \in Bundles /\ held[s].tokens = row.tokens
      /\ \A t \in Sessions : phase[t] # "commit"
  BY <1>1, FlightAlone DEF OneFlight, Refreshing
<1>3. row # NoBundle /\ Tokens = row.tokens /\ Tokens # NoBundle
  BY <1>2, NoBundleAssumption, VaultAssumption DEF Bundles, Tokens, CellValue
<1>4. signedIn
  BY <1>3 DEF SignedInFirst
<1>5. ~ AtHand /\ ~ InFlight /\ ~ InAnswer
  BY <1>1, <1>2, <1>3 DEF AtHand, InFlight, InAnswer, FlightsFit
<1> QED BY <1>2, <1>3, <1>4, <1>5 DEF GrantFits, InRow

(* A step that moves no token *)
Unmoved ==
  /\ Tokens' = Tokens
  /\ UNCHANGED <<grant, struck>>
  /\ \A t \in Sessions : phase'[t] = "commit" <=> phase[t] = "commit"
  /\ \A t \in Sessions : phase'[t] = "commit" => fresh'[t] = fresh[t]

LEMMA TokensKept ==
  ASSUME TypeOK, RowKept
  PROVE  Tokens' = Tokens
BY NoBundleAssumption DEF TypeOK, RowKept, SameData, Tokens, CellValue

LEMMA EndingUnmoved ==
  ASSUME CommandTyped, NEW s \in Sessions, Ending(s), Land(s), phase[s] # "commit",
         UNCHANGED <<grant, struck>>
  PROVE  Unmoved
<1>1. Tokens' = Tokens
  BY TokensKept DEF Ending, CommandTyped
<1> QED BY <1>1 DEF Unmoved, Land, CommandTyped, FlowTypeOK

LEMMA ServerShape ==
  ASSUME VaultInv, CommandInv, Careful, Careful', Serve \/ Time
  PROVE  \/ Unmoved
         \/ \E s \in Sessions : Succeed(s)
         \/ \E s \in Sessions : Storing(s)
<1>a. /\ TypeOK /\ FlowTypeOK /\ CommandTyped
      /\ SignedInFirst /\ FlightsCurrent /\ FlightsFit /\ GrantFits /\ Smooth
      /\ phase \in [Sessions -> Phases] /\ fresh \in [Sessions -> TokenPairs]
  BY DEF CommandInv, AccountFits, CommandTyped, Careful, FlowTypeOK
<1>b. mishaps' \subseteq {"release_failed"}
  BY DEF Careful, Smooth
<1>1. ASSUME NEW s \in Sessions, NEW c \in Callers, Start(s, c) PROVE Unmoved
  <2>1. /\ Reserve(s) /\ phase[s] = "idle"
        /\ phase' = [phase EXCEPT ![s] = "call"]
        /\ UNCHANGED <<grant, fresh, struck>>
    BY <1>1 DEF Start
  <2>2. row \in Bundles
    BY <1>a, <2>1, Outcomes DEF Reserve, TypeOK
  <2>3. RowKept
    BY <2>1, <2>2, LockRow, NoBundleAssumption DEF Reserve, RowKept
  <2>4. \A t \in Sessions : phase'[t] = "commit" <=> phase[t] = "commit"
    BY <1>a, <2>1
  <2> QED BY <1>a, <2>1, <2>3, <2>4, TokensKept DEF Unmoved
<1>2. ASSUME NEW s \in Sessions, GiveUp(s, {}), phase[s] # "commit",
             UNCHANGED <<grant, struck>>
      PROVE  Unmoved
  BY <1>a, <1>2, GiveUpEnds, EndingUnmoved
<1>3. ASSUME NEW s \in Sessions, FailTransient(s) \/ Malformed(s) \/ Interrupt(s)
      PROVE  Unmoved
  <2>1. phase[s] # "commit" /\ UNCHANGED <<grant, struck>>
    BY <1>3 DEF FailTransient, Malformed, Interrupt
  <2>2. CASE GiveUp(s, {})
    BY <1>2, <2>1, <2>2
  <2>3. CASE ~ GiveUp(s, {})
    <3>1. UNCHANGED <<vars, fresh>> /\ phase' = [phase EXCEPT ![s] = "backoff"]
      BY <1>3, <2>3 DEF FailTransient, Malformed, Interrupt, TryAgain
    <3>2. Tokens' = Tokens
      BY <3>1 DEF Tokens, CellValue, vars
    <3> QED BY <1>a, <2>1, <3>1, <3>2 DEF Unmoved
  <2> QED BY <2>2, <2>3
<1>4. ASSUME NEW s \in Sessions PROVE ~ (LoseReply(s) \/ Crash(s))
  <2>1. LoseReply(s) \/ Crash(s) => "lost_reply" \in mishaps' \/ "crash" \in mishaps'
    BY DEF LoseReply, Crash, TryAgain, GiveUp
  <2> QED BY <1>b, <2>1
<1>5. ASSUME NEW s \in Sessions PROVE ~ Refuse(s)
  BY <1>a, FlightHasLiveToken DEF Refuse
<1>6. ASSUME NEW s \in Sessions, Resume(s) PROVE Unmoved
  <2>1. /\ phase[s] = "backoff" /\ phase' = [phase EXCEPT ![s] = "call"]
        /\ UNCHANGED <<vars, fresh, grant, struck>>
    BY <1>6 DEF Resume
  <2>2. Tokens' = Tokens
    BY <2>1 DEF Tokens, CellValue, vars
  <2> QED BY <1>a, <2>1, <2>2 DEF Unmoved
<1>7. ASSUME NEW s \in Sessions, FlowCommit(s) PROVE Storing(s)
  <2>1. ASSUME GiveUp(s, {"commit_failed"}) PROVE FALSE
    <3>1. "commit_failed" \in mishaps'
      BY <1>a, <2>1, GiveUpEnds
    <3> QED BY <1>b, <3>1
  <2>2. row \in Bundles /\ held[s] # None /\ held[s].generation = row.generation
    BY <1>a, <1>7, FlightAlone DEF FlowCommit, Refreshing
  <2>3. Commits(s)
    BY <2>2, NoBundleAssumption DEF Commits, CommitOutcome
  <2> QED BY <1>7, <2>1, <2>3, CommitShape
<1>8. CASE \/ \E s \in Sessions, c \in Callers : Join(s, c)
           \/ \E s \in Sessions : Cancel(s)
  <2>1. UNCHANGED <<row, phase, fresh, grant, struck>>
    BY <1>8 DEF Join, Cancel, vars
  <2>2. Tokens' = Tokens
    BY <2>1 DEF Tokens, CellValue
  <2> QED BY <2>1, <2>2 DEF Unmoved
<1>9. CASE Time
  <2>1. UNCHANGED <<phase, fresh, grant, struck>> /\ row' = Aged(row)
    BY <1>9 DEF Time, TimePasses, Tick, flowVars
  <2>2. RowKept
    BY <2>1, LockRow DEF RowKept
  <2> QED BY <1>a, <2>1, <2>2, TokensKept DEF Unmoved
<1> QED BY <1>1, <1>3, <1>4, <1>5, <1>6, <1>7, <1>8, <1>9 DEF Serve, FlowStep

(* What one job must fit stays so while no token moves, or while none that *)
(* debug-refresh looks at is older than before.                            *)
LEMMA JobFitsSame ==
  ASSUME NEW j, JobFits(j), UNCHANGED <<Tokens, grant>>
  PROVE  JobFits(j)'
BY DEF JobFits

LEMMA ServerKeepsFit ==
  ASSUME VaultInv, CommandInv, Careful, Careful', Serve \/ Time
  PROVE  AccountFits'
<1>a. /\ TypeOK /\ FlowTypeOK /\ CommandTyped /\ JobsTyped
      /\ SignedInFirst /\ FlightsCurrent /\ FlightsFit /\ GrantFits /\ JobsFit
      /\ Smooth /\ ~struck
      /\ phase \in [Sessions -> Phases] /\ fresh \in [Sessions -> TokenPairs]
  BY DEF CommandInv, AccountFits, CommandTyped, Careful, FlowTypeOK
<1>b. FlightsCurrent'
  BY <1>a, ServerVaultStep, FlightsStep
<1>c. UNCHANGED <<job, filed, signedIn>>
  BY ServerVaultStep
<1>d. (\E o \in Operators : Posted(o)) => Refreshing' = Refreshing
  <2>1. CASE Serve
    BY <2>1 DEF Serve, Lapse, Careful, Posted
  <2>2. CASE Time
    BY <2>2 DEF Time, TimePasses, flowVars, Refreshing
  <2> QED BY <2>1, <2>2
<1>e. \A o \in Operators : Posted(o)' = Posted(o)
  BY <1>c DEF Posted, At
<1>f. \A s, t \in Refreshing : s = t
  BY <1>a, FlightAlone DEF OneFlight
<1>1. CASE Unmoved
  <2>1. Tokens' = Tokens /\ grant' = grant /\ struck' = struck
    BY <1>1 DEF Unmoved
  <2>2. FlightsFit'
    BY <1>a, <1>d, <1>e, <1>1 DEF FlightsFit, Unmoved
  <2>3. JobsFit'
    BY <1>a, <1>c, <2>1, JobFitsSame DEF JobsFit
  <2>4. GrantFits'
    BY <1>a, <1>c, <1>1, <2>1
    DEF GrantFits, InRow, AtHand, InFlight, InAnswer, Posted, At, Unmoved
  <2> QED BY <1>a, <1>b, <2>1, <2>2, <2>3, <2>4 DEF AccountFits
<1>2. ASSUME NEW s \in Sessions, Succeed(s) PROVE AccountFits'
  <2>1. /\ phase[s] = "call" /\ grant' \in {grant, grant + 1} \cap TokenPairs
        /\ fresh' = [fresh EXCEPT ![s] = grant']
        /\ phase' = [phase EXCEPT ![s] = "commit"]
        /\ UNCHANGED <<vars, struck>>
    BY <1>2 DEF Succeed
  <2>2. s \in Refreshing
    BY <2>1 DEF Refreshing
  <2>3. Tokens' = Tokens /\ Tokens = grant /\ Tokens # NoBundle
    BY <1>a, <2>1, FlightHasLiveToken DEF vars, Tokens, CellValue
  <2>4. ~ \E o \in Operators : Posted(o)
    BY <1>a, <2>2 DEF FlightsFit
  <2>5. \A t \in Sessions : phase'[t] = "commit" => fresh'[t] = grant'
    BY <1>a, <1>f, <2>1, <2>2 DEF Refreshing
  <2>6. FlightsFit'
    BY <1>e, <2>4, <2>5 DEF FlightsFit
  <2>7. JobsFit'
    <3>1. ASSUME NEW o \in Operators PROVE JobFits(job[o])'
      <4>1. ~ Posted(o) /\ JobFits(job[o])
        BY <1>a, <2>4 DEF JobsFit
      <4> QED BY <1>c, <2>3, <4>1 DEF JobFits, Posted, At
    <3> QED BY <3>1 DEF JobsFit
  <2>8. Tokens <= grant'
    BY <1>a, <2>1, <2>3, FlowAssumption DEF FlowTypeOK
  <2>9. phase'[s] = "commit"
    BY <1>a, <2>1
  <2>10. GrantFits'
    BY <2>3, <2>8, <2>9 DEF GrantFits, InFlight
  <2> QED BY <1>a, <1>b, <2>1, <2>6, <2>7, <2>10 DEF AccountFits
<1>3. ASSUME NEW s \in Sessions, Storing(s) PROVE AccountFits'
  <2>1. phase[s] = "commit" /\ Land(s) /\ UNCHANGED <<grant, struck>>
    BY <1>3 DEF Storing
  <2>2. s \in Refreshing
    BY <2>1 DEF Refreshing
  <2>3. row \in Bundles /\ row' \in Bundles /\ row'.tokens = fresh[s] /\ fresh[s] = grant
    BY <1>a, <1>3, <2>1, CommitWrites DEF FlightsFit
  <2>4. /\ Tokens' = grant /\ grant' = grant /\ Tokens' # NoBundle
        /\ Tokens # NoBundle
    BY <1>a, <2>1, <2>3, NoBundleAssumption, VaultAssumption
    DEF Tokens, CellValue, FlowTypeOK, Bundles
  <2>5. ~ \E o \in Operators : Posted(o)
    BY <1>a, <2>2 DEF FlightsFit
  <2>6. \A t \in Sessions : phase'[t] # "commit"
    BY <1>a, <1>f, <2>1, <2>2 DEF Land, Refreshing
  <2>7. FlightsFit'
    BY <1>e, <2>5, <2>6 DEF FlightsFit
  <2>8. /\ Tokens \in Nat /\ grant \in Nat /\ Tokens <= grant
    BY <1>a, <2>4, TokensType, FlowAssumption DEF FlowTypeOK, GrantFits
  <2>9. JobsFit'
    <3>1. ASSUME NEW o \in Operators PROVE JobFits(job[o])'
      <4>1. ~ Posted(o) /\ JobFits(job[o])
        BY <1>a, <2>5 DEF JobsFit
      <4>2. job[o].read = NoBundle \/ job[o].read \in Nat
        BY <1>a, FlowAssumption DEF JobsTyped, Jobs
      <4>3. job[o].read \in Nat /\ job[o].read <= Tokens => job[o].read <= grant
        BY <2>8
      <4> QED BY <1>c, <2>4, <4>1, <4>2, <4>3 DEF JobFits, Posted, At
    <3> QED BY <3>1 DEF JobsFit
  <2>10. GrantFits'
    BY <2>4, <2>8 DEF GrantFits, InRow
  <2> QED BY <1>a, <1>b, <2>1, <2>7, <2>9, <2>10 DEF AccountFits
<1> QED BY <1>1, <1>2, <1>3, ServerShape

-----------------------------------------------------------------------------
(* The commands' steps *)

LEMMA JobsChange ==
  ASSUME JobsTyped, NEW o \in Operators, NEW j, job' = [job EXCEPT ![o] = j]
  PROVE  /\ job'[o] = j
         /\ \A q \in Operators \ {o} : job'[q] = job[q]
BY DEF JobsTyped

LEMMA IdleFits == JobFits(Idle)' /\ ~ (Idle.at = "save")
BY DEF JobFits, Idle

(* A job that turns still fits, and its tokens stay where they were. *)
LEMMA TurnFits ==
  ASSUME CommandTyped, JobsFit, SignedInFirst, NEW o \in Operators, NEW j \in Jobs,
         Turns(o, j), lapses' = {}, UNCHANGED <<Tokens, grant>>
  PROVE  /\ JobFits(j)'
         /\ j.at = "save" /\ j.cmd \in {"login", "debug-refresh"} => j = job[o]
         /\ job[o].at = "save" /\ job[o].cmd \in {"login", "debug-refresh"} => j = job[o]
<1>a. TypeOK /\ JobFits(job[o])
  BY DEF CommandTyped, JobsFit
<1>1. CASE j = job[o]
  BY <1>a, <1>1, JobFitsSame
<1>2. CASE /\ j = Idle
           /\ ~(job[o].at = "save" /\ job[o].cmd \in {"login", "debug-refresh"})
  BY <1>2, IdleFits
<1>3. CASE {j.at, job[o].at} \cap {"post", "save"} = {}
  <2>1. j.at # "post" /\ j.at # "save" /\ job[o].at # "save"
    BY <1>3
  <2> QED BY <2>1 DEF JobFits
<1>4. CASE /\ j.at = "save" /\ job[o].at \notin {"post", "save"}
           /\ j.cmd \in FromFile
           /\ j.cmd = "import-accounts-json" /\ ~j.told => j.read \in {NoBundle, 0}
  BY <1>4 DEF JobFits, FromFile
<1>5. CASE /\ j.at = "post" /\ job[o].at \notin {"post", "save"}
           /\ j.cmd = "debug-refresh"
           /\ row # NoBundle /\ j.read = Tokens
  <2>1. row \in Bundles
    BY <1>a, <1>5 DEF TypeOK
  <2>2. Tokens \in TokenPairs /\ Tokens # NoBundle
    BY <1>5, <2>1, VaultAssumption DEF Tokens, CellValue, Bundles
  <2>3. Tokens \in Nat /\ Tokens <= Tokens
    BY <2>2, FlowAssumption
  <2> QED BY <1>5, <2>2, <2>3 DEF JobFits
<1> QED BY <1>1, <1>2, <1>3, <1>4, <1>5 DEF Turns

LEMMA TurningKeepsFit ==
  ASSUME CommandInv, Careful, Careful', NEW o \in Operators, Turning(o)
  PROVE  FlightsFit' /\ JobsFit' /\ GrantFits'
<1>a. /\ CommandTyped /\ JobsTyped /\ SignedInFirst
      /\ FlightsFit /\ GrantFits /\ JobsFit /\ lapses' = {}
  BY DEF CommandInv, AccountFits, CommandTyped, Careful
<1>1. UNCHANGED <<row, phase, fresh, grant, filed, signedIn>>
  BY DEF Turning, allVars, vars, flowVars
<1>2. PICK j \in Jobs : job' = [job EXCEPT ![o] = j] /\ Turns(o, j)
  BY DEF Turning
<1>3. Tokens' = Tokens /\ Refreshing' = Refreshing
  BY <1>1 DEF Tokens, CellValue, Refreshing
<1>4. /\ JobFits(j)'
      /\ j.at = "save" /\ j.cmd \in {"login", "debug-refresh"} => j = job[o]
      /\ job[o].at = "save" /\ job[o].cmd \in {"login", "debug-refresh"} => j = job[o]
  BY <1>a, <1>1, <1>2, <1>3, TurnFits
<1>5. /\ job'[o] = j
      /\ \A q \in Operators \ {o} : job'[q] = job[q]
  BY <1>a, <1>2, JobsChange
<1>6. JobsFit'
  <2>1. ASSUME NEW q \in Operators PROVE JobFits(job[q])'
    <3>1. CASE q = o
      BY <1>4, <1>5, <3>1 DEF JobFits
    <3>2. CASE q # o
      <4>1. JobFits(job[q]) /\ job'[q] = job[q]
        BY <1>a, <1>5, <3>2 DEF JobsFit
      <4> QED BY <1>1, <1>3, <4>1 DEF JobFits
    <3> QED BY <3>1, <3>2
  <2> QED BY <2>1 DEF JobsFit
<1>7. ASSUME NEW q \in Operators PROVE (Posted(q) \/ Posted(q)') \/ At(q, "login", "save")
                                        => job'[q] = job[q]
  <2>1. CASE q = o
    BY <1>4, <1>5, <2>1 DEF Posted, At
  <2>2. CASE q # o
    BY <1>5, <2>2
  <2> QED BY <2>1, <2>2
<1>8. FlightsFit'
  BY <1>a, <1>1, <1>3, <1>7 DEF FlightsFit, Posted, At
<1>9. GrantFits'
  <2>1. InAnswer => InAnswer'
    BY <1>1, <1>3, <1>7 DEF InAnswer, Posted, At
  <2>2. AtHand => AtHand'
    BY <1>1, <1>3, <1>7 DEF AtHand, At
  <2>3. (InRow => InRow') /\ (InFlight => InFlight')
    BY <1>1, <1>3 DEF InRow, InFlight
  <2> QED BY <1>a, <1>1, <1>3, <2>1, <2>2, <2>3 DEF GrantFits
<1> QED BY <1>6, <1>8, <1>9

(* A first login is granted pair 0, and add-account has it to save. *)
LEMMA ApprovedKeepsFit ==
  ASSUME CommandInv, Careful, Careful', NEW o \in Operators, Approved(o)
  PROVE  FlightsFit' /\ JobsFit' /\ GrantFits'
<1>a. /\ CommandTyped /\ JobsTyped /\ SignedInFirst
      /\ FlightsFit /\ GrantFits /\ JobsFit /\ lapses' = {}
  BY DEF CommandInv, AccountFits, CommandTyped, Careful
<1>1. ~signedIn
  BY <1>a DEF Approved, Lapse
<1>2. row = NoBundle /\ Tokens = NoBundle /\ grant = 0
  BY <1>a, <1>1 DEF SignedInFirst, Tokens, CellValue, GrantFits
<1>3. UNCHANGED <<row, phase, fresh, grant, filed>>
  BY <1>1 DEF Approved, Granted, vars
<1>4. Tokens' = Tokens /\ Refreshing' = Refreshing
  BY <1>3 DEF Tokens, CellValue, Refreshing
<1>5. job[o].cmd = "login" /\ job[o].at = "wait"
  BY DEF Approved, Polls, At
<1>6. /\ job'[o].cmd = "login" /\ job'[o].at = "save" /\ job'[o].pair = 0
      /\ \A q \in Operators \ {o} : job'[q] = job[q]
  BY <1>a, <1>2, <1>3, <1>5 DEF Approved, JobsTyped, Jobs
<1>7. JobsFit'
  <2>1. ASSUME NEW q \in Operators PROVE JobFits(job[q])'
    <3>1. CASE q = o
      BY <1>6, <3>1 DEF JobFits
    <3>2. CASE q # o
      <4>1. JobFits(job[q]) /\ job'[q] = job[q]
        BY <1>a, <1>6, <3>2 DEF JobsFit
      <4> QED BY <1>3, <1>4, <4>1 DEF JobFits
    <3> QED BY <3>1, <3>2
  <2> QED BY <2>1 DEF JobsFit
<1>8. FlightsFit'
  <2>1. ASSUME NEW q \in Operators, Posted(q)' PROVE Posted(q)
    BY <1>6, <2>1 DEF Posted, At
  <2> QED BY <1>a, <1>3, <1>4, <2>1 DEF FlightsFit
<1>9. GrantFits'
  BY <1>2, <1>3, <1>4, <1>6 DEF GrantFits, AtHand, At
<1> QED BY <1>7, <1>8, <1>9

(* debug-refresh presents the row's tokens, and nobody refreshes meanwhile. *)
LEMMA PostKeepsFit ==
  ASSUME CommandInv, Careful, Careful', NEW o \in Operators, PostRefresh(o)
  PROVE  FlightsFit' /\ JobsFit' /\ GrantFits'
<1>a. /\ CommandTyped /\ JobsTyped /\ SignedInFirst
      /\ FlightsFit /\ GrantFits /\ JobsFit /\ lapses' = {} /\ TypeOK /\ FlowTypeOK
  BY DEF CommandInv, AccountFits, CommandTyped, Careful
<1>1. Refreshing = {} /\ UNCHANGED <<row, phase, fresh, filed, signedIn>>
  BY <1>a DEF PostRefresh, vars
<1>2. Tokens' = Tokens /\ Refreshing' = {}
  BY <1>1 DEF Tokens, CellValue, Refreshing
<1>3. /\ job[o].cmd = "debug-refresh" /\ job[o].at = "post" /\ job[o].read = grant
      /\ grant' \in {grant, grant + 1} \cap TokenPairs
  BY DEF PostRefresh, At
<1>4. /\ Tokens # NoBundle /\ job[o].read # NoBundle /\ job[o].read <= Tokens
      /\ Tokens <= grant
  BY <1>a, <1>3 DEF JobsFit, JobFits, GrantFits
<1>5. Tokens \in Nat /\ grant \in Nat /\ grant' \in Nat
  BY <1>a, <1>3, <1>4, TokensType, FlowAssumption DEF FlowTypeOK
<1>6. Tokens = grant /\ Tokens <= grant'
  BY <1>3, <1>4, <1>5
<1>7. \A s \in Sessions : phase'[s] # "commit"
  BY <1>1 DEF Refreshing
<1>8. FlightsFit'
  BY <1>2, <1>7 DEF FlightsFit
<1>9. ASSUME NEW q \in Operators, job'[q] = job[q] PROVE JobFits(job[q])'
  <2>1. JobFits(job[q])
    BY <1>a DEF JobsFit
  <2>2. /\ job[q].cmd = "debug-refresh" /\ job[q].at = "save" /\ job[q].read = Tokens =>
             job[q].pair = job[q].read
    BY <1>6, <2>1 DEF JobFits
  <2> QED BY <1>2, <1>9, <2>1, <2>2 DEF JobFits
<1>10. CASE job[o].told
  <2>1. /\ job'[o].cmd = "debug-refresh" /\ job'[o].at = "save"
        /\ job'[o].pair = grant' /\ job'[o].read = job[o].read
        /\ \A q \in Operators \ {o} : job'[q] = job[q]
    BY <1>a, <1>3, <1>10 DEF PostRefresh, JobsTyped, Jobs
  <2>2. JobFits(job[o])'
    BY <1>2, <1>4, <2>1 DEF JobFits
  <2>3. JobsFit'
    <3>1. ASSUME NEW q \in Operators PROVE JobFits(job[q])'
      <4>1. CASE q = o
        BY <2>2, <4>1
      <4>2. CASE q # o
        BY <1>9, <2>1, <4>2
      <4> QED BY <4>1, <4>2
    <3> QED BY <3>1 DEF JobsFit
  <2>4. InAnswer'
    BY <1>2, <1>3, <1>6, <2>1 DEF InAnswer, Posted, At
  <2>5. GrantFits'
    BY <1>2, <1>4, <1>6, <2>4 DEF GrantFits
  <2> QED BY <1>8, <2>3, <2>5
<1>11. CASE ~ job[o].told
  <2>1. Exit(o) /\ grant' = grant
    BY <1>a, <1>11 DEF PostRefresh
  <2>2. job'[o] = Idle /\ \A q \in Operators \ {o} : job'[q] = job[q]
    BY <1>a, <2>1, JobsChange DEF Exit
  <2>3. JobsFit'
    <3>1. ASSUME NEW q \in Operators PROVE JobFits(job[q])'
      <4>1. CASE q = o
        BY <2>2, <4>1 DEF JobFits, Idle
      <4>2. CASE q # o
        BY <1>9, <2>2, <4>2
      <4> QED BY <4>1, <4>2
    <3> QED BY <3>1 DEF JobsFit
  <2>4. GrantFits'
    BY <1>2, <1>4, <1>6, <2>1 DEF GrantFits, InRow
  <2> QED BY <1>8, <2>3, <2>4
<1> QED BY <1>10, <1>11

(* What a command saves is the account's first pair where there is none,   *)
(* the pair that is there, or the one that upstream has just granted.      *)
LEMMA SavesNothingOld ==
  ASSUME CommandInv, Careful, Careful', NEW o \in Operators, SaveBundle(o)
  PROVE  /\ Refreshing = {}
         /\ \/ Tokens = NoBundle /\ job[o].pair = 0
            \/ Tokens # NoBundle /\ job[o].pair \in {Tokens, grant}
<1>a. /\ CommandTyped /\ JobsTyped /\ SignedInFirst /\ JobsFit /\ lapses' = {}
  BY DEF CommandInv, AccountFits, CommandTyped, Careful
<1>b. /\ job[o].at = "save" /\ job[o] \in Jobs
      /\ JobFits(job[o]) /\ JobSigned(job[o])
  BY <1>a DEF SaveBundle, JobsFit, SignedInFirst, JobsTyped
<1>1. /\ Refreshing = {}
      /\ job[o].cmd = "debug-refresh" \/ Compares(o) => Tokens = job[o].read
      /\ job[o].cmd # "debug-refresh" /\ ~Compares(o) => Tokens \in {NoBundle, job[o].pair}
  BY <1>a DEF SaveBundle
<1>2. CASE job[o].cmd = "debug-refresh"
  BY <1>b, <1>1, <1>2 DEF JobFits
<1>3. CASE job[o].cmd = "login"
  BY <1>b, <1>1, <1>3 DEF JobFits, Compares
<1>4. CASE job[o].cmd \in FromFile
  <2>1. job[o].pair = 0 /\ job[o].cmd # "debug-refresh"
    BY <1>b, <1>4 DEF JobSigned, FromFile
  <2>2. CASE Compares(o)
    BY <1>b, <1>1, <2>1, <2>2 DEF Compares, JobFits
  <2>3. CASE ~ Compares(o)
    BY <1>1, <2>1, <2>3
  <2> QED BY <1>1, <2>2, <2>3
<1>5. job[o].cmd \in FromFile \cup {"login", "debug-refresh"}
  BY <1>b DEF Jobs, Cmds, FromFile, JobSigned
<1> QED BY <1>2, <1>3, <1>4, <1>5

LEMMA SaveKeepsFit ==
  ASSUME CommandInv, Careful, Careful', NEW o \in Operators, SaveBundle(o)
  PROVE  FlightsFit' /\ JobsFit' /\ GrantFits'
<1>a. /\ CommandTyped /\ JobsTyped /\ SignedInFirst
      /\ FlightsFit /\ GrantFits /\ JobsFit /\ TypeOK /\ FlowTypeOK
  BY DEF CommandInv, AccountFits, CommandTyped, Careful
<1> DEFINE p == job[o].pair
<1>1. /\ Refreshing = {}
      /\ \/ Tokens = NoBundle /\ p = 0
         \/ Tokens # NoBundle /\ p \in {Tokens, grant}
  BY SavesNothingOld
<1>2. UNCHANGED <<phase, fresh, grant, filed, signedIn>> /\ Refreshing' = {}
  BY <1>1 DEF SaveBundle, flowVars, Refreshing
<1>3. p \in TokenPairs /\ job'[o] = Idle /\ \A q \in Operators \ {o} : job'[q] = job[q]
  BY <1>a, JobsChange DEF SaveBundle, Exit, JobsTyped, Jobs
<1>4. Tokens' = p /\ Tokens' # NoBundle
  <2>1. Source(o) \in Metadata
    BY PatchesType DEF Source
  <2>2. row' = Saved(row, p, Source(o))
    BY DEF SaveBundle, Save
  <2>3. row' \in Bundles
    BY <1>a, <1>3, <2>1, <2>2, WriteRow DEF TypeOK
  <2>4. row'.tokens = p
    BY <2>2 DEF Saved
  <2> QED BY <1>3, <2>3, <2>4, NoBundleAssumption, VaultAssumption DEF Tokens, CellValue
<1> HIDE DEF p
<1>5. /\ grant \in Nat /\ p \in Nat
      /\ Tokens # NoBundle => Tokens \in Nat /\ Tokens <= grant
      /\ Tokens = NoBundle => grant = 0
  BY <1>a, <1>3, TokensType, FlowAssumption DEF FlowTypeOK, GrantFits
<1>6. p <= grant /\ (Tokens # NoBundle => Tokens <= p)
  <2>1. CASE Tokens = NoBundle
    BY <1>1, <1>5, <2>1
  <2>2. CASE Tokens # NoBundle /\ p = Tokens
    BY <1>5, <2>2
  <2>3. CASE Tokens # NoBundle /\ p = grant
    BY <1>5, <2>3
  <2> QED BY <1>1, <2>1, <2>2, <2>3
<1>7. \A s \in Sessions : phase[s] # "commit"
  BY <1>1 DEF Refreshing
<1>8. FlightsFit'
  BY <1>2, <1>7 DEF FlightsFit
<1>9. JobsFit'
  <2>1. ASSUME NEW q \in Operators, q # o PROVE JobFits(job[q])'
    <3>1. JobFits(job[q]) /\ job'[q] = job[q]
      BY <1>a, <1>3, <2>1 DEF JobsFit
    <3>2. job[q].read \in Nat \cup {NoBundle}
      BY <1>a, FlowAssumption DEF JobsTyped, Jobs
    <3>3. ASSUME job[q].cmd = "debug-refresh", job[q].at \in {"post", "save"}
          PROVE  /\ job[q].read # NoBundle /\ job[q].read <= p
                 /\ job[q].read = p => job[q].read = Tokens
      <4>1. Tokens # NoBundle /\ job[q].read # NoBundle /\ job[q].read <= Tokens
        BY <3>1, <3>3 DEF JobFits
      <4>2. job[q].read \in Nat /\ Tokens \in Nat /\ p \in Nat /\ Tokens <= p
        <5>1. Tokens \in Nat /\ p \in Nat /\ Tokens <= p
          BY <1>5, <1>6, <4>1
        <5> QED BY <3>2, <4>1, <5>1
      <4>3. job[q].read <= p /\ (job[q].read = p => job[q].read = Tokens)
        BY <4>1, <4>2
      <4> QED BY <4>1, <4>3
    <3>4. ASSUME job[q].cmd = "debug-refresh", job[q].at = "save", job[q].read = p
          PROVE  job[q].pair \in {job[q].read, grant}
      BY <3>1, <3>3, <3>4 DEF JobFits
    <3> QED BY <1>2, <1>4, <3>1, <3>3, <3>4 DEF JobFits
  <2>2. JobFits(job[o])'
    BY <1>3 DEF JobFits, Idle
  <2> QED BY <2>1, <2>2 DEF JobsFit
<1>10. GrantFits'
  <2>1. CASE p = grant
    BY <1>2, <1>4, <1>6, <2>1 DEF GrantFits, InRow
  <2>2. CASE p # grant
    <3>1. Tokens # NoBundle /\ p = Tokens
      BY <1>1, <1>5, <2>2
    <3>2. signedIn => InAnswer
      BY <1>a, <1>7, <2>2, <3>1 DEF GrantFits, InRow, AtHand, InFlight
    <3>3. InAnswer => InAnswer'
      <4>1. ASSUME NEW q \in Operators, Posted(q), job[q].read = Tokens, job[q].pair = grant
            PROVE  InAnswer'
        <5>1. q # o
          BY <2>2, <4>1 DEF p
        <5> QED BY <1>2, <1>3, <1>4, <3>1, <4>1, <5>1 DEF InAnswer, Posted, At
      <4> QED BY <4>1 DEF InAnswer
    <3> QED BY <1>2, <1>4, <1>6, <3>2, <3>3 DEF GrantFits
  <2> QED BY <2>1, <2>2
<1> QED BY <1>8, <1>9, <1>10

LEMMA CommandKeepsFit ==
  ASSUME VaultInv, CommandInv, Careful, Careful', NEW o \in Operators, CommandStep(o)
  PROVE  AccountFits'
<1>a. /\ CommandTyped /\ SignedInFirst /\ JobsTyped
      /\ FlightsCurrent /\ ~struck /\ lapses' = {}
  BY DEF CommandInv, AccountFits, CommandTyped, Careful
<1>1. ~ (RunRemoveAccount(o) \/ PostLost(o) \/ ApprovedUnheard(o))
  BY <1>a DEF RunRemoveAccount, PostLost, ApprovedUnheard, Lapse
<1>2. FlightsFit' /\ JobsFit' /\ GrantFits'
  BY <1>a, <1>1, CommandShape, TurningKeepsFit, ApprovedKeepsFit, PostKeepsFit, SaveKeepsFit
<1>3. UNCHANGED <<phase, struck>>
  BY JobStep, <1>a DEF CommandTyped
<1>4. FlightsCurrent'
  <2>1. UNCHANGED vars \/ (SaveBundle(o) /\ SaveSome)
    BY <1>a, <1>1, CommandVaultStep
  <2>2. CASE UNCHANGED vars
    BY <1>3, <1>a, <2>2 DEF vars, FlightsCurrent, Refreshing, HoldsVersion, CurrentEra,
       Smooth, Careful
  <2>3. CASE SaveBundle(o) /\ SaveSome
    <3>1. UNCHANGED <<held, era>> /\ Refreshing = {}
      BY <2>3, SavesNothingOld DEF SaveSome, Save
    <3> QED BY <1>3, <1>a, <3>1 DEF FlightsCurrent, Refreshing
  <2> QED BY <2>1, <2>2, <2>3
<1> QED BY <1>a, <1>2, <1>3, <1>4 DEF AccountFits

-----------------------------------------------------------------------------
(* The theorem *)

LEMMA CommandInvInit == CommandInit => CommandInv
<1> SUFFICES ASSUME CommandInit PROVE CommandInv
  OBVIOUS
<1>1. CommandTyped
  BY JobsTypeInit, FlowTypeInit, TypeInit DEF CommandInit, FlowInit, CommandTyped
<1>3. /\ row = NoBundle /\ Tokens = NoBundle /\ grant = 0 /\ signedIn = filed
      /\ \A o \in Operators : job[o] = Idle
  BY DEF CommandInit, FlowInit, Init, Tokens, CellValue
<1>4. SignedInFirst
  BY <1>3 DEF SignedInFirst, JobSigned, Idle, FromFile
<1>5. JobsFit /\ GrantFits
  BY <1>3 DEF JobsFit, JobFits, Idle, GrantFits, AtHand
<1>6. FlightsFit /\ FlightsCurrent /\ ~struck
  BY <1>3 DEF CommandInit, FlowInit, Init, FlightsFit, FlightsCurrent, Refreshing, Posted,
     At, Idle
<1> QED BY <1>1, <1>4, <1>5, <1>6 DEF CommandInv, AccountFits

LEMMA CommandInvStep == VaultInv /\ CommandInv /\ [CommandNext]_allOf => CommandInv'
<1> SUFFICES ASSUME VaultInv, CommandInv, [CommandNext]_allOf PROVE CommandInv'
  OBVIOUS
<1>1. CommandTyped' /\ SignedInFirst'
  BY CommandTypeStep, SignedStep DEF CommandInv
<1>3. Careful' => AccountFits'
  <2>1. SUFFICES ASSUME Careful' PROVE AccountFits'
    OBVIOUS
  <2>2. Careful
    BY <2>1, CarefulBefore DEF CommandInv
  <2>3. CASE UNCHANGED allOf
    BY <2>2, <2>3
    DEF allOf, allVars, vars, flowVars, commandVars, CommandInv, AccountFits, FlightsFit,
        FlightsCurrent, JobsFit, JobFits, GrantFits, InRow, AtHand, InFlight, InAnswer,
        Posted, At, Tokens, CellValue, Refreshing, HoldsVersion, CurrentEra, Smooth
  <2> QED BY <2>1, <2>2, <2>3, ServerKeepsFit, CommandKeepsFit DEF CommandNext
<1> QED BY <1>1, <1>3 DEF CommandInv

(* A command alone never costs the account its live refresh token, nor     *)
(* leaves the server one that upstream refuses: it takes a mishap of the   *)
(* server's or one of the operators' named lapses.                         *)
THEOREM AccountIsUnharmed == CommandSpec => []AccountUnharmed
<1>1. CommandInv => AccountUnharmed
  <2>1. SUFFICES ASSUME CommandInv, Careful, signedIn
                 PROVE  \/ grant = Tokens
                        \/ Tokens = NoBundle /\ filed /\ grant = 0
                        \/ \E s \in Sessions : phase[s] = "commit" /\ fresh[s] = grant
                        \/ \E o \in Operators : job[o].at = "save" /\ job[o].pair = grant
    BY DEF AccountUnharmed, CommandInv, AccountFits
  <2>2. /\ GrantFits /\ FlightsFit /\ JobsFit
    BY <2>1 DEF CommandInv, AccountFits
  <2>3. CASE AtHand
    <3>1. Tokens = NoBundle /\ grant = 0
      BY <2>2, <2>3 DEF AtHand, GrantFits
    <3>2. ASSUME NEW o \in Operators, At(o, "login", "save")
          PROVE  job[o].at = "save" /\ job[o].pair = grant
      BY <2>2, <3>1, <3>2 DEF At, JobsFit, JobFits
    <3> QED BY <2>3, <3>1, <3>2 DEF AtHand
  <2>4. CASE InRow \/ InFlight \/ InAnswer
    BY <2>2, <2>4 DEF InRow, InFlight, InAnswer, FlightsFit, Posted, At
  <2> QED BY <2>1, <2>2, <2>3, <2>4 DEF GrantFits
<1>2. CommandSpec => []VaultInv
  BY CommandsImplementVault, VersionsHold, LockIsExclusive, PTL DEF VaultInv
<1>3. CommandSpec => []CommandInv
  BY <1>2, CommandInvInit, CommandInvStep, PTL DEF CommandSpec, allOf
<1> QED BY <1>1, <1>3, PTL

=============================================================================
