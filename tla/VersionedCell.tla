---------------------------- MODULE VersionedCell ----------------------------
(***************************************************************************)
(* What the token vault promises its clients while no account is removed:  *)
(* a cell with a version.  A client reads it, and may later write it only  *)
(* if the cell still is what it read; an operator may overwrite it at any  *)
(* time.  There are no locks here: they are a courtesy that saves upstream *)
(* calls, and safety does not rest on them.                                *)
(***************************************************************************)
EXTENDS Naturals

CONSTANTS Values, Clients, Empty, Nothing

VARIABLES
  version,  \* 0 until the first write
  value,    \* Empty until the first write
  base      \* base[c]: the version and value client c read, or Nothing

cellVars == <<version, value, base>>

Init ==
  /\ version = 0
  /\ value = Empty
  /\ base = [c \in Clients |-> Nothing]

Read(c) ==
  /\ base[c] = Nothing /\ value # Empty
  /\ base' = [base EXCEPT ![c] = [version |-> version, value |-> value]]
  /\ UNCHANGED <<version, value>>

Forget(c) ==
  /\ base' = [base EXCEPT ![c] = Nothing]
  /\ UNCHANGED <<version, value>>

Install(v) == version' = version + 1 /\ value' = v

CompareAndSwap(c, v) ==
  /\ base[c] = [version |-> version, value |-> value]
  /\ Install(v)
  /\ base' = [base EXCEPT ![c] = Nothing]

(* The operator may be one of the readers, and is then done with its read. *)
Overwrite(v) ==
  /\ Install(v)
  /\ \/ UNCHANGED base
     \/ \E c \in Clients : base' = [base EXCEPT ![c] = Nothing]

Next ==
  \/ \E c \in Clients : Read(c) \/ Forget(c)
  \/ \E c \in Clients, v \in Values : CompareAndSwap(c, v)
  \/ \E v \in Values : Overwrite(v)

CellSpec == Init /\ [][Next]_cellVars
=============================================================================
