---------------------------- MODULE MCRefreshFlow ----------------------------
(* Small instances of RefreshFlow for TLC. *)
EXTENDS RefreshFlow, TLC

CONSTANTS p1, p2,   \* processes
          w1,       \* a writer
          c1, c2,   \* callers
          id1, time \* metadata values

MCIdOf == [w \in Writers |-> id1]

MCTokenPairs == 0 .. MaxGrant
=============================================================================
