---------------------------- MODULE MCTokenVault ----------------------------
(* Small instances of TokenVault for TLC. *)
EXTENDS TokenVault, TLC

CONSTANTS a, c,     \* token pairs; c has no refresh token
          s1, s2,   \* sessions
          w1, w2,   \* writers, each with the id it would generate
          id1, id2, time \* metadata values

MCIdOf == [w \in Writers |-> IF w = w1 THEN id1 ELSE id2]
=============================================================================
