------------------------------ MODULE MCServer ------------------------------
(* Server for TLC. *)
EXTENDS Server

CONSTANTS a1,      \* an account
          r1, r2,  \* handlers
          p1,      \* the poller
          s1       \* a session

MCSessionOf == [r \in Requests |-> IF r = r1 THEN s1 ELSE None]
=============================================================================
