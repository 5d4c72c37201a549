------------------------------- MODULE MCPool -------------------------------
(* Small instances of Pool for TLC. *)
EXTENDS Pool, TLC

CONSTANTS a1, a2,  \* accounts
          r1, r2,  \* requests
          s1       \* sessions

(* r1 belongs to a session, r2 does not send the header. *)
MCSessionOf == [r \in Requests |-> IF r = r1 THEN s1 ELSE None]

AccountsAlike == Permutations(Accounts)
=============================================================================
