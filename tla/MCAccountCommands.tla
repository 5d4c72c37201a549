-------------------------- MODULE MCAccountCommands --------------------------
(* Small instances of AccountCommands for TLC: one server, two operators.   *)
EXTENDS AccountCommands, TLC

CONSTANTS p1,     \* the server
          c1,     \* a caller
          o1, o2, \* operators
          time    \* a metadata value

MCIdOf == [w \in Writers |-> time]
Symmetry == Permutations(Operators)
MCTokenPairs == 0 .. MaxGrant

=============================================================================
