----------------------------- MODULE MCResponse -----------------------------
(* Response for TLC: two tags of two units over one letter, and six kinds   *)
(* of requests.                                                             *)
EXTENDS Response

MCOpenTag == <<"<", "o">>
MCCloseTag == <<"<", "c">>
MCUnits == {"x", "<", "o", "c"}
MCPieces == UNION {[1 .. n -> MCUnits] : n \in 0 .. 3}
MCThoughts == {<<"r">>}

MCStops == {<<>>, << <<"x", "x">> >>, << <<"o", "o">>, <<"x">> >>}
MCRequests == [stops : MCStops, budget : {0, 2}]

=============================================================================
