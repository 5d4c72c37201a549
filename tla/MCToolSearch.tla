---------------------------- MODULE MCToolSearch ----------------------------
(* ToolSearch for TLC. *)
EXTENDS ToolSearch
MCShortNames == [convert |-> "conv"]
MCActiveTools == <<"read">>
MCDeferredTools == {"convert", "grep"}
Query(select, names, max, valid) ==
    [select |-> select, names |-> names, maxResults |-> max, valid |-> valid]
Output(count, what, refs, text) == [count |-> count, what |-> what, refs |-> refs, text |-> text]
MCOutputs == {Output(1, "image", <<"grep">>, FALSE), Output(2, "out", <<>>, TRUE)}
MCQueries == {Query(TRUE, <<"convert", "convert">>, 5, TRUE),
              Query(FALSE, <<"grep", "convert">>, 1, TRUE),
              Query(FALSE, <<>>, 0, FALSE)}
=============================================================================
