----------------------------- MODULE MCDataPlane -----------------------------
(***************************************************************************)
(* A small instance of DataPlane.                                          *)
(***************************************************************************)
EXTENDS DataPlane, TLC

MCBackends == {[filters |-> TRUE, counts |-> TRUE, whole |-> FALSE],
               [filters |-> FALSE, counts |-> FALSE, whole |-> FALSE]}

MCTables == {<<"match", "match", "absent">>, <<"match", "other", "match">>,
             <<"match", "absent", "other">>}

Asks(kind, approved) ==
  [kind |-> kind, fields |-> All, grant |-> {}, approved |-> approved]

MCRequests == {Asks("the", FALSE), Asks("all", FALSE), Asks("change", FALSE),
               Asks("export", TRUE), Asks("export", FALSE),
               [Asks("all", FALSE) EXCEPT !.fields = {"salary"}, !.grant = All]}
=============================================================================
