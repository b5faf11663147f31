--------------------------- MODULE MCEventReport ---------------------------
(* Values of the constants of EventReport for TLC. *)
EXTENDS EventReport

TheProgress == <<"StartingServices">>
TheHistories == {<<"edge", "stopped">>, <<"stopped", "edge">>, <<"noStore", "byo">>}
TheLimit == [m \in Mishaps |-> 1]
=============================================================================
