-------------------------------- MODULE MCAgent --------------------------------
(***************************************************************************)
(* Histories of Agent: many requests of all routes after one --pair, and   *)
(* requests of one route while a second --pair, perhaps --reset, runs.     *)
(***************************************************************************)
EXTENDS Agent

Requests == [routes |-> {"doctor", "refresh", "trial"}, tokens |-> 1, worlds |-> 2, again |-> FALSE]
Pairings == [routes |-> {"other"}, tokens |-> 2, worlds |-> 1, again |-> TRUE]
MCBounds == {Requests, Pairings}
=============================================================================
