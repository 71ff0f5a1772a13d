------------------------------ MODULE MCService ------------------------------
(***************************************************************************)
(* Service with two connections, over the configurations and requests of   *)
(* MCHotReload.                                                            *)
(***************************************************************************)
EXTENDS Service, MCHotReload, TLC

MCServiceRequest == {Relay, [Relay EXCEPT !.complete = FALSE]}

Connections == Permutations(Worker)
=============================================================================
