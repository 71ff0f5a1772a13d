---------------------------- MODULE MCConnection ----------------------------
(***************************************************************************)
(* Connection with bytes of the three kinds the codec tells apart.         *)
(***************************************************************************)
EXTENDS Connection
=============================================================================
