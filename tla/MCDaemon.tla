------------------------------ MODULE MCDaemon ------------------------------
(***************************************************************************)
(* Daemon with a TCP and a Unix listener.                                  *)
(***************************************************************************)
EXTENDS Daemon

CONSTANTS tcp, unix

MCListen == <<tcp, unix>>
=============================================================================
