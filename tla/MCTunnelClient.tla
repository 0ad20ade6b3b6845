--------------------------- MODULE MCTunnelClient ---------------------------
(***************************************************************************)
(* TunnelClient for TLC: the bounds are in the configurations.             *)
(***************************************************************************)
EXTENDS TunnelClient
=============================================================================
