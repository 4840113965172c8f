---------------------------- MODULE MCGateBringUp ----------------------------
(***************************************************************************)
(* A small instance of GateBringUp for TLC: two stations, both admitted,   *)
(* and three polls of the netif, enough for each way the wait can end.     *)
(***************************************************************************)
EXTENDS GateBringUp

CONSTANTS a, b

=============================================================================
