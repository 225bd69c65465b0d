--------------------------- MODULE GatewayClients ---------------------------
(***************************************************************************)
(* What the managers of the gateways (warp-gateway-common) have in common: *)
(* the threads that call them, for clients and on files.                   *)
(***************************************************************************)
EXTENDS Integers, FiniteSets

CONSTANTS
  Threads,    \* threads of a gateway that call a manager
  Clients,
  Files,
  NoClient    \* no client

ASSUME GatewayConstants == NoClient \notin Clients
=============================================================================
