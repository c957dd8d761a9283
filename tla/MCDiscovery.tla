----------------------------- MODULE MCDiscovery -----------------------------
(* Two runs of the server.  Two fallback ports stand for the five of the   *)
(* code: the app knows the first of them and the port below, which are     *)
(* also those that stop-server.js frees.  At first nothing holds them, or  *)
(* a silent program holds the default one and one that answers the other.  *)
EXTENDS Discovery, TLC

CONSTANTS s1, s2, a

Unheld == [p \in Ports |-> None]

MCForeign == {Unheld, [Unheld EXCEPT ![Base] = "mute", ![Base - 1] = "healthy"]}

MCApiPorts == 3000..3001
=============================================================================
