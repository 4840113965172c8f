---------------------------- MODULE MCGateBridge ----------------------------
(***************************************************************************)
(* A small instance of GateBridge for TLC: three stations of which two can *)
(* be associated, and one mesh host.                                       *)
(***************************************************************************)
EXTENDS GateBridge

CONSTANTS a, b, c, m, gate, ipA, ipM

claimA == [ip |-> ipA, mac |-> a, side |-> "AP"]
claimM == [ip |-> ipM, mac |-> m, side |-> "MESH"]
Claims == {claimA, claimM}

frame(cb, dst, claim, want, fits) ==
  [cb |-> cb, dst |-> dst, claim |-> claim, want |-> want, fits |-> fits]

(* From the mesh: a proxied unicast to each station, one too long for the  *)
(* scratch buffer, a unicast to the gate, a broadcast, an ARP request for  *)
(* a's address.  From a: a unicast to the mesh, one to the gate, an        *)
(* oversized one, a broadcast, an ARP request for the mesh host.           *)
Frames ==
  {frame("ae", s, claimM, NoIp, TRUE) : s \in ClientMac} \cup
  { frame("ae", a, NoClaim, NoIp, FALSE),
    frame("mesh", gate, claimM, NoIp, TRUE),
    frame("mesh", GROUP, NoClaim, NoIp, FALSE),
    frame("mesh", GROUP, claimM, NoIp, TRUE),
    frame("mesh", GROUP, claimM, ipA, TRUE),
    frame("ap", m, claimA, NoIp, TRUE),
    frame("ap", m, claimA, NoIp, FALSE),
    frame("ap", gate, claimA, NoIp, TRUE),
    frame("ap", GROUP, claimA, NoIp, TRUE),
    frame("ap", GROUP, claimA, ipM, TRUE) }

=============================================================================
