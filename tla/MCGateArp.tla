------------------------------ MODULE MCGateArp ------------------------------
(***************************************************************************)
(* Small instances of GateArp for TLC.                                     *)
(***************************************************************************)
EXTENDS GateArp

CONSTANTS a, b, m, g, ip1, ip2, ip3

claim(ip, mac, side) == [ip |-> ip, mac |-> mac, side |-> side]

\* An AP client and two mesh hosts: three addresses.
ThreeHosts == {claim(ip1, a, "AP"), claim(ip2, b, "MESH"), claim(ip3, m, "MESH")}

\* The same; the client may leave and reappear as a mesh host, and a frame that names a group
\* address as its sender comes in from the mesh.
RoamerAndHosts == ThreeHosts \cup {claim(ip1, a, "MESH"), claim(ip3, g, "MESH")}

\* One AP client and one mesh host.
TwoHosts == {claim(ip1, a, "AP"), claim(ip2, m, "MESH")}

(* Nothing in the model depends on where the clock stands, only on how far *)
(* its readings lie behind it, so states that differ by a shift of the     *)
(* clock are explored once.                                                *)
Behind(reading) == (clock - reading) % ClockMod

ClockFree ==
  << clientVars, lock, notified, historyVars,
     [s \in Slot |-> <<arp[s].used, arp[s].claim,
                       IF arp[s].used THEN Behind(arp[s].last) ELSE 0>>],
     [t \in RxTask |-> <<[rx[t] EXCEPT !.now = 0],
                         IF rx[t].pc = "idle" THEN 0 ELSE Behind(rx[t].now)>>],
     <<[ann EXCEPT !.now = 0],
       IF ann.pc = "wait" THEN 0 ELSE Behind(ann.now)>> >>

=============================================================================
