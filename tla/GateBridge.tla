------------------------------ MODULE GateBridge ------------------------------
(***************************************************************************)
(* The forwarding plane of the mesh gate: the three receive callbacks of   *)
(* firmware/rimba-halow-mesh-ap/main/app_main.c, composed with the client  *)
(* table (module GateClients) that the AP status task changes under them   *)
(* and with the proxy-ARP table, here the atomic cache of module ArpCache  *)
(* that module GateArp implements.                                         *)
(*                                                                         *)
(*   gate_ae_rx_cb  a unicast proxied through the mesh: the gate owns it   *)
(*                  when its final destination is one of its AP clients,   *)
(*                  and otherwise morselib delivers or relays it           *)
(*   gw_mesh_rx_cb  any other frame the mesh delivers to the gate          *)
(*   gw_ap_rx_cb    a frame from an AP client                              *)
(*                                                                         *)
(* morselib runs the callbacks one at a time.  A frame is given to ports:  *)
(* the AP vif, the mesh, the gate's own stack, or, for an ARP request it   *)
(* answers, the requester's link.  A frame given to a port may be lost     *)
(* there (no TX buffer, no pbuf, a full input queue), which none of the    *)
(* callbacks reacts to; only a proxied unicast the mesh has no route for   *)
(* takes another way.                                                      *)
(***************************************************************************)
EXTENDS GateClients, Integers

CONSTANTS
  Claim,       \* the IP->MAC claims: [ip, mac, side]
  NoClaim,     \* a frame the gate cannot learn from
  NoIp,        \* a frame that is not an ARP request
  GateMac,     \* g_ap_bssid and g_mesh_mac
  GROUP,       \* a broadcast or multicast destination
  Frame        \* the frames that can arrive

(* cb: the callback a frame is first given to.  claim: what the snoop      *)
(* learns from it.  want: the IP an ARP request asks for.  fits: it has an *)
(* Ethernet (or LLC/SNAP) header and fits the callback's scratch buffer.   *)
(* The gate's own addresses are unicast.                                   *)
ASSUME BridgeFrames ==
  /\ GROUP \notin GateMac
  /\ \A f \in Frame :
       /\ f = [cb |-> f.cb, dst |-> f.dst, claim |-> f.claim, want |-> f.want,
               fits |-> f.fits]
       /\ f.cb \in {"ae", "mesh", "ap"}
       /\ f.claim \in Claim \cup {NoClaim}
       /\ f.fits \in BOOLEAN
       /\ f.cb = "ae" => f.dst # GROUP

VARIABLES
  known,    \* the proxy-ARP table, as the set of claims it holds
  rx,       \* the callback running, or the last one: its place, frame, output
  held,     \* rx mmpkts the gate has been handed and not released
  steady,   \* history: clients settled ever since the frame came
  seen      \* history: clients listed at some time since the frame came

bridgeVars == <<known, rx, held>>
vars == <<clientVars, bridgeVars, steady, seen>>

\* The callback that asks the cache is here, and the rounds are the announce task's.
Cache == INSTANCE ArpCache
           WITH Caller <- {}, Question <- {}, told <- <<>>, taught <- {}

\* The ports of a frame that has been handled: out lists them in order.
NoFrame == [cb |-> "mesh", dst |-> NoMac, claim |-> NoClaim, want |-> NoIp,
            fits |-> FALSE]
RxNone == [pc |-> "idle", frame |-> NoFrame, out |-> <<>>]

Side == IF rx.frame.cb = "ap" THEN "AP" ELSE "MESH"

Learn(c) == \/ c = NoClaim /\ UNCHANGED known
            \/ c # NoClaim /\ (Cache!Refresh(c) \/ Cache!Insert(c))

To(pc) == rx' = [rx EXCEPT !.pc = pc]

Give(port, pc) == rx' = [rx EXCEPT !.pc = pc, !.out = Append(@, port)]

RxOnly == UNCHANGED <<clientVars, known, steady, seen>>

-----------------------------------------------------------------------------
(* A frame arrives.  The mmpkt is handed over to the two ext callbacks;    *)
(* the AE hook only borrows the payload.                                   *)
Receive(f) ==
  /\ rx.pc = "idle"
  /\ rx' = [pc |-> IF f.cb = "ae" THEN "ae" ELSE "snoop",
            frame |-> f, out |-> <<>>]
  /\ held' = IF f.cb = "ae" THEN held ELSE held + 1
  /\ steady' = Settled
  /\ seen' = Listed
  /\ UNCHANGED <<clientVars, known>>

(* gate_ae_rx_cb: not one of our AP clients: back to morselib, which       *)
(* relays the frame or delivers it to gw_mesh_rx_cb.                       *)
\* Slip: the address not looked up.
AeOwnsAll == rx.pc = "ae" /\ To("aeSend") /\ RxOnly /\ UNCHANGED held

AeMember ==
  /\ rx.pc = "ae"
  /\ IF IsApClient(rx.frame.dst)
       THEN To("aeSend") /\ UNCHANGED held
       ELSE \/ To("snoop") /\ held' = held + 1
            \/ To("idle") /\ UNCHANGED held
  /\ RxOnly

\* Slip: the frame not reported as consumed, so morselib delivers it as well.
AeSendUnowned ==
  /\ rx.pc = "aeSend"
  /\ IF rx.frame.fits
       THEN Learn(rx.frame.claim) /\ Give("ap", "snoop")
       ELSE UNCHANGED known /\ To("snoop")
  /\ held' = held + 1
  /\ UNCHANGED <<clientVars, steady, seen>>

AeSend ==
  /\ rx.pc = "aeSend"
  /\ IF rx.frame.fits
       THEN Learn(rx.frame.claim) /\ Give("ap", "idle")
       ELSE UNCHANGED known /\ To("idle")
  /\ UNCHANGED <<clientVars, held, steady, seen>>

-----------------------------------------------------------------------------
(* gw_mesh_rx_cb and gw_ap_rx_cb.  A frame from the mesh that does not fit *)
(* is only delivered locally; one from a client is still snooped.          *)
Snoop ==
  /\ rx.pc = "snoop"
  /\ IF Side = "MESH" /\ ~rx.frame.fits
       THEN UNCHANGED known /\ To("local")
       ELSE Learn(rx.frame.claim) /\ To("proxy")
  /\ UNCHANGED <<clientVars, held, steady, seen>>

(* gw_proxy_arp: a request for a host known on the other side is answered  *)
(* and consumed.                                                           *)
Answerable == Cache!Answers([ip |-> rx.frame.want, side |-> Side]) # {}

ProxyArp ==
  /\ rx.pc = "proxy"
  /\ IF rx.frame.want # NoIp /\ Answerable
       THEN Give("reply", "idle") /\ held' = held - 1
       ELSE To(IF Side = "MESH" THEN "meshBridge" ELSE "apBridge")
            /\ UNCHANGED held
  /\ RxOnly

\* B2: a group frame goes to the AP when there is a client (g_ap_client_n).
\* Slip: the count compared one too high.
MeshBridgeOffByOne ==
  /\ rx.pc = "meshBridge"
  /\ IF rx.frame.dst = GROUP /\ Len(clients) > 1
       THEN Give("ap", "local") ELSE To("local")
  /\ RxOnly /\ UNCHANGED held

MeshBridge ==
  /\ rx.pc = "meshBridge"
  /\ IF rx.frame.dst = GROUP /\ Len(clients) > 0
       THEN Give("ap", "local") ELSE To("local")
  /\ RxOnly /\ UNCHANGED held

(* S5 and S5c: a group frame goes to the mesh and on to the gate's stack;  *)
(* a unicast that is not for the gate goes to the mesh, and to the stack   *)
(* only when the mesh has no route for it.                                 *)
ForGate == rx.frame.dst \in GateMac

\* Slip: the proxied unicast not returned from.
ApBridgeFallsThrough ==
  /\ rx.pc = "apBridge"
  /\ \/ rx.frame.fits /\ ~ForGate /\ Give("mesh", "local") /\ held' = held - 1
     \/ To("local") /\ UNCHANGED held
  /\ RxOnly

ApBridge ==
  /\ rx.pc = "apBridge"
  /\ \/ /\ rx.frame.fits /\ rx.frame.dst = GROUP
        /\ Give("mesh", "local") /\ UNCHANGED held
     \/ /\ rx.frame.fits /\ rx.frame.dst # GROUP /\ ~ForGate
        /\ \/ Give("mesh", "idle") /\ held' = held - 1
           \/ To("local") /\ UNCHANGED held
     \/ /\ ~rx.frame.fits \/ ForGate
        /\ To("local") /\ UNCHANGED held
  /\ RxOnly

\* gw_rx_deliver copies the frame and releases the mmpkt, whatever becomes of it.
Deliver ==
  /\ rx.pc = "local"
  /\ Give("local", "idle")
  /\ held' = held - 1
  /\ RxOnly

-----------------------------------------------------------------------------
(* The AP status task, and what the other tasks do to the proxy-ARP table: *)
(* the announce task ages it, gw_arp_forget_mac drops a departed client.   *)
ClientStep ==
  /\ \/ \E m \in ClientMac : ReportAuthorized(m) \/ ReportUnknown(m)
     \/ StaStep \/ StaForgotten
  /\ steady' = steady \cap Settled'
  /\ seen' = seen \cup Listed'
  /\ UNCHANGED <<rx, held>>
  /\ IF sta.pc = "forget"
       THEN known' = {c \in known : c.mac # sta.mac}
       ELSE UNCHANGED known

AgeOut == Cache!Drop /\ UNCHANGED <<clientVars, rx, held, steady, seen>>

RxStep ==
  AeMember \/ AeSend \/ Snoop \/ ProxyArp \/ MeshBridge \/ ApBridge \/ Deliver

Init ==
  /\ ClientsInit /\ Cache!Init
  /\ rx = RxNone
  /\ held = 0
  /\ steady = {} /\ seen = {}

Next ==
  \/ \E f \in Frame : Receive(f)
  \/ RxStep
  \/ ClientStep
  \/ AgeOut

Spec == Init /\ [][Next]_vars

-----------------------------------------------------------------------------
BridgeTypeOK ==
  /\ ClientsTypeOK
  /\ known \subseteq Claim
  /\ rx.pc \in {"idle", "ae", "aeSend", "snoop", "proxy", "meshBridge",
                "apBridge", "local"}
  /\ rx.frame \in Frame \cup {NoFrame}
  /\ rx.out \in Seq({"ap", "mesh", "local", "reply"})
  /\ held \in Int
  /\ steady \subseteq ClientMac /\ seen \subseteq ClientMac

Handled == rx.pc = "idle" /\ rx.frame # NoFrame
Ports == {rx.out[i] : i \in DOMAIN rx.out}

(* "We own the mmpkt (the ext-cb handed it over); we copied it, so we free *)
(* it exactly once": every path through the callbacks releases a frame it  *)
(* was handed, and none releases it twice.                                 *)
FreedExactlyOnce ==
  held = IF rx.pc \in {"snoop", "proxy", "meshBridge", "apBridge", "local"}
         THEN 1 ELSE 0

(* "No loop" and "the S5 double-delivery fix": no port is given a frame    *)
(* twice, no frame goes back to the side it came from, a unicast goes to   *)
(* one port only, and an answered ARP request goes to none.                *)
DeliveredOnce ==
  /\ \A i, j \in DOMAIN rx.out : rx.out[i] = rx.out[j] => i = j
  /\ (IF Side = "AP" THEN "ap" ELSE "mesh") \notin Ports
  /\ rx.frame.dst # GROUP \/ "reply" \in Ports => Len(rx.out) <= 1

(* An associated client is never silently not bridged: a unicast proxied   *)
(* to a client that stayed associated while the frame was handled goes to  *)
(* the AP vif and is not leaked to the gate's own stack, wherever the      *)
(* status task was in rearranging the table for the other clients.         *)
ClientServed ==
  Handled /\ rx.frame.cb = "ae" /\ rx.frame.dst \in steady =>
    IF rx.frame.fits THEN rx.out = <<"ap">> ELSE rx.out = <<>>

(* The AP vif is given no unicast for a station that was at no moment of   *)
(* its handling one of the gate's clients.                                 *)
NoStrayUnicast ==
  Handled /\ "ap" \in Ports /\ rx.frame.dst # GROUP => rx.frame.dst \in seen

(* A broadcast is answered, or it crosses the bridge and reaches the       *)
(* gate's stack as well: towards the AP as long as a client is there to    *)
(* hear it (the unlocked read of g_ap_client_n misses no settled client).  *)
BroadcastCrosses ==
  Handled /\ rx.frame.dst = GROUP /\ rx.frame.fits /\ rx.out # <<"reply">> =>
    CASE rx.frame.cb = "ap" -> rx.out = <<"mesh", "local">>
      [] rx.frame.cb = "mesh" ->
           /\ rx.out \in {<<"ap", "local">>, <<"local">>}
           /\ steady # {} => "ap" \in Ports

(* Each frame goes where it should and nowhere else: once a port and never *)
(* back, a unicast to no stranger, a broadcast across and up.              *)
RightPorts == DeliveredOnce /\ NoStrayUnicast /\ BroadcastCrosses

=============================================================================
