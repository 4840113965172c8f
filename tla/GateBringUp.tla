----------------------------- MODULE GateBringUp -----------------------------
(***************************************************************************)
(* app_main of firmware/rimba-halow-mesh-ap/main/app_main.c: how the mesh  *)
(* gate comes up, while the radio it has just started already calls back.  *)
(*                                                                         *)
(* app_main is a straight line of steps, Order.  A step that fails ends in *)
(* one of three ways: ESP_ERROR_CHECK, assert and configASSERT reboot the  *)
(* chip; mmwlan_mesh_start and mmwlan_ap_enable make app_main return; and  *)
(* the result of xTaskCreate is not looked at.  From the step that arms it *)
(* on, each of these runs between any two further steps:                   *)
(*                                                                         *)
(*   "ap"           stations associate; ap_sta_status_cb (GateClients)     *)
(*   "rxSta","rxAp" frames of the mesh, of the AP clients: gw_arp_learn    *)
(*   "announce"     gw_arp_announce_task                                   *)
(*   "netTask"      mesh_net_task, which gives the gate its mesh address   *)
(***************************************************************************)
EXTENDS GateClients

CONSTANTS
  Polls    \* polls of mesh_net_task for its netif (60 in the code)

ASSUME PollsBound == Polls \in Nat

VARIABLES
  step,      \* index into Order of app_main's next step
  app,       \* app_main: "running", or "returned"
  ready,     \* the steps that succeeded since the last reset
  lost,      \* history: the unchecked steps that failed since the last reset
  rx,        \* the UMAC event loop's callback: [pc, vif, isNew]
  ann,       \* the announce task is inside its locked section
  dropped,   \* history: a new mapping's wake found no task to notify
  netUp,     \* external: the mesh netif is up
  net        \* mesh_net_task: [pc, polls]

bootVars == <<step, app, ready, lost>>
runVars == <<rx, ann, dropped, netUp, net>>
vars == <<clientVars, bootVars, runVars>>

\* Slips an edit of app_main could make.
OrderLockLate ==
  <<"sys", "init", "mesh", "ap", "apNetif", "bssid", "input", "lock",
    "announce", "rxSta", "rxAp", "netTask">>
OrderRxFirst ==
  <<"sys", "lock", "init", "mesh", "ap", "apNetif", "bssid", "input",
    "rxSta", "rxAp", "announce", "netTask">>
OrderNetifLast ==
  <<"sys", "lock", "init", "mesh", "ap", "announce", "rxSta", "rxAp",
    "apNetif", "bssid", "input", "netTask">>

(* "sys" is NVS, the event loop and esp_netif; "init" mmhalow_init, which  *)
(* creates the mesh netif; "apNetif" the new netif and its driver; "bssid" *)
(* g_ap_bssid; "input" esp_netif_action_start, which gives the netif its   *)
(* input function.                                                         *)
Order ==
  <<"sys", "lock", "init", "mesh", "ap", "apNetif", "bssid", "input",
    "announce", "rxSta", "rxAp", "netTask">>

Aborting == {"sys", "lock", "apNetif", "bssid", "rxSta", "rxAp"}
Returning == {"mesh", "ap"}
Unchecked == {"announce", "netTask"}

RxIdle == [pc |-> "idle", vif |-> "sta", isNew |-> FALSE]
NetIdle == [pc |-> "none", polls |-> 0]

Init ==
  /\ ClientsInit
  /\ step = 1 /\ app = "running" /\ ready = {} /\ lost = {}
  /\ rx = RxIdle /\ ann = FALSE /\ dropped = FALSE
  /\ netUp = FALSE /\ net = NetIdle

-----------------------------------------------------------------------------
\* app_main

Running == app = "running" /\ step <= Len(Order)

Advance ==
  /\ Running
  /\ ready' = ready \cup {Order[step]}
  /\ step' = step + 1
  /\ app' = IF step = Len(Order) THEN "returned" ELSE app
  /\ net' = IF Order[step] = "netTask" THEN [net EXCEPT !.pc = "start"] ELSE net
  /\ UNCHANGED <<clientVars, lost, rx, ann, dropped, netUp>>

(* The chip resets: RAM, the tasks and the radio start over.  Besides      *)
(* app_main, mesh_net_task aborts when the address cannot be set.          *)
Abort ==
  /\ (Running /\ Order[step] \in Aborting) \/ net.pc = "pin"
  /\ step' = 1 /\ app' = "running" /\ ready' = {} /\ lost' = {}
  /\ assoc' = {} /\ clients' = <<>> /\ sta' = StaIdle
  /\ rx' = RxIdle /\ ann' = FALSE /\ dropped' = FALSE
  /\ netUp' = FALSE /\ net' = NetIdle

Return ==
  /\ Running
  /\ Order[step] \in Returning
  /\ app' = "returned"
  /\ UNCHANGED <<clientVars, step, ready, lost, runVars>>

Ignore ==
  /\ Running
  /\ Order[step] \in Unchecked
  /\ lost' = lost \cup {Order[step]}
  /\ step' = step + 1
  /\ app' = IF step = Len(Order) THEN "returned" ELSE app
  /\ UNCHANGED <<clientVars, ready, runVars>>

-----------------------------------------------------------------------------
\* The SoftAP's callback, armed by mmwlan_ap_enable.

Station ==
  /\ "ap" \in ready
  /\ \/ \E m \in ClientMac : ReportAuthorized(m) \/ ReportUnknown(m)
     \/ StaStep
     \/ StaForgotten
  /\ UNCHANGED <<bootVars, runVars>>

-----------------------------------------------------------------------------
(* A frame: gw_arp_learn takes the mutex, and wakes the announce task when *)
(* the mapping is new (module GateArp has what the wake then does).  A     *)
(* frame from a vif whose callback is not yet registered does not reach    *)
(* the gate's code.                                                        *)

Frame(vif) ==
  /\ rx.pc = "idle"
  /\ \/ vif = "sta" /\ "rxSta" \in ready
     \/ vif = "ap" /\ "rxAp" \in ready /\ assoc # {}
  /\ \E new \in BOOLEAN : rx' = [pc |-> "learn", vif |-> vif, isNew |-> new]
  /\ UNCHANGED <<clientVars, bootVars, ann, dropped, netUp, net>>

Learn ==
  /\ rx.pc = "learn"
  /\ ~ann
  /\ rx' = [rx EXCEPT !.pc = "wake"]
  /\ UNCHANGED <<clientVars, bootVars, ann, dropped, netUp, net>>

\* gw_arp_wake_announce, then the frame is delivered: the callback ends.
Wake ==
  /\ rx.pc = "wake"
  /\ dropped' = (dropped \/ (rx.isNew /\ "announce" \notin ready))
  /\ rx' = RxIdle
  /\ UNCHANGED <<clientVars, bootVars, ann, netUp, net>>

-----------------------------------------------------------------------------
\* gw_arp_announce_task: woken by a notification or by its period.

AnnounceTake ==
  /\ "announce" \in ready
  /\ ~ann
  /\ ann' = TRUE
  /\ UNCHANGED <<clientVars, bootVars, rx, dropped, netUp, net>>

AnnounceGive ==
  /\ ann
  /\ ann' = FALSE
  /\ UNCHANGED <<clientVars, bootVars, rx, dropped, netUp, net>>

-----------------------------------------------------------------------------
(* mesh_net_task: waits for the mesh netif to be up, for Polls polls at    *)
(* most, then gives it the address whether it is up or not.  The netif may *)
(* be missing.                                                             *)

\* External: the netif comes up with the first peering.
NetifUp ==
  /\ "mesh" \in ready
  /\ netUp' = TRUE
  /\ UNCHANGED <<clientVars, bootVars, rx, ann, dropped, net>>

NetStart ==
  /\ net.pc = "start"
  /\ \E pc \in {"poll", "missing"} : net' = [net EXCEPT !.pc = pc]
  /\ UNCHANGED <<clientVars, bootVars, rx, ann, dropped, netUp>>

\* Slip: no bound on the wait.
NetPollForever ==
  /\ net.pc = "poll"
  /\ net' = IF netUp THEN [net EXCEPT !.pc = "pin"] ELSE net
  /\ UNCHANGED <<clientVars, bootVars, rx, ann, dropped, netUp>>

\* Slip: one poll too many.
NetPollOneMore ==
  /\ net.pc = "poll"
  /\ net' = IF netUp \/ net.polls > Polls THEN [net EXCEPT !.pc = "pin"]
                                          ELSE [net EXCEPT !.polls = @ + 1]
  /\ UNCHANGED <<clientVars, bootVars, rx, ann, dropped, netUp>>

NetPoll ==
  /\ net.pc = "poll"
  /\ net' = IF netUp \/ net.polls = Polls THEN [net EXCEPT !.pc = "pin"]
                                          ELSE [net EXCEPT !.polls = @ + 1]
  /\ UNCHANGED <<clientVars, bootVars, rx, ann, dropped, netUp>>

NetPin ==
  /\ net.pc = "pin"
  /\ net' = [net EXCEPT !.pc = "pinned"]
  /\ UNCHANGED <<clientVars, bootVars, rx, ann, dropped, netUp>>

-----------------------------------------------------------------------------
Boot == Advance \/ Abort \/ Return \/ Ignore
Rx == Frame("sta") \/ Frame("ap") \/ Learn \/ Wake
Announce == AnnounceTake \/ AnnounceGive
Net == NetStart \/ NetPoll \/ NetPin

Next == Boot \/ Station \/ Rx \/ Announce \/ NetifUp \/ Net

\* Every task the scheduler has is run; nothing is asked of the stations.
Spec == Init /\ [][Next]_vars
FairSpec == Spec /\ WF_vars(Boot) /\ WF_vars(Net)

-----------------------------------------------------------------------------
Step == {Order[i] : i \in DOMAIN Order}

BringUpTypeOK ==
  /\ ClientsTypeOK
  /\ step \in 1 .. Len(Order) + 1
  /\ app \in {"running", "returned"}
  /\ ready \subseteq Step
  /\ lost \subseteq Unchecked
  /\ rx \in [pc : {"idle", "learn", "wake"}, vif : {"sta", "ap"}, isNew : BOOLEAN]
  /\ ann \in BOOLEAN /\ dropped \in BOOLEAN /\ netUp \in BOOLEAN
  /\ net \in [pc : {"none", "start", "poll", "pin", "pinned", "missing"}, polls : 0 .. Polls]

(* "Deliberately NOT NULL-guarded": none of the accessors of the proxy-ARP *)
(* table, the departure report among them, can run before app_main has     *)
(* created the mutex they take.                                            *)
AccessorsFindLock ==
  sta.pc = "forget" \/ rx.pc = "learn" \/ ann => "lock" \in ready

(* "A mapping learned while the handle is still NULL drops its wake": it   *)
(* does not happen during start-up; a new mapping's wake is dropped only   *)
(* in a gate whose announce task could not be created at all.              *)
WakeReachesTask == dropped => "announce" \in lost

(* A frame of an AP client is classified against a valid g_ap_bssid, and   *)
(* is given to a netif that has an input function.                         *)
ApFrameHasNetif ==
  rx.pc # "idle" /\ rx.vif = "ap" => {"bssid", "input"} \subseteq ready

(* Nothing of the start-up runs before what it uses exists: the lock, the  *)
(* announce task, the AP netif and its address.                            *)
StartedInOrder == AccessorsFindLock /\ WakeReachesTask /\ ApFrameHasNetif

(* The gate gets its mesh address even when the netif does not come up in  *)
(* time: mesh_net_task ends, with the address set unless it found no netif *)
(* or the chip was reset.                                                  *)
MeshAddressPinned ==
  net.pc \in {"start", "poll", "pin"} ~> net.pc \in {"pinned", "missing", "none"}

=============================================================================
