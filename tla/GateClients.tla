----------------------------- MODULE GateClients -----------------------------
(***************************************************************************)
(* The mesh gate's table of associated AP clients, g_ap_clients[] and      *)
(* g_ap_client_n of firmware/rimba-halow-mesh-ap/main/app_main.c, and the  *)
(* callback that maintains it, ap_sta_status_cb.                           *)
(*                                                                         *)
(* morselib (external) keeps the set of stations its SoftAP has admitted,  *)
(* assoc, and reports every change to the callback on the AP status task,  *)
(* one report at a time.  The callback is not atomic with the change it    *)
(* reports: assoc changes first, the table follows, and on a departure the *)
(* proxy-ARP table (module GateArp) is cleaned only after that.            *)
(*                                                                         *)
(* The table is a sequence, as in the code: a removal moves the last slot  *)
(* into the hole.  Both of its critical sections are one step each, since  *)
(* every access to the table is inside the portMUX.                        *)
(***************************************************************************)
EXTENDS Naturals, Sequences, FiniteSets

CONSTANTS
  ClientMac,          \* MAC addresses that may associate with the SoftAP
  NoMac,              \* no station
  LINK_MAX_STAS,      \* ap_args.max_stas, the admission cap
  GATE_MAX_CLIENTS    \* slots of g_ap_clients[]

\* The _Static_assert on the two capacities.
ASSUME ClientCapacity ==
  /\ LINK_MAX_STAS \in Nat
  /\ GATE_MAX_CLIENTS \in Nat
  /\ GATE_MAX_CLIENTS >= LINK_MAX_STAS

VARIABLES
  assoc,      \* external: the stations the SoftAP has admitted
  clients,    \* g_ap_clients[0 .. g_ap_client_n - 1]
  sta         \* the AP status task: where it is, and the station reported

clientVars == <<assoc, clients, sta>>

StaPc == {"idle", "authorized", "unknown", "forget"}

StaIdle == [pc |-> "idle", mac |-> NoMac]

ClientsInit ==
  /\ assoc = {}
  /\ clients = <<>>
  /\ sta = StaIdle

Listed == {clients[i] : i \in DOMAIN clients}

\* gate_is_ap_client
IsApClient(mac) == mac \in Listed

-----------------------------------------------------------------------------
(* External: morselib admits a station below its cap, or drops one, and    *)
(* hands the report to the status task.  A station that associates again   *)
(* is reported authorized while it is already admitted, and one that never *)
(* completed its association is reported gone: both reports are handled.   *)

ReportAuthorized(m) ==
  /\ sta.pc = "idle"
  /\ m \in assoc \/ Cardinality(assoc) < LINK_MAX_STAS
  /\ assoc' = assoc \cup {m}
  /\ sta' = [pc |-> "authorized", mac |-> m]
  /\ UNCHANGED clients

ReportUnknown(m) ==
  /\ sta.pc = "idle"
  /\ assoc' = assoc \ {m}
  /\ sta' = [pc |-> "unknown", mac |-> m]
  /\ UNCHANGED clients

-----------------------------------------------------------------------------
(* ap_sta_status_cb.  AUTHORIZED appends a station that is not listed when *)
(* there is room; UNKNOWN moves the last slot into the departed one's, and *)
(* then goes on to gw_arp_forget_mac.                                      *)

\* Slip: no search for the station first.
AppendedAgain(mac) ==
  IF Len(clients) >= GATE_MAX_CLIENTS THEN clients ELSE Append(clients, mac)

Appended(mac) ==
  IF IsApClient(mac) \/ Len(clients) >= GATE_MAX_CLIENTS
    THEN clients
    ELSE Append(clients, mac)

\* Slips: the count lowered without moving the last slot, the slot only cleared.
RemovedLast(mac) ==
  IF IsApClient(mac) THEN SubSeq(clients, 1, Len(clients) - 1) ELSE clients

RemovedCleared(mac) ==
  [k \in DOMAIN clients |-> IF clients[k] = mac THEN NoMac ELSE clients[k]]

SwapRemoved(mac) ==
  IF IsApClient(mac)
    THEN LET i == CHOOSE k \in DOMAIN clients : clients[k] = mac
         IN  [k \in 1 .. Len(clients) - 1 |->
                IF k = i THEN clients[Len(clients)] ELSE clients[k]]
    ELSE clients

StaAuthorized ==
  /\ sta.pc = "authorized"
  /\ clients' = Appended(sta.mac)
  /\ sta' = StaIdle
  /\ UNCHANGED assoc

StaUnknown ==
  /\ sta.pc = "unknown"
  /\ clients' = SwapRemoved(sta.mac)
  /\ sta' = [sta EXCEPT !.pc = "forget"]
  /\ UNCHANGED assoc

\* The departure report is done once gw_arp_forget_mac has returned.
StaForgotten ==
  /\ sta.pc = "forget"
  /\ sta' = StaIdle
  /\ UNCHANGED <<assoc, clients>>

StaStep == StaAuthorized \/ StaUnknown

-----------------------------------------------------------------------------
ClientsTypeOK ==
  /\ assoc \subseteq ClientMac
  /\ clients \in Seq(ClientMac)
  /\ sta \in [pc : StaPc, mac : ClientMac \cup {NoMac}]
  /\ sta.pc # "idle" => sta.mac \in ClientMac

(* The stations whose last report has been handled: the AP has admitted    *)
(* them and the gate has been told.                                        *)
Settled == IF sta.pc = "idle" THEN assoc ELSE assoc \ {sta.mac}

(* A station the AP admitted is never silently left out of the bridge, and *)
(* no departed one stays in it: the table lists the admitted stations,     *)
(* each once, and so is within its capacity; only the station whose report *)
(* is being handled may be missing or left over (the "silently never be    *)
(* bridged" class of bug).                                                 *)
ClientsTrackAdmission ==
  /\ \A i, j \in DOMAIN clients : clients[i] = clients[j] => i = j
  /\ Len(clients) <= GATE_MAX_CLIENTS
  /\ Settled \subseteq Listed
  /\ Listed \subseteq Settled \cup {sta.mac}
  /\ sta.pc \in {"idle", "forget"} => Listed = assoc

=============================================================================
