------------------------------ MODULE IbssNode ------------------------------
(***************************************************************************)
(* The IBSS programs.  rimba-halow-ibss: peer_cb, in the RX context, leaves *)
(* each new peer in a list of Slots entries, and app_main, every three      *)
(* seconds, starts one ping session per peer it finds there.                *)
(* test-ibss: the same start, then one count of the peers.  test-ibss-      *)
(* boottime: one board times its boot to the first reply of the other.      *)
(* Addresses are derived from the last octet of the MAC.                    *)
(***************************************************************************)
EXTENDS Naturals, Sequences, FiniteSets

CONSTANTS Peers,    \* the other nodes' MACs, by last octet
          Mine,     \* our last octets
          Slots,    \* length of s_pending and of s_pinged (8)
          MaxJoins  \* bound: PEER_ADDED events

ASSUME IbssBounds == /\ Peers \subseteq 0 .. 255 /\ Mine \subseteq 0 .. 255
                     /\ Slots \in Nat \ {0} /\ MaxJoins \in Nat

VARIABLES ibPc,     \* where app_main is
          ibMac,    \* our last octet
          ibTable,  \* the driver's peers
          ibJoins,  \* PEER_ADDED events so far
          ibPending,\* s_pending
          ibCount,  \* s_npending
          ibCb,     \* peer_cb: its place, the peer, the index it read; app_main sleeps all along
          ibScan,   \* app_main's round: np, i
          ibPinged, \* s_pinged, up to s_npinged
          ibQuiet,  \* history: peers recorded, from the load to the copy, while app_main slept
          ibLines,  \* BOOTTIME_MS lines
          ibReported,\* s_reported
          ibVerdict \* test-ibss's RESULT lines

ibRound == <<ibScan, ibPinged, ibQuiet>>
ibBoot == <<ibLines, ibReported, ibVerdict>>
ibCell == <<ibTable, ibJoins>>
ibVars == <<ibPc, ibMac, ibCell, ibPending, ibCount, ibCb, ibRound, ibBoot>>

\* A slot nobody wrote holds the MAC of the statics: zeros.
Empty == 0

mac_to_ip(octet) == CASE octet = 0 -> 1 [] octet = 255 -> 254 [] OTHER -> octet

-----------------------------------------------------------------------------
IbssInit ==
    /\ ibPc = "boot" /\ ibMac \in Mine /\ ibTable = {} /\ ibJoins = 0
    /\ ibPending = [i \in 1 .. Slots |-> Empty] /\ ibCount = 0
    /\ ibCb = [pc |-> "idle", peer |-> Empty, n |-> 0, quiet |-> FALSE]
    /\ ibScan = [np |-> 0, i |-> 0] /\ ibPinged = <<>> /\ ibQuiet = {}
    /\ ibLines = 0 /\ ibReported = FALSE /\ ibVerdict = <<>>

-----------------------------------------------------------------------------
(* peer_cb.                                                                 *)

\* External: the driver meets a node it does not have (a new one, or one it aged out), and
\* calls back with PEER_ADDED.
PeerAdded(p) ==
    /\ ibPc \notin {"boot", "halted", "timing", "waiting"} /\ ibCb.pc = "idle"
    /\ p \notin ibTable /\ ibJoins < MaxJoins
    /\ ibTable' = ibTable \cup {p} /\ ibJoins' = ibJoins + 1
    /\ ibCb' = IF ibCount < Slots /\ ibPc # "polling"
               THEN [pc |-> "count", peer |-> p, n |-> ibCount, quiet |-> ibPc = "sleep"]
               ELSE ibCb
    /\ UNCHANGED <<ibPc, ibMac, ibPending, ibCount, ibRound, ibBoot>>

\* s_npending++ is a load and a store ...
CbCount ==
    /\ ibCb.pc = "count"
    /\ ibCount' = ibCb.n + 1
    /\ ibCb' = [ibCb EXCEPT !.pc = "copy"]
    /\ UNCHANGED <<ibPc, ibMac, ibCell, ibPending, ibRound, ibBoot>>

\* ... and the entry is written after it.
CbCopy ==
    /\ ibCb.pc = "copy"
    /\ ibPending' = [ibPending EXCEPT ![ibCb.n + 1] = ibCb.peer]
    /\ ibCb' = [ibCb EXCEPT !.pc = "idle"]
    /\ ibQuiet' = IF ibCb.quiet THEN ibQuiet \cup {ibCb.peer} ELSE ibQuiet
    /\ UNCHANGED <<ibPc, ibMac, ibCell, ibCount, ibScan, ibPinged, ibBoot>>

-----------------------------------------------------------------------------
(* app_main of rimba-halow-ibss.                                            *)

IbssStart(ok) ==
    /\ ibPc = "boot"
    /\ ibPc' = IF ok THEN "sleep" ELSE "halted"
    /\ UNCHANGED <<ibMac, ibCell, ibPending, ibCount, ibCb, ibRound, ibBoot>>

RoundBegins ==
    /\ ibPc = "sleep" /\ ibPc' = "scan"
    /\ ibScan' = [np |-> ibCount, i |-> 0]
    /\ ibCb' = [ibCb EXCEPT !.quiet = FALSE]
    /\ UNCHANGED <<ibMac, ibCell, ibPending, ibCount, ibPinged, ibQuiet, ibBoot>>

\* Slip: whether the peer has a session already is not asked.
ScanOneUnseen ==
    /\ ibPc = "scan" /\ ibScan.i < ibScan.np
    /\ ibScan' = [ibScan EXCEPT !.i = @ + 1]
    /\ ibPinged' = IF Len(ibPinged) < Slots THEN Append(ibPinged, ibPending[ibScan.i + 1])
                   ELSE ibPinged
    /\ UNCHANGED <<ibPc, ibMac, ibCell, ibPending, ibCount, ibCb, ibQuiet, ibBoot>>

\* One entry: a session for a peer that has none, while there is room.  start_ping has no
\* result: the peer counts as pinged also when the session could not be created.
ScanOne ==
    LET p == ibPending[ibScan.i + 1]
    IN  /\ ibPc = "scan" /\ ibScan.i < ibScan.np
        /\ ibScan' = [ibScan EXCEPT !.i = @ + 1]
        /\ ibPinged' = IF Len(ibPinged) < Slots /\ \A j \in DOMAIN ibPinged : ibPinged[j] # p
                       THEN Append(ibPinged, p) ELSE ibPinged
        /\ UNCHANGED <<ibPc, ibMac, ibCell, ibPending, ibCount, ibCb, ibQuiet, ibBoot>>

\* s_npending = 0, also for what came since the round began.
ClearPending ==
    /\ ibPc = "scan" /\ ibScan.i = ibScan.np
    /\ ibPc' = "age" /\ ibCount' = 0
    /\ UNCHANGED <<ibMac, ibCell, ibPending, ibCb, ibRound, ibBoot>>

\* mmwlan_ibss_age_peers: the silent ones leave the driver's table; peer_cb ignores REMOVED.
AgePeers ==
    /\ ibPc = "age" /\ ibPc' = "sleep" /\ ibQuiet' = {}
    /\ ibTable' \in SUBSET ibTable
    /\ UNCHANGED <<ibMac, ibJoins, ibPending, ibCount, ibCb, ibScan, ibPinged, ibBoot>>

-----------------------------------------------------------------------------
(* test-ibss-boottime: MEASURE joins the cell of CREATE and pings it.       *)

\* No MAC, our own address as the peer's, no cell or no session: no line ever.  The peer is
\* the one of TEST_PING_IP.
MeasureStart(ok, p) ==
    /\ ibPc = "boot"
    /\ ibPc' = IF ok /\ mac_to_ip(ibMac) # mac_to_ip(p) THEN "timing" ELSE "halted"
    /\ ibCb' = [ibCb EXCEPT !.peer = p]
    /\ UNCHANGED <<ibMac, ibCell, ibPending, ibCount, ibRound, ibBoot>>

\* The creator derives its address too, and lets lwIP answer.
CreateStart(ok) ==
    /\ ibPc = "boot"
    /\ ibPc' = IF ok THEN "waiting" ELSE "halted"
    /\ UNCHANGED <<ibMac, ibCell, ibPending, ibCount, ibCb, ibRound, ibBoot>>

\* Slip: every reply is reported.
EveryPingReported ==
    /\ ibPc = "timing" /\ ibLines < 2
    /\ ibLines' = ibLines + 1 /\ ibReported' = TRUE
    /\ UNCHANGED <<ibPc, ibMac, ibCell, ibPending, ibCount, ibCb, ibRound, ibVerdict>>

\* A reply: only the first is reported.
on_ping_success ==
    /\ ibPc = "timing" /\ ~ibReported
    /\ ibLines' = ibLines + 1 /\ ibReported' = TRUE
    /\ UNCHANGED <<ibPc, ibMac, ibCell, ibPending, ibCount, ibCb, ibRound, ibVerdict>>

-----------------------------------------------------------------------------
(* test-ibss: the creator and the joiners start, and each counts its peers. *)

TestStart(ok) ==
    /\ ibPc = "boot"
    /\ ibPc' = IF ok THEN "polling" ELSE "halted"
    /\ ibVerdict' = IF ok THEN <<>> ELSE <<"FAIL">>
    /\ UNCHANGED <<ibMac, ibCell, ibPending, ibCount, ibCb, ibRound, ibLines, ibReported>>

\* The poll that finds a record, or the last one that does not: two records are a phantom,
\* when both are there at that moment.
PollEnds ==
    /\ ibPc = "polling" /\ ibPc' = "halted"
    /\ ibVerdict' = Append(ibVerdict, CASE Cardinality(ibTable) = 1 -> "PASS"
                                        [] ibTable = {}              -> "INCONCLUSIVE"
                                        [] OTHER                     -> "FAIL")
    /\ UNCHANGED <<ibMac, ibCell, ibPending, ibCount, ibCb, ibRound, ibLines, ibReported>>

-----------------------------------------------------------------------------
IbssNext ==
    \/ \E ok \in BOOLEAN : IbssStart(ok) \/ CreateStart(ok) \/ \E p \in Peers : MeasureStart(ok, p)
    \/ \E p \in Peers : PeerAdded(p)
    \/ CbCount \/ CbCopy
    \/ RoundBegins \/ ScanOne \/ ClearPending \/ AgePeers
    \/ on_ping_success
    \/ PollEnds \/ \E ok \in BOOLEAN : TestStart(ok)

IbssSpec == IbssInit /\ [][IbssNext]_ibVars

-----------------------------------------------------------------------------
(* Properties.                                                              *)

IbssTypeOK ==
    /\ ibPc \in {"boot", "halted", "sleep", "scan", "age", "timing", "waiting", "polling"}
    /\ ibMac \in Mine /\ ibTable \subseteq Peers /\ ibJoins \in 0 .. MaxJoins
    /\ ibPending \in [1 .. Slots -> Peers \cup {Empty}] /\ ibCount \in 0 .. Slots
    /\ ibCb \in [pc : {"idle", "count", "copy"}, peer : Peers \cup {Empty},
                 n : 0 .. Slots - 1, quiet : BOOLEAN]
    /\ ibScan \in [np : 0 .. Slots, i : 0 .. Slots]
    /\ Len(ibPinged) <= Slots /\ {ibPinged[i] : i \in DOMAIN ibPinged} \subseteq Peers \cup {Empty}
    /\ ibQuiet \subseteq Peers
    /\ ibLines \in 0 .. 1 /\ ibReported \in BOOLEAN
    /\ ibVerdict = <<>> \/ \E v \in {"PASS", "FAIL", "INCONCLUSIVE"} : ibVerdict = <<v>>

Sessions == {ibPinged[i] : i \in DOMAIN ibPinged}

\* A peer recorded while app_main slept has its session when the round is over, unless all
\* of s_pinged is taken; and no peer gets two, however often it ages out and comes back or a
\* torn count makes old entries appear again.
EachPingedOnce ==
    /\ ibPc = "age" /\ Len(ibPinged) < Slots => ibQuiet \subseteq Sessions
    /\ \A i, j \in DOMAIN ibPinged : ibPinged[i] = ibPinged[j] => i = j

\* What the comment on peer_cb promises: it records the MAC and "the main loop starts the
\* ping session".  Between rounds, with both lists big enough, every peer of the cell has its
\* session or waits in the list.
AddedIsPinged ==
    ibPc = "sleep" /\ ibCb.pc = "idle" /\ MaxJoins <= Slots =>
        ibTable \subseteq Sessions \cup {ibPending[i] : i \in 1 .. ibCount}

\* test-ibss ends with one RESULT line: when nobody else comes, at its deadline.
CellVerdictComes == ibPc = "polling" ~> Len(ibVerdict) = 1

=============================================================================
