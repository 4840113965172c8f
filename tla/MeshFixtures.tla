---------------------------- MODULE MeshFixtures ----------------------------
(***************************************************************************)
(* The reporter programs of the on-air tier that run on a mesh: a board     *)
(* boots, waits for the rig, measures, prints one RESULT line and parks.    *)
(* Every program is a record of its choices (what it reports when a step    *)
(* fails, what it waits for, what it measures) and a verdict of its own;    *)
(* the actions interpret the record.  The rig is three nodes in a line:     *)
(* the peer links, the loss and the forwarding are external.                *)
(***************************************************************************)
EXTENDS Integers, Sequences, FiniteSets

CONSTANTS Apps,       \* the programs, by the name of their TEST|BEGIN line
          PingCount,  \* PING_COUNT: echo requests of one session
          ReplyFloor, \* REPLY_FLOOR: replies that make a delivery
          MaxFlaps,   \* bound: peer links lost in one run
          Flows       \* TWT_MAX_FLOWS

Programs == {"mesh-relay", "mesh-large-frame", "mesh-leaf", "mesh-relay-nocrash",
             "mesh-gate-relay", "mesh-linux", "mesh-gate-linux", "mesh-peering",
             "mesh-gate-b2", "mesh-ap", "mesh-gate-bridge", "ap-sta-ping", "twt",
             "twt-assoc"}

ASSUME BoundsAssumption ==
    /\ Apps \subseteq Programs
    /\ PingCount \in Nat \ {0}
    /\ ReplyFloor \in 1 .. PingCount
    /\ MaxFlaps \in Nat
    /\ Flows \in Nat \ {0}

VARIABLES app,    \* the program under way
          hop,    \* what the gate in the middle does to a packet: bridges or routes it
          up,     \* nodes whose interface is started
          addr,   \* nodes that pinned an address (one without it neither pings nor answers)
          plinks, \* established links, two nodes each
          flaps,  \* links lost so far
          leaf,   \* nodes that called mmwlan_mesh_set_multihop(false)
          pc,     \* where each program is
          ping,   \* the reporter's session: sent, replies, the last reply's ttl, MIC failures
          chip,   \* the relay's hw_restart_counter, its value at the window's start, both peered
          gates,  \* a gate is known; proxied frames the gate received, the last one intact
          log,    \* RESULT lines of each node
          truth,  \* history: replies the middle node forwarded, restarts in the window
          sta     \* a station's s_connected, and the state of each of its TWT agreements

rig == <<hop, up, addr, plinks, flaps, leaf>>
vars == <<app, hop, up, addr, plinks, flaps, leaf, pc, ping, chip, gates, log, truth, sta>>

Nodes == {"origin", "relay", "dest"}
Verdicts == {"PASS", "FAIL", "INCONCLUSIVE"}

-----------------------------------------------------------------------------
(* The programs.  noStart, noAddr and noRig are the verdicts of the early   *)
(* exits ("none": it returns without a line, "go": it carries on); needs is *)
(* what it polls for, does is what it measures next.  Boards run a program  *)
(* of this repository; the others are a Linux node, a gate, a far node.     *)

RelayApp == [reporter |-> "origin", target |-> "dest", boards |-> Nodes, line |-> TRUE,
             noStart |-> "FAIL", noAddr |-> "go", needs |-> "relay-alone", noRig |-> "FAIL",
             does |-> "ping", floor |-> ReplyFloor]

LargeFrameApp == RelayApp

LeafApp == [RelayApp EXCEPT !.floor = 1]

NocrashApp == [RelayApp EXCEPT !.reporter = "relay", !.needs = "two", !.noRig = "go",
                               !.does = "window"]

GateRelayApp == [RelayApp EXCEPT !.reporter = "dest", !.noStart = "none", !.needs = "nothing",
                                 !.does = "listen"]

LinuxApp == [RelayApp EXCEPT !.target = "relay", !.boards = {"origin"}, !.line = FALSE,
                             !.needs = "relay"]

GateLinuxApp == [LinuxApp EXCEPT !.noRig = "INCONCLUSIVE", !.does = "learn"]

PeeringApp == [LinuxApp EXCEPT !.needs = "any", !.does = "count"]

GateNodeApp == [RelayApp EXCEPT !.boards = {"origin"}, !.noAddr = "FAIL", !.needs = "any",
                                !.noRig = "INCONCLUSIVE"]

ApStaApp == [RelayApp EXCEPT !.boards = {"origin"}, !.noAddr = "FAIL", !.needs = "associated"]

GateStaApp == ApStaApp

\* The stations of an access point (the relay), without a mesh behind it.
ApPingApp == [ApStaApp EXCEPT !.target = "relay", !.line = FALSE]

TwtApp == [ApPingApp EXCEPT !.noAddr = "go", !.does = "request"]

TwtAssocApp == [TwtApp EXCEPT !.does = "agreement"]

Program(a) ==
    CASE a = "mesh-relay"         -> RelayApp
      [] a = "mesh-large-frame"   -> LargeFrameApp
      [] a = "mesh-leaf"          -> LeafApp
      [] a = "mesh-relay-nocrash" -> NocrashApp
      [] a = "mesh-gate-relay"    -> GateRelayApp
      [] a = "mesh-linux"         -> LinuxApp
      [] a = "mesh-gate-linux"    -> GateLinuxApp
      [] a = "mesh-peering"       -> PeeringApp
      [] a = "mesh-gate-b2"       -> GateNodeApp
      [] a = "mesh-ap"            -> ApStaApp
      [] a = "mesh-gate-bridge"   -> GateStaApp
      [] a = "ap-sta-ping"        -> ApPingApp
      [] a = "twt"                -> TwtApp
      [] a = "twt-assoc"          -> TwtAssocApp

P == Program(app)
R == P.reporter

\* Slip: the ends set no allowlist.
MutNeighboursOpen(n) == Nodes \ {n}

\* The allowlist each role sets before mmwlan_mesh_start, and the two media of a gate's
\* rig: the line origin, relay, dest.
Neighbours(n) == IF n = "relay" THEN {"origin", "dest"} ELSE {"relay"}

Allows(m, n) == P.line => n \in Neighbours(m)

PeersOf(n) == {m \in Nodes \ {n} : {m, n} \in plinks}

\* A packet of the reporter reaches its target directly or through the middle node.
Through == "relay" \notin leaf /\ {R, "relay"} \in plinks /\ {"relay", P.target} \in plinks

Reachable == {R, P.target} \subseteq addr /\ ({R, P.target} \in plinks \/ Through)

-----------------------------------------------------------------------------
Init ==
    /\ app \in Apps
    /\ hop \in {"bridge", "route"}
    /\ up = {} /\ addr = {} /\ plinks = {} /\ flaps = 0 /\ leaf = {}
    /\ pc = [n \in Nodes |-> IF n \in P.boards THEN "off" ELSE "external"]
    /\ ping = [sent |-> 0, replies |-> 0, ttl |-> 0, ccmp |-> 0]
    /\ chip = [restarts |-> 0, base |-> 0, both |-> FALSE]
    /\ gates = [known |-> FALSE, rx |-> 0, intact |-> FALSE]
    /\ log = [n \in Nodes |-> <<>>]
    /\ truth = [relayed |-> 0, window |-> 0]
    /\ sta = [connected |-> FALSE, flows |-> [f \in 0 .. Flows - 1 |-> -1]]

Goto(n, where) == pc' = [pc EXCEPT ![n] = where]

\* A RESULT line, the END line, and the program parks.
Report(n, v) ==
    /\ log' = [log EXCEPT ![n] = Append(@, v)]
    /\ Goto(n, "parked")

\* An early exit: no line and out of app_main, or a verdict.
GiveUp(n, v) ==
    IF v = "none" THEN Goto(n, "returned") /\ UNCHANGED log ELSE Report(n, v)

\* A node that runs no program of this repository appears, with its address.
NodeAppears(n) ==
    /\ pc[n] = "external" /\ n \notin up
    /\ up' = up \cup {n} /\ addr' = addr \cup {n}
    /\ UNCHANGED <<app, hop, plinks, flaps, leaf, pc, ping, chip, gates, log, truth, sta>>

\* mmwlan_mesh_start (or the association), then the address: without its netif a program
\* carries on or reports.  A leaf relay opts out of forwarding; the support roles park.
Boot(n, pinned) ==
    /\ pc[n] = "off"
    /\ up' = up \cup {n}
    /\ addr' = IF pinned THEN addr \cup {n} ELSE addr
    /\ leaf' = IF app = "mesh-leaf" /\ n = "relay" THEN {n} ELSE leaf
    /\ IF n = R /\ ~pinned /\ P.noAddr # "go"
       THEN Report(n, P.noAddr)
       ELSE Goto(n, IF n = R THEN "wait" ELSE "support") /\ UNCHANGED log
    /\ UNCHANGED <<app, hop, plinks, flaps, ping, chip, gates, truth, sta>>

StartFails(n) ==
    /\ pc[n] = "off"
    /\ GiveUp(n, P.noStart)
    /\ UNCHANGED <<app, hop, up, addr, plinks, flaps, leaf, ping, chip, gates, truth, sta>>

\* A link is established between two started nodes that allow each other, or lost.  A
\* station's s_connected is set by its first one and never cleared.
LinkUp(m, n) ==
    /\ m # n /\ {m, n} \subseteq up /\ Allows(m, n) /\ Allows(n, m)
    /\ {m, n} \notin plinks
    /\ plinks' = plinks \cup {{m, n}}
    /\ sta' = [sta EXCEPT !.connected = @ \/ (P.needs = "associated" /\ R \in {m, n})]
    /\ UNCHANGED <<app, hop, up, addr, flaps, leaf, pc, ping, chip, gates, log, truth>>

LinkDown(l) ==
    /\ flaps < MaxFlaps
    /\ flaps' = flaps + 1
    /\ plinks' = plinks \ {l}
    /\ UNCHANGED <<app, hop, up, addr, leaf, pc, ping, chip, gates, log, truth, sta>>

-----------------------------------------------------------------------------
(* Waiting for the rig.                                                     *)

Ready ==
    CASE P.needs = "relay-alone" -> PeersOf(R) = {"relay"}
      [] P.needs = "two"         -> Cardinality(PeersOf(R)) >= 2
      [] P.needs = "relay"       -> "relay" \in PeersOf(R)
      [] P.needs = "any"         -> PeersOf(R) # {}
      [] P.needs = "associated"  -> sta.connected
      [] P.needs = "nothing"     -> TRUE

\* Slip: hw_restart_counter is compared with zero.
MutWaitEndsNoBase ==
    /\ pc[R] = "wait"
    /\ IF Ready \/ P.noRig = "go"
       THEN Goto(R, P.does) /\ UNCHANGED log
       ELSE GiveUp(R, P.noRig)
    /\ chip' = [chip EXCEPT !.both = Ready]
    /\ UNCHANGED <<app, hop, up, addr, plinks, flaps, leaf, ping, gates, truth, sta>>

\* The poll that finds the rig ready, or the last one that does not.  The counter is read
\* after the wait.
WaitEnds ==
    /\ pc[R] = "wait"
    /\ IF Ready \/ P.noRig = "go"
       THEN Goto(R, P.does) /\ UNCHANGED log
       ELSE GiveUp(R, P.noRig)
    /\ chip' = [chip EXCEPT !.base = chip.restarts, !.both = Ready]
    /\ UNCHANGED <<app, hop, up, addr, plinks, flaps, leaf, ping, gates, truth, sta>>

-----------------------------------------------------------------------------
(* The ping session.                                                        *)

SessionFails ==
    /\ pc[R] = "ping" /\ ping.sent = 0
    /\ Report(R, "FAIL")
    /\ UNCHANGED <<app, hop, up, addr, plinks, flaps, leaf, ping, chip, gates, truth, sta>>

\* One echo request is answered, answered by a frame whose MIC fails (and is dropped),
\* or not answered.
PingOne(answer) ==
    /\ pc[R] = "ping" /\ ping.sent < PingCount
    /\ answer # "lost" => Reachable
    /\ ping' = [sent    |-> ping.sent + 1,
                replies |-> IF answer = "reply" THEN ping.replies + 1 ELSE ping.replies,
                ttl     |-> IF answer # "reply" THEN ping.ttl ELSE IF hop = "bridge" THEN 64 ELSE 63,
                ccmp    |-> IF answer = "mic" THEN ping.ccmp + 1 ELSE ping.ccmp]
    /\ truth' = IF answer = "reply" /\ {R, P.target} \notin plinks
                THEN [truth EXCEPT !.relayed = @ + 1] ELSE truth
    /\ UNCHANGED <<app, hop, up, addr, plinks, flaps, leaf, pc, chip, gates, log, sta>>

\* Delivery with a band in the middle that a marginal radio explains.
Delivered(floor) ==
    CASE ping.replies >= floor -> "PASS"
      [] ping.replies = 0      -> "FAIL"
      [] OTHER                 -> "INCONCLUSIVE"

RelayVerdict == IF ping.ccmp >= P.floor THEN "FAIL" ELSE Delivered(P.floor)

LargeFrameVerdict == IF ping.ccmp >= P.floor THEN "FAIL" ELSE Delivered(P.floor)

LeafVerdict == IF ping.replies = 0 THEN "PASS" ELSE "FAIL"

LinuxVerdict == Delivered(P.floor)

ApPingVerdict == Delivered(P.floor)

GateNodeVerdict == Delivered(P.floor)

\* A reply whose ttl is not the expected one came another way.
WithTtl(ttl) == IF ping.replies > 0 /\ ping.ttl # ttl THEN "INCONCLUSIVE" ELSE Delivered(P.floor)

GateStaVerdict == WithTtl(64)

\* Slip: a reply that came another way is reported with a word of its own.
MutApStaVerdictFourthWord ==
    IF ping.replies > 0 /\ ping.ttl # 63 THEN "WRONG_PATH" ELSE Delivered(P.floor)

ApStaVerdict == WithTtl(63)

PingVerdict ==
    CASE app = "mesh-relay"       -> RelayVerdict
      [] app = "mesh-large-frame" -> LargeFrameVerdict
      [] app = "mesh-leaf"        -> LeafVerdict
      [] app = "mesh-linux"       -> LinuxVerdict
      [] app = "ap-sta-ping"      -> ApPingVerdict
      [] app = "mesh-gate-b2"     -> GateNodeVerdict
      [] app = "mesh-gate-bridge" -> GateStaVerdict
      [] app = "mesh-ap"          -> ApStaVerdict

SessionEnds ==
    /\ pc[R] = "ping" /\ ping.sent = PingCount
    /\ Report(R, PingVerdict)
    /\ UNCHANGED <<app, hop, up, addr, plinks, flaps, leaf, ping, chip, gates, truth, sta>>

-----------------------------------------------------------------------------
(* The relay's window, the gate's frames, the plain counts.                 *)

\* The relay's chip restarts by itself: umac counts it, the program goes on.
ChipRestarts ==
    /\ app = "mesh-relay-nocrash" /\ "relay" \in up /\ chip.restarts <= MaxFlaps
    /\ chip' = [chip EXCEPT !.restarts = @ + 1]
    /\ truth' = IF pc[R] = "window" THEN [truth EXCEPT !.window = @ + 1] ELSE truth
    /\ UNCHANGED <<app, hop, up, addr, plinks, flaps, leaf, pc, ping, gates, log, sta>>

WindowEnds ==
    /\ pc[R] = "window"
    /\ Report(R, IF ~chip.both THEN "INCONCLUSIVE"
                 ELSE IF chip.restarts = chip.base THEN "PASS" ELSE "FAIL")
    /\ UNCHANGED <<app, hop, up, addr, plinks, flaps, leaf, ping, chip, gates, truth, sta>>

\* The announcement of a gate (the dest of the line, any neighbour of the Linux rig)
\* reaches the origin.
LearnGate ==
    /\ app \in {"mesh-gate-relay", "mesh-gate-linux"} /\ ~gates.known
    /\ IF app = "mesh-gate-relay" THEN Cardinality(plinks) = 2 ELSE PeersOf("origin") # {}
    /\ gates' = [gates EXCEPT !.known = TRUE]
    /\ UNCHANGED <<app, hop, up, addr, plinks, flaps, leaf, pc, ping, chip, log, truth, sta>>

\* The origin's mmwlan_mesh_send_to_gates: the frame arrives through the relay, its proxied
\* endpoints kept or not.  The probe keeps the last one.
SendToGates(intact) ==
    /\ app = "mesh-gate-relay" /\ pc["origin"] = "support" /\ pc["dest"] # "off"
    /\ gates.known /\ Cardinality(plinks) = 2 /\ gates.rx < PingCount
    /\ gates' = [gates EXCEPT !.rx = @ + 1, !.intact = intact]
    /\ UNCHANGED <<app, hop, up, addr, plinks, flaps, leaf, pc, ping, chip, log, truth, sta>>

\* Slip: the gate waits for a frame without a deadline.
MutGateRelayPollEndless(v) ==
    /\ pc[R] = "listen"
    /\ v = "PASS" /\ gates.rx > 0 /\ gates.intact
    /\ Report(R, v)
    /\ UNCHANGED <<app, hop, up, addr, plinks, flaps, leaf, ping, chip, gates, truth, sta>>

GateRelayPoll(v) ==
    /\ pc[R] = "listen"
    /\ v = CASE gates.rx > 0 /\ gates.intact       -> "PASS"
             [] gates.rx = 0 /\ PeersOf(R) = {}      -> "INCONCLUSIVE"
             [] OTHER                              -> "FAIL"
    /\ Report(R, v)
    /\ UNCHANGED <<app, hop, up, addr, plinks, flaps, leaf, ping, chip, gates, truth, sta>>

GateLinuxCount ==
    /\ pc[R] = "learn"
    /\ Report(R, IF gates.known THEN "PASS" ELSE "FAIL")
    /\ UNCHANGED <<app, hop, up, addr, plinks, flaps, leaf, ping, chip, gates, truth, sta>>

PeeringCount ==
    /\ pc[R] = "count"
    /\ Report(R, "PASS")
    /\ UNCHANGED <<app, hop, up, addr, plinks, flaps, leaf, ping, chip, gates, truth, sta>>

-----------------------------------------------------------------------------
(* The TWT stations: an agreement is -1 when there is none, 0 pending, 1    *)
(* installed.                                                               *)

\* mmwlan_twt_setup_request, once associated; the other station put its configuration into
\* the association and carries on whatever that returned.
TwtRequest(ok) ==
    /\ pc[R] = "request"
    /\ IF ok THEN Goto(R, "agreement") /\ UNCHANGED log ELSE Report(R, "FAIL")
    /\ UNCHANGED <<app, hop, up, addr, plinks, flaps, leaf, ping, chip, gates, truth, sta>>

\* The access point answers and the driver installs, or either drops the agreement.
AgreementMoves(f, state) ==
    /\ pc[R] = "agreement"
    /\ sta' = [sta EXCEPT !.flows[f] = state]
    /\ UNCHANGED <<app, hop, up, addr, plinks, flaps, leaf, pc, ping, chip, gates, log, truth>>

\* The requested agreement is flow 0; the one of an association has whatever flow the
\* negotiation gave it, and none visible is no failure.
TwtVerdict ==
    CASE sta.flows[0] = 1 -> "PASS"
      [] sta.flows[0] = 0 -> "INCONCLUSIVE"
      [] OTHER            -> "FAIL"

scan_installed == {f \in DOMAIN sta.flows : sta.flows[f] = 1}

TwtAssocVerdict == IF scan_installed # {} THEN "PASS" ELSE "INCONCLUSIVE"

\* The poll that finds an installed agreement, or the last one that does not.
AgreementPoll ==
    /\ pc[R] = "agreement"
    /\ Report(R, IF app = "twt" THEN TwtVerdict ELSE TwtAssocVerdict)
    /\ UNCHANGED <<app, hop, up, addr, plinks, flaps, leaf, ping, chip, gates, truth, sta>>

-----------------------------------------------------------------------------
Steps == \/ WaitEnds \/ SessionFails \/ SessionEnds \/ WindowEnds
         \/ \E a \in {"reply", "mic", "lost"} : PingOne(a)
         \/ \E v \in Verdicts : GateRelayPoll(v)
         \/ GateLinuxCount \/ PeeringCount \/ AgreementPoll
         \/ \E ok \in BOOLEAN : TwtRequest(ok)
         \/ \E n \in Nodes : StartFails(n) \/ \E b \in BOOLEAN : Boot(n, b)

Next == \/ Steps
        \/ \E n \in Nodes : NodeAppears(n)
        \/ \E m, n \in Nodes : LinkUp(m, n)
        \/ \E l \in plinks : LinkDown(l)
        \/ ChipRestarts \/ LearnGate
        \/ \E f \in 0 .. Flows - 1, state \in -1 .. 1 : AgreementMoves(f, state)
        \/ \E b \in BOOLEAN : SendToGates(b)

\* The programs are the boards' own tasks, and every wait of theirs has a deadline.
Spec == Init /\ [][Next]_vars /\ WF_vars(Steps)

-----------------------------------------------------------------------------
(* Properties.                                                              *)

\* Type invariant.
FixturesTypeOK ==
    /\ app \in Apps /\ hop \in {"bridge", "route"}
    /\ up \subseteq Nodes /\ addr \subseteq Nodes /\ leaf \subseteq {"relay"}
    /\ plinks \subseteq SUBSET Nodes /\ flaps \in 0 .. MaxFlaps
    /\ pc \in [Nodes -> {"external", "off", "wait", "support", "ping", "window", "listen",
                        "learn", "count", "request", "agreement", "parked", "returned"}]
    /\ ping \in [sent : 0 .. PingCount, replies : 0 .. PingCount, ttl : {0, 63, 64},
                 ccmp : 0 .. PingCount]
    /\ chip \in [restarts : 0 .. MaxFlaps + 1, base : 0 .. MaxFlaps + 1, both : BOOLEAN]
    /\ gates \in [known : BOOLEAN, rx : 0 .. PingCount, intact : BOOLEAN]
    /\ log \in [Nodes -> Seq(Verdicts)]
    /\ truth \in [relayed : 0 .. PingCount, window : 0 .. MaxFlaps + 1]
    /\ sta \in [connected : BOOLEAN, flows : [0 .. Flows - 1 -> {-1, 0, 1}]]

\* A delivery that passes went where its fixture says: through the middle node of the line
\* in at least floor replies, over the hop the fixture is about (the allowlists keep the
\* ends from peering directly, the ttl tells a bridged packet from a routed one).
PassIsThrough ==
    log[R] = <<"PASS">> =>
        /\ P.does = "ping" /\ P.target = "dest" /\ app # "mesh-leaf" =>
               truth.relayed >= P.floor
        /\ app = "mesh-gate-bridge" => hop = "bridge"
        /\ app = "mesh-ap" => hop = "route"

\* The relay's verdict is about its window: restarts of the chip before it (the counter
\* lives since boot) do not fail it, and one inside it never passes.
WindowJudged ==
    app = "mesh-relay-nocrash" /\ log[R] # <<>> =>
        /\ log[R] = <<"PASS">> => truth.window = 0
        /\ log[R] = <<"FAIL">> => "relay" \notin up \/ truth.window > 0

\* Every reporter ends with exactly one RESULT line, whatever the rig does; only the gate of
\* mesh-gate-relay returns without one, when mmwlan_mesh_start fails.
VerdictComes ==
    <>[](Len(log[R]) = 1 \/ (app = "mesh-gate-relay" /\ pc[R] = "returned"))

=============================================================================
