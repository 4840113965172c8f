--------------------------- MODULE FixtureProofs ----------------------------
(***************************************************************************)
(* The fixtures' verdicts: what a RESULT line of the mesh and station       *)
(* fixtures (module MeshFixtures), of the chip-restart fixture              *)
(* (RestartFixtures) and of an IBSS node (IbssNode) says about the air, for *)
(* any number of echoes, flaps, moves of the radio and boards, and what the *)
(* reader of the RAW statistics (RawStats) prints of what the chip told.    *)
(***************************************************************************)
EXTENDS MeshFixtures, RestartFixtures, RawStats, IbssNode, SequenceTheorems,
        WellFoundedInduction, TLAPS

-----------------------------------------------------------------------------
(* THE MESH AND STATION FIXTURES.  Which program a node runs decides which  *)
(* node reports and what it does for it: the shapes of the programs come    *)
(* first, then an inductive invariant about the reporter, the replies and   *)
(* the window, then one lemma per action.                                   *)

Doings == {"ping", "window", "listen", "learn", "count", "request", "agreement"}

(* A program: who reports, whom it pings, who boots, and what each step     *)
(* of it does when it fails.                                                *)
ProgramRecord ==
  [reporter : Nodes, target : Nodes, boards : SUBSET Nodes, line : BOOLEAN,
   noStart : {"none", "FAIL"}, noAddr : {"go", "FAIL"},
   needs : {"relay-alone", "two", "relay", "any", "associated", "nothing"},
   noRig : {"go", "FAIL", "INCONCLUSIVE"}, does : Doings, floor : Nat \ {0}]

Shape(p, reporter, does) ==
  /\ p \in ProgramRecord
  /\ p.reporter = reporter /\ p.does = does /\ reporter \in p.boards
  /\ does = "ping" /\ p.target = "dest" => p.line

LEMMA RelayShape == Shape(RelayApp, "origin", "ping")
<1>1. RelayApp.boards = {"origin", "relay", "dest"}
  BY DEF RelayApp, Nodes
<1>2. ReplyFloor \in Nat \ {0}
  BY BoundsAssumption
<1> QED BY <1>1, <1>2 DEF RelayApp, Shape, ProgramRecord, Doings

LEMMA LineShapes ==
  /\ Shape(LargeFrameApp, "origin", "ping") /\ Shape(LeafApp, "origin", "ping")
  /\ Shape(NocrashApp, "relay", "window") /\ Shape(GateRelayApp, "dest", "listen")
  /\ NocrashApp.noStart = "FAIL" /\ NocrashApp.noAddr = "go" /\ NocrashApp.noRig = "go"
<1> DEFINE r == RelayApp
<1>1. r \in ProgramRecord /\ r.reporter = "origin" /\ r.does = "ping" /\ r.boards = Nodes
      /\ r.target = "dest" /\ r.line = TRUE
      /\ r.noStart = "FAIL" /\ r.noAddr = "go"
  BY RelayShape DEF Shape, RelayApp
<1> HIDE DEF r
<1>2. Shape(LargeFrameApp, "origin", "ping")
  BY RelayShape DEF LargeFrameApp
<1>3. Shape(LeafApp, "origin", "ping")
  <2>1. LeafApp = [r EXCEPT !.floor = 1]
    BY DEF LeafApp, r
  <2> QED BY <1>1, <2>1 DEF Shape, ProgramRecord
<1>4. Shape(NocrashApp, "relay", "window")
      /\ NocrashApp.noStart = "FAIL" /\ NocrashApp.noAddr = "go" /\ NocrashApp.noRig = "go"
  <2>1. NocrashApp = [r EXCEPT !.reporter = "relay", !.needs = "two", !.noRig = "go",
                      !.does = "window"]
    BY DEF NocrashApp, r
  <2> QED BY <1>1, <2>1 DEF Shape, ProgramRecord, Nodes, Doings
<1>5. Shape(GateRelayApp, "dest", "listen")
  <2>1. GateRelayApp = [r EXCEPT !.reporter = "dest", !.noStart = "none", !.needs = "nothing",
                        !.does = "listen"]
    BY DEF GateRelayApp, r
  <2> QED BY <1>1, <2>1 DEF Shape, ProgramRecord, Doings
<1> QED BY <1>2, <1>3, <1>4, <1>5

LEMMA LinuxShapes ==
  /\ Shape(LinuxApp, "origin", "ping") /\ Shape(GateLinuxApp, "origin", "learn")
  /\ Shape(PeeringApp, "origin", "count")
<1> DEFINE r == RelayApp
           x == LinuxApp
<1>1. r \in ProgramRecord /\ r.reporter = "origin" /\ r.does = "ping"
  BY RelayShape DEF Shape
<1>2. x = [r EXCEPT !.target = "relay", !.boards = {"origin"}, !.line = FALSE, !.needs = "relay"]
  BY DEF LinuxApp
<1>3. GateLinuxApp = [x EXCEPT !.noRig = "INCONCLUSIVE", !.does = "learn"]
      /\ PeeringApp = [x EXCEPT !.needs = "any", !.does = "count"]
  BY DEF GateLinuxApp, PeeringApp
<1> HIDE DEF r, x
<1>4. x \in ProgramRecord /\ x.reporter = "origin" /\ x.does = "ping" /\ x.boards = {"origin"}
      /\ x.target = "relay"
  BY <1>1, <1>2 DEF ProgramRecord, Nodes
<1>5. Shape(x, "origin", "ping")
  BY <1>4 DEF Shape
<1>6. Shape(GateLinuxApp, "origin", "learn") /\ Shape(PeeringApp, "origin", "count")
  BY <1>3, <1>4 DEF Shape, ProgramRecord, Doings
<1> QED BY <1>5, <1>6 DEF x

LEMMA GateShapes ==
  /\ Shape(GateNodeApp, "origin", "ping") /\ Shape(ApStaApp, "origin", "ping")
  /\ Shape(GateStaApp, "origin", "ping")
<1> DEFINE r == RelayApp
<1>1. r \in ProgramRecord /\ r.reporter = "origin" /\ r.does = "ping" /\ r.target = "dest"
      /\ r.line = TRUE
  BY RelayShape DEF Shape, RelayApp
<1>2. GateNodeApp = [r EXCEPT !.boards = {"origin"}, !.noAddr = "FAIL", !.needs = "any",
                     !.noRig = "INCONCLUSIVE"]
  BY DEF GateNodeApp
<1>3. ApStaApp = [r EXCEPT !.boards = {"origin"}, !.noAddr = "FAIL", !.needs = "associated"]
  BY DEF ApStaApp
<1> HIDE DEF r
<1>4. Shape(GateNodeApp, "origin", "ping") /\ Shape(ApStaApp, "origin", "ping")
  BY <1>1, <1>2, <1>3 DEF Shape, ProgramRecord, Nodes
<1> QED BY <1>4 DEF GateStaApp

LEMMA StationShapes ==
  /\ Shape(ApPingApp, "origin", "ping") /\ Shape(TwtApp, "origin", "request")
  /\ Shape(TwtAssocApp, "origin", "agreement")
<1> DEFINE r == ApStaApp
           x == ApPingApp
           t == TwtApp
<1>1. r \in ProgramRecord /\ r.reporter = "origin" /\ r.does = "ping" /\ "origin" \in r.boards
  BY GateShapes DEF Shape
<1>2. x = [r EXCEPT !.target = "relay", !.line = FALSE]
  BY DEF ApPingApp
<1>3. t = [x EXCEPT !.noAddr = "go", !.does = "request"]
  BY DEF TwtApp
<1>4. TwtAssocApp = [t EXCEPT !.does = "agreement"]
  BY DEF TwtAssocApp
<1> HIDE DEF r, x, t
<1>5. x \in ProgramRecord /\ x.reporter = "origin" /\ x.does = "ping" /\ "origin" \in x.boards
      /\ x.target = "relay"
  BY <1>1, <1>2 DEF ProgramRecord, Nodes
<1>6. t \in ProgramRecord /\ t.reporter = "origin" /\ t.does = "request" /\ "origin" \in t.boards
  BY <1>3, <1>5 DEF ProgramRecord, Doings
<1>7. Shape(TwtAssocApp, "origin", "agreement")
  BY <1>4, <1>6 DEF Shape, ProgramRecord, Doings
<1>8. Shape(x, "origin", "ping") /\ Shape(t, "origin", "request")
  BY <1>5, <1>6 DEF Shape
<1> QED BY <1>7, <1>8 DEF x, t

Pingers == {"mesh-relay", "mesh-large-frame", "mesh-leaf", "mesh-linux", "ap-sta-ping",
            "mesh-gate-b2", "mesh-gate-bridge", "mesh-ap"}

(* What the invariant needs to know of the fourteen programs.               *)
LEMMA ProgramShapes ==
  ASSUME NEW a \in Programs
  PROVE  /\ Program(a) \in ProgramRecord /\ Program(a).reporter \in Program(a).boards
         /\ Program(a).does = "ping" => Program(a).reporter = "origin"
            /\ (Program(a).target = "dest" => Program(a).line)
         /\ a \in {"mesh-ap", "mesh-gate-bridge"} => Program(a).does = "ping"
         /\ Program(a).does = "ping" => a \in Pingers
         /\ a = "mesh-relay-nocrash" =>
              /\ Program(a).reporter = "relay" /\ Program(a).does = "window"
              /\ Program(a).noStart = "FAIL" /\ Program(a).noAddr = "go"
                 /\ Program(a).noRig = "go"
<1> USE DEF Shape, Pingers
<1>1. CASE a \in {"mesh-relay", "mesh-large-frame", "mesh-leaf"}
  <2>1. Program(a) \in {RelayApp, LargeFrameApp, LeafApp}
    BY <1>1 DEF Program
  <2> QED BY <1>1, <2>1, RelayShape, LineShapes
<1>2. CASE a = "mesh-relay-nocrash"
  <2>1. Program(a) = NocrashApp
    BY <1>2 DEF Program
  <2> QED BY <1>2, <2>1, LineShapes
<1>3. CASE a \in {"mesh-gate-relay", "mesh-linux", "mesh-gate-linux", "mesh-peering"}
  <2>1. \/ Program(a) = LinuxApp /\ a = "mesh-linux"
        \/ Program(a) \in {GateRelayApp, GateLinuxApp, PeeringApp}
    BY <1>3 DEF Program
  <2> QED BY <1>3, <2>1, LineShapes, LinuxShapes
<1>4. CASE a \in {"mesh-gate-b2", "mesh-ap", "mesh-gate-bridge"}
  <2>1. Program(a) \in {GateNodeApp, ApStaApp, GateStaApp}
    BY <1>4 DEF Program
  <2> QED BY <1>4, <2>1, GateShapes
<1>5. CASE a \in {"ap-sta-ping", "twt", "twt-assoc"}
  <2>1. \/ Program(a) = ApPingApp /\ a = "ap-sta-ping"
        \/ Program(a) \in {TwtApp, TwtAssocApp}
    BY <1>5 DEF Program
  <2> QED BY <1>5, <2>1, StationShapes
<1> QED BY <1>1, <1>2, <1>3, <1>4, <1>5 DEF Programs
-----------------------------------------------------------------------------
PingRecord ==
  [sent : 0 .. PingCount, replies : 0 .. PingCount, ttl : {0, 63, 64}, ccmp : 0 .. PingCount]
ChipRecord == [restarts : 0 .. MaxFlaps + 1, base : 0 .. MaxFlaps + 1, both : BOOLEAN]
GatesRecord == [known : BOOLEAN, rx : 0 .. PingCount, intact : BOOLEAN]
HistoryRecord == [relayed : 0 .. PingCount, window : 0 .. MaxFlaps + 1]
StaRecord == [connected : BOOLEAN, flows : [0 .. Flows - 1 -> {-1, 0, 1}]]
Working == {"wait"} \cup Doings
Places == Working \cup {"external", "off", "support", "parked", "returned"}

MeshRecords ==
  /\ app \in Apps /\ hop \in {"bridge", "route"}
  /\ up \subseteq Nodes /\ addr \subseteq Nodes /\ leaf \subseteq {"relay"}
  /\ plinks \subseteq SUBSET Nodes /\ flaps \in 0 .. MaxFlaps
  /\ pc \in [Nodes -> Places] /\ log \in [Nodes -> Seq(Verdicts)]
  /\ ping \in PingRecord /\ chip \in ChipRecord /\ gates \in GatesRecord
  /\ truth \in HistoryRecord /\ sta \in StaRecord

(* Where the reporter is: in the one measurement its program makes, and     *)
(* its RESULT line not out before it is done.                               *)
ReporterStage ==
  /\ pc[R] \in Working \cup {"off", "parked", "returned"}
  /\ pc[R] \in Doings => pc[R] = P.does \/ (pc[R] = "agreement" /\ P.does = "request")
  /\ pc[R] # "parked" => log[R] = <<>>
  /\ log[R] \in {<<>>} \cup {<<v>> : v \in Verdicts}
  /\ pc[R] = "off" => R \notin up

(* A peering is one that both ends' allowlists let in.                      *)
LinksAllowed ==
  \A l \in plinks : \E m, n \in Nodes : l = {m, n} /\ m # n /\ Allows(m, n) /\ Allows(n, m)

(* A reply was sent for, came by the way the fixture was built with, and,   *)
(* for a program that pings over the line, was relayed.                     *)
RepliesTold ==
  /\ ping.replies <= ping.sent /\ ping.ccmp <= ping.sent
  /\ ping.replies > 0 => ping.ttl = IF hop = "bridge" THEN 64 ELSE 63
  /\ truth.relayed <= ping.replies
  /\ P.does = "ping" /\ P.target = "dest" => truth.relayed = ping.replies

(* The chip's restarts since the window opened are what the relay's         *)
(* counter gained; none are counted before that.                            *)
WindowCounted ==
  /\ truth.window <= chip.restarts
  /\ pc[R] \in {"off", "wait"} => truth.window = 0
  /\ pc[R] = "window" => chip.restarts = chip.base + truth.window

(* Neither verdict property is inductive alone: a PASS stands on the        *)
(* counters at the moment it is given, so these have to be tied to the      *)
(* history all along.                                                       *)
MeshInv ==
  /\ MeshRecords /\ ReporterStage /\ LinksAllowed /\ RepliesTold /\ WindowCounted
  /\ PassIsThrough /\ WindowJudged

(* The reporter of a run, as its program says.                              *)
LEMMA Reported ==
  ASSUME MeshInv
  PROVE  /\ P \in ProgramRecord /\ R \in Nodes /\ R \in P.boards /\ R = P.reporter
         /\ P.does = "ping" => R = "origin" /\ (P.target = "dest" => P.line)
         /\ app \in {"mesh-ap", "mesh-gate-bridge"} => P.does = "ping"
         /\ P.does = "ping" => app \in Pingers
         /\ app = "mesh-relay-nocrash" =>
              /\ R = "relay" /\ P.does = "window"
              /\ P.noStart = "FAIL" /\ P.noAddr = "go" /\ P.noRig = "go"
<1>1. app \in Programs
  BY BoundsAssumption DEF MeshInv, MeshRecords
<1>2. P \in ProgramRecord /\ R = P.reporter
  BY <1>1, ProgramShapes DEF P, R
<1> QED BY <1>1, <1>2, ProgramShapes DEF P, ProgramRecord

LEMMA MeshTyped == MeshInv => FixturesTypeOK /\ PassIsThrough /\ WindowJudged
<1> SUFFICES ASSUME MeshInv
             PROVE  FixturesTypeOK
  BY DEF MeshInv
<1>1. Places = {"external", "off", "wait", "support", "ping", "window", "listen",
                "learn", "count", "request", "agreement", "parked", "returned"}
  BY DEF Places, Working, Doings
<1> QED BY <1>1 DEF MeshInv, MeshRecords, FixturesTypeOK, PingRecord, ChipRecord,
     GatesRecord, HistoryRecord, StaRecord

LEMMA MeshInvInit == Init => MeshInv
<1> SUFFICES ASSUME Init
             PROVE  MeshInv
  OBVIOUS
<1> USE DEF Init
<1>1. app \in Programs
  BY BoundsAssumption
<1>2. P \in ProgramRecord /\ R \in Nodes /\ R \in P.boards
  BY <1>1, ProgramShapes DEF P, R, ProgramRecord
<1>3. MeshRecords
  <2>1. pc \in [Nodes -> Places]
    BY DEF Places
  <2>2. log \in [Nodes -> Seq(Verdicts)]
    OBVIOUS
  <2>3. ping \in PingRecord /\ gates \in GatesRecord
    BY BoundsAssumption DEF PingRecord, GatesRecord
  <2>4. chip \in ChipRecord /\ truth \in HistoryRecord
    BY BoundsAssumption DEF ChipRecord, HistoryRecord
  <2>5. sta \in StaRecord
    BY DEF StaRecord
  <2>6. flaps \in 0 .. MaxFlaps
    BY BoundsAssumption
  <2> QED BY <2>1, <2>3, <2>4, <2>5, <2>6 DEF MeshRecords
<1>4. pc[R] = "off" /\ log[R] = <<>>
  BY <1>2
<1>5. ReporterStage /\ LinksAllowed
  BY <1>4 DEF ReporterStage, LinksAllowed, Doings
<1>6. RepliesTold /\ WindowCounted
  BY DEF RepliesTold, WindowCounted
<1>7. PassIsThrough /\ WindowJudged
  BY <1>4 DEF PassIsThrough, WindowJudged
<1> QED BY <1>3, <1>5, <1>6, <1>7 DEF MeshInv

(* What a step away from the reporter's business leaves alone, part by      *)
(* part.                                                                    *)
LEMMA StageKeeps ==
  ASSUME MeshInv, app' = app, pc'[R] = pc[R], log'[R] = log[R], pc[R] = "off" => R \notin up'
  PROVE  ReporterStage'
<1>1. P' = P /\ R' = R
  BY DEF P, R
<1> QED BY <1>1 DEF MeshInv, ReporterStage

LEMMA LinksKeep ==
  ASSUME MeshInv, app' = app, plinks' \subseteq plinks
  PROVE  LinksAllowed'
<1>1. P' = P
  BY DEF P
<1> QED BY <1>1 DEF MeshInv, LinksAllowed, Allows

LEMMA CountsKeep ==
  ASSUME MeshInv, UNCHANGED <<app, hop, ping, truth>>, chip'.restarts = chip.restarts,
         (pc'[R] = pc[R] /\ chip' = chip) \/ pc'[R] \notin {"off", "wait", "window"}
  PROVE  RepliesTold' /\ WindowCounted'
<1>1. P' = P /\ R' = R
  BY DEF P, R
<1>2. RepliesTold'
  BY <1>1 DEF MeshInv, RepliesTold
<1> QED BY <1>1, <1>2 DEF MeshInv, WindowCounted

LEMMA JudgedKeeps ==
  ASSUME MeshInv, UNCHANGED <<app, hop>>, log'[R] = log[R],
         log[R] # <<>> => truth' = truth /\ (R \in up' => R \in up)
  PROVE  PassIsThrough' /\ WindowJudged'
<1>1. P' = P /\ R' = R
  BY DEF P, R
<1>2. CASE log[R] = <<>>
  BY <1>1, <1>2 DEF PassIsThrough, WindowJudged
<1>3. CASE log[R] # <<>>
  <2>1. truth' = truth /\ (R \in up' => R \in up) /\ app' = app /\ hop' = hop
    BY <1>3
  <2>2. PassIsThrough'
    BY <1>1, <2>1 DEF MeshInv, PassIsThrough
  <2>3. WindowJudged'
    BY <1>1, <2>1, Reported DEF MeshInv, WindowJudged
  <2> QED BY <2>2, <2>3
<1> QED BY <1>2, <1>3

(* A verdict of the reporter. *)
LEMMA ReporterDone ==
  ASSUME MeshInv, NEW v \in Verdicts, Report(R, v), pc[R] \notin {"parked", "returned"},
         UNCHANGED <<app, hop, plinks, flaps, ping, gates, truth, sta>>,
         chip' \in ChipRecord, chip'.restarts = chip.restarts,
         up' \subseteq Nodes, addr' \subseteq Nodes, leaf' \subseteq {"relay"},
         v = "PASS" /\ P.does = "ping" =>
           /\ P.target = "dest" /\ app # "mesh-leaf" => truth.relayed >= P.floor
           /\ app = "mesh-gate-bridge" => hop = "bridge"
           /\ app = "mesh-ap" => hop = "route",
         app = "mesh-relay-nocrash" =>
           /\ v = "PASS" => truth.window = 0
           /\ v = "FAIL" => "relay" \notin up' \/ truth.window > 0
  PROVE  MeshInv'
<1>1. P' = P /\ R' = R
  BY DEF P, R
<1>2. log[R] = <<>>
  BY DEF MeshInv, ReporterStage
<1>3. /\ log' \in [Nodes -> Seq(Verdicts)] /\ log'[R] = <<v>>
      /\ pc' \in [Nodes -> Places] /\ pc'[R] = "parked"
  <2>1. /\ log' = [log EXCEPT ![R] = Append(log[R], v)] /\ pc' = [pc EXCEPT ![R] = "parked"]
    BY DEF Report, Goto
  <2>2. Append(log[R], v) = <<v>> /\ <<v>> \in Seq(Verdicts)
    BY <1>2
  <2>3. log \in [Nodes -> Seq(Verdicts)] /\ pc \in [Nodes -> Places] /\ R \in Nodes
    BY Reported DEF MeshInv, MeshRecords
  <2> QED BY <2>1, <2>2, <2>3 DEF Places
<1>4. MeshRecords'
  BY <1>3 DEF MeshInv, MeshRecords
<1>5. ReporterStage'
  BY <1>1, <1>3 DEF ReporterStage, Doings
<1>6. LinksAllowed' /\ RepliesTold' /\ WindowCounted'
  BY <1>3, LinksKeep, CountsKeep
<1>7. PassIsThrough' /\ WindowJudged'
  <2>1. <<v>> # <<>> /\ (<<v>> = <<"PASS">> => v = "PASS") /\ (<<v>> = <<"FAIL">> => v = "FAIL")
    OBVIOUS
  <2> QED BY <1>1, <1>3, Reported DEF PassIsThrough, WindowJudged
<1> QED BY <1>4, <1>5, <1>6, <1>7 DEF MeshInv

(* The reporter goes on to its measurement, or leaves without a line. *)
LEMMA ReporterGoes ==
  ASSUME MeshInv, NEW where \in Working \cup {"returned"}, Goto(R, where),
         pc[R] \notin {"parked", "returned"},
         where \in Doings => where = P.does \/ (where = "agreement" /\ P.does = "request"),
         UNCHANGED <<app, hop, plinks, flaps, ping, gates, log, truth, sta>>,
         up' \subseteq Nodes, addr' \subseteq Nodes, leaf' \subseteq {"relay"},
         chip' \in ChipRecord, chip'.restarts = chip.restarts,
         where = "window" => truth.window = 0 /\ chip'.base = chip.restarts,
         where = "wait" => truth.window = 0
  PROVE  MeshInv'
<1>1. P' = P /\ R' = R
  BY DEF P, R
<1>2. log[R] = <<>>
  BY DEF MeshInv, ReporterStage
<1>3. pc' \in [Nodes -> Places] /\ pc'[R] = where
  <2>1. pc \in [Nodes -> Places] /\ R \in Nodes /\ where \in Places
    BY Reported DEF MeshInv, MeshRecords, Places
  <2> QED BY <2>1 DEF Goto
<1>4. MeshRecords'
  BY <1>3 DEF MeshInv, MeshRecords
<1>5. ReporterStage'
  BY <1>1, <1>2, <1>3 DEF ReporterStage, Working, Doings
<1>6. LinksAllowed'
  BY LinksKeep
<1>7. RepliesTold'
  BY <1>1 DEF MeshInv, RepliesTold
<1>8. WindowCounted'
  <2>1. chip.restarts \in Nat /\ truth.window \in Nat
    BY DEF MeshInv, MeshRecords, ChipRecord, HistoryRecord
  <2>2. truth.window <= chip.restarts
    BY DEF MeshInv, WindowCounted
  <2>3. CASE where = "window"
    <3>1. truth'.window = 0 /\ chip'.restarts = chip.restarts /\ chip'.base = chip.restarts
      BY <2>3
    <3>2. chip'.restarts = chip'.base + truth'.window /\ truth'.window <= chip'.restarts
      BY <2>1, <3>1
    <3> QED BY <2>3, <3>2 DEF WindowCounted
  <2>4. CASE where # "window"
    BY <1>1, <1>3, <2>2, <2>4 DEF WindowCounted, Working, Doings
  <2> QED BY <2>3, <2>4
<1>9. PassIsThrough' /\ WindowJudged'
  BY <1>2, JudgedKeeps
<1> QED BY <1>4, <1>5, <1>6, <1>7, <1>8, <1>9 DEF MeshInv

(* A step of the rig. *)
LEMMA RigMoves ==
  ASSUME MeshInv, MeshRecords', UNCHANGED <<app, hop, ping, chip, truth>>,
         plinks' \subseteq plinks \/ LinksAllowed',
         pc'[R] = pc[R], log'[R] = log[R], R \in up' => R \in up
  PROVE  MeshInv'
<1>1. LinksAllowed'
  BY LinksKeep
<1>2. ReporterStage'
  <2>1. pc[R] = "off" => R \notin up'
    BY DEF MeshInv, ReporterStage
  <2> QED BY <2>1, StageKeeps
<1>3. RepliesTold' /\ WindowCounted'
  BY CountsKeep
<1>4. PassIsThrough' /\ WindowJudged'
  BY JudgedKeeps
<1> QED BY <1>1, <1>2, <1>3, <1>4 DEF MeshInv

-----------------------------------------------------------------------------
LEMMA MsNodeAppears ==
  ASSUME MeshInv, NEW n \in Nodes, NodeAppears(n)
  PROVE  MeshInv'
<1>1. R # n
  BY DEF MeshInv, ReporterStage, NodeAppears, Working, Doings
<1>2. MeshRecords'
  BY DEF MeshInv, MeshRecords, NodeAppears
<1> QED BY <1>1, <1>2, RigMoves DEF NodeAppears

LEMMA MsBoot ==
  ASSUME MeshInv, NEW n \in Nodes, NEW pinned \in BOOLEAN, Boot(n, pinned)
  PROVE  MeshInv'
<1>1. /\ up' \subseteq Nodes /\ addr' \subseteq Nodes /\ leaf' \subseteq {"relay"}
         /\ pc[n] = "off"
      /\ UNCHANGED <<app, hop, plinks, flaps, ping, chip, gates, truth, sta>>
  BY DEF MeshInv, MeshRecords, Boot
<1>2. CASE n # R
  <2>1. pc' = [pc EXCEPT ![n] = "support"] /\ log' = log /\ up' = up \cup {n}
    BY <1>2 DEF Boot, Goto
  <2>2. MeshRecords'
    <3>1. pc' \in [Nodes -> Places]
      BY <2>1 DEF MeshInv, MeshRecords, Places
    <3> QED BY <1>1, <2>1, <3>1 DEF MeshInv, MeshRecords
  <2>3. pc'[R] = pc[R]
    BY <1>2, <2>1
  <2> QED BY <1>1, <1>2, <2>1, <2>2, RigMoves
<1>3. CASE n = R /\ ~pinned /\ P.noAddr # "go"
  <2>1. Report(R, P.noAddr)
    BY <1>3 DEF Boot
  <2>2. P.noAddr = "FAIL" /\ app # "mesh-relay-nocrash"
    BY <1>3, Reported DEF ProgramRecord
  <2> QED BY <1>1, <1>3, <2>1, <2>2, ReporterDone DEF MeshInv, MeshRecords, Verdicts
<1>4. CASE n = R /\ (pinned \/ P.noAddr = "go")
  <2>1. Goto(R, "wait") /\ UNCHANGED log
    BY <1>4 DEF Boot
  <2>2. truth.window = 0
    BY <1>1, <1>4 DEF MeshInv, WindowCounted
  <2> QED BY <1>1, <1>4, <2>1, <2>2, ReporterGoes DEF MeshInv, MeshRecords, Working, Doings
<1> QED BY <1>2, <1>3, <1>4

LEMMA MsStartFails ==
  ASSUME MeshInv, NEW n \in Nodes, StartFails(n)
  PROVE  MeshInv'
<1>1. /\ pc[n] = "off" /\ GiveUp(n, P.noStart)
      /\ UNCHANGED <<app, hop, up, addr, plinks, flaps, leaf, ping, chip, gates, truth, sta>>
  BY DEF StartFails
<1>2. P.noStart \in {"none", "FAIL"} /\ log \in [Nodes -> Seq(Verdicts)]
      /\ pc \in [Nodes -> Places]
  BY Reported DEF ProgramRecord, MeshInv, MeshRecords
<1>3. CASE n # R
  <2>1. /\ log' \in [Nodes -> Seq(Verdicts)] /\ log'[R] = log[R]
        /\ pc' \in [Nodes -> Places] /\ pc'[R] = pc[R]
    <3>1. CASE P.noStart = "none"
      BY <1>1, <1>2, <1>3, <3>1, Reported DEF GiveUp, Goto, Places
    <3>2. CASE P.noStart = "FAIL"
      <4>1. log' = [log EXCEPT ![n] = Append(log[n], "FAIL")] /\ pc' = [pc EXCEPT ![n] = "parked"]
        BY <1>1, <3>2 DEF GiveUp, Report, Goto
      <4>2. Append(log[n], "FAIL") \in Seq(Verdicts)
        BY <1>2 DEF Verdicts
      <4> QED BY <1>2, <1>3, <4>1, <4>2 DEF Places
    <3> QED BY <1>2, <3>1, <3>2
  <2>2. MeshRecords'
    BY <1>1, <2>1 DEF MeshInv, MeshRecords
  <2> QED BY <1>1, <2>1, <2>2, RigMoves
<1>4. CASE n = R /\ P.noStart = "none"
  <2>1. Goto(R, "returned") /\ UNCHANGED log
    BY <1>1, <1>4 DEF GiveUp
  <2> QED BY <1>1, <1>4, <2>1, ReporterGoes DEF MeshInv, MeshRecords, Doings
<1>5. CASE n = R /\ P.noStart = "FAIL"
  <2>1. Report(R, "FAIL")
    BY <1>1, <1>5 DEF GiveUp
  <2>2. R \notin up'
    BY <1>1, <1>5 DEF MeshInv, ReporterStage
  <2>3. app = "mesh-relay-nocrash" => "relay" \notin up'
    BY <2>2, Reported
  <2> QED BY <1>1, <1>5, <2>1, <2>3, ReporterDone DEF MeshInv, MeshRecords, Verdicts
<1> QED BY <1>2, <1>3, <1>4, <1>5

LEMMA MsLinkUp ==
  ASSUME MeshInv, NEW m \in Nodes, NEW n \in Nodes, LinkUp(m, n)
  PROVE  MeshInv'
<1>1. /\ UNCHANGED <<app, hop, up, addr, flaps, leaf, pc, ping, chip, gates, log, truth>>
      /\ m # n /\ Allows(m, n) /\ Allows(n, m) /\ plinks' = plinks \cup {{m, n}}
  BY DEF LinkUp
<1>2. sta' \in StaRecord
  <2> DEFINE c == sta.connected \/ (P.needs = "associated" /\ R \in {m, n})
  <2>1. sta' = [sta EXCEPT !.connected = c]
    BY DEF LinkUp
  <2>2. c \in BOOLEAN
    BY Zenon
  <2> HIDE DEF c
  <2> QED BY <2>1, <2>2 DEF MeshInv, MeshRecords, StaRecord
<1>3. MeshRecords'
  BY <1>1, <1>2 DEF MeshInv, MeshRecords
<1>4. LinksAllowed'
  <2>1. P' = P
    BY <1>1 DEF P
  <2>2. ASSUME NEW a \in Nodes, NEW b \in Nodes
        PROVE  Allows(a, b)' <=> Allows(a, b)
    BY <2>1 DEF Allows
  <2>3. ASSUME NEW l \in plinks'
        PROVE  \E a, b \in Nodes : l = {a, b} /\ a # b /\ Allows(a, b) /\ Allows(b, a)
    BY <1>1 DEF MeshInv, LinksAllowed
  <2> QED BY <2>2, <2>3 DEF LinksAllowed
<1> QED BY <1>1, <1>3, <1>4, RigMoves

LEMMA MsLinkDown ==
  ASSUME MeshInv, NEW l \in plinks, LinkDown(l)
  PROVE  MeshInv'
<1>1. /\ UNCHANGED <<app, hop, up, addr, leaf, pc, ping, chip, gates, log, truth, sta>>
      /\ plinks' \subseteq plinks
  BY DEF LinkDown
<1>2. flaps' \in 0 .. MaxFlaps
  BY BoundsAssumption DEF LinkDown, MeshInv, MeshRecords
<1>3. MeshRecords'
  BY <1>1, <1>2 DEF MeshInv, MeshRecords
<1> QED BY <1>1, <1>3, RigMoves

LEMMA MsWaitEnds ==
  ASSUME MeshInv, WaitEnds
  PROVE  MeshInv'
<1>1. /\ pc[R] = "wait" /\ UNCHANGED <<app, hop, up, addr, plinks, flaps, leaf, ping, gates,
         truth, sta>>
      /\ chip' = [chip EXCEPT !.base = chip.restarts, !.both = Ready]
  BY DEF WaitEnds
<1>2. chip' \in ChipRecord /\ chip'.restarts = chip.restarts /\ chip'.base = chip.restarts
  <2>1. Ready \in BOOLEAN
    <3>1. sta.connected \in BOOLEAN
      BY DEF MeshInv, MeshRecords, StaRecord
    <3>2. P.needs \in {"relay-alone", "two", "relay", "any", "associated", "nothing"}
      BY Reported DEF ProgramRecord
    <3>3. CASE P.needs = "relay-alone"
      BY <3>3 DEF Ready
    <3>4. CASE P.needs = "two"
      BY <3>4 DEF Ready
    <3>5. CASE P.needs = "relay"
      BY <3>5 DEF Ready
    <3>6. CASE P.needs = "any"
      BY <3>6 DEF Ready
    <3>7. CASE P.needs = "associated"
      BY <3>1, <3>7 DEF Ready
    <3>8. CASE P.needs = "nothing"
      BY <3>8 DEF Ready
    <3> QED BY <3>2, <3>3, <3>4, <3>5, <3>6, <3>7, <3>8
  <2> QED BY <1>1, <2>1 DEF MeshInv, MeshRecords, ChipRecord
<1>3. CASE Goto(R, P.does) /\ UNCHANGED log
  <2>1. truth.window = 0
    BY <1>1 DEF MeshInv, WindowCounted
  <2>2. P.does \in Doings
    BY Reported DEF ProgramRecord
  <2> QED BY <1>1, <1>2, <1>3, <2>1, <2>2, ReporterGoes DEF MeshInv, MeshRecords, Working
<1>4. CASE ~(Ready \/ P.noRig = "go")
  <2>1. Report(R, P.noRig) /\ app # "mesh-relay-nocrash" /\ P.noRig \in {"FAIL", "INCONCLUSIVE"}
    BY <1>4, Reported DEF WaitEnds, GiveUp, ProgramRecord
  <2> QED BY <1>1, <1>2, <2>1, ReporterDone DEF MeshInv, MeshRecords, Verdicts
<1>5. CASE Ready \/ P.noRig = "go"
  BY <1>3, <1>5 DEF WaitEnds
<1> QED BY <1>4, <1>5

LEMMA MsPingOne ==
  ASSUME MeshInv, NEW answer \in {"reply", "mic", "lost"}, PingOne(answer)
  PROVE  MeshInv'
<1>1. /\ pc[R] = "ping" /\ ping.sent < PingCount
      /\ UNCHANGED <<app, hop, up, addr, plinks, flaps, leaf, pc, chip, gates, log, sta>>
  BY DEF PingOne
<1>2. P' = P /\ R' = R
  BY <1>1 DEF P, R
<1>3. /\ ping \in PingRecord /\ truth \in HistoryRecord
      /\ ping.replies <= ping.sent /\ ping.ccmp <= ping.sent /\ truth.relayed <= ping.replies
  BY DEF MeshInv, MeshRecords, RepliesTold
<1>4. ping' \in PingRecord
  <2>1. /\ ping.sent + 1 \in 0 .. PingCount
        /\ (IF answer = "reply" THEN ping.replies + 1 ELSE ping.replies) \in 0 .. PingCount
        /\ (IF answer = "mic" THEN ping.ccmp + 1 ELSE ping.ccmp) \in 0 .. PingCount
    BY <1>1, <1>3, BoundsAssumption DEF PingRecord
  <2>2. (IF answer # "reply" THEN ping.ttl ELSE IF hop = "bridge" THEN 64 ELSE 63) \in {0, 63, 64}
    BY <1>3 DEF PingRecord
  <2> QED BY <2>1, <2>2 DEF PingOne, PingRecord
<1>5. /\ ping'.sent = ping.sent + 1
      /\ ping'.replies = IF answer = "reply" THEN ping.replies + 1 ELSE ping.replies
      /\ ping'.ttl = IF answer # "reply" THEN ping.ttl ELSE IF hop = "bridge" THEN 64 ELSE 63
      /\ ping'.ccmp = IF answer = "mic" THEN ping.ccmp + 1 ELSE ping.ccmp
  BY DEF PingOne
<1>6. /\ truth' \in HistoryRecord /\ truth'.window = truth.window
      /\ truth'.relayed = IF answer = "reply" /\ {R, P.target} \notin plinks
                          THEN truth.relayed + 1 ELSE truth.relayed
  <2>1. CASE answer = "reply" /\ {R, P.target} \notin plinks
    <3>1. truth' = [truth EXCEPT !.relayed = truth.relayed + 1]
      BY <2>1 DEF PingOne
    <3>2. truth.relayed + 1 \in 0 .. PingCount
      BY <1>1, <1>3, BoundsAssumption DEF PingRecord, HistoryRecord
    <3> QED BY <1>3, <2>1, <3>1, <3>2 DEF HistoryRecord
  <2>2. CASE ~(answer = "reply" /\ {R, P.target} \notin plinks)
    BY <1>3, <2>2 DEF PingOne
  <2> QED BY <2>1, <2>2
<1>7. MeshRecords'
  BY <1>1, <1>4, <1>6 DEF MeshInv, MeshRecords
<1>8. P.does = "ping" /\ P.target = "dest" => {R, P.target} \notin plinks
  <2> SUFFICES ASSUME P.does = "ping", P.target = "dest", {R, P.target} \in plinks
               PROVE  FALSE
    OBVIOUS
  <2>1. R = "origin" /\ P.line
    BY Reported
  <2>2. PICK m \in Nodes, n \in Nodes : {"origin", "dest"} = {m, n} /\ m # n /\ Allows(m, n)
             /\ Allows(n, m)
    BY <2>1 DEF MeshInv, LinksAllowed
  <2>3. (m = "origin" /\ n = "dest") \/ (m = "dest" /\ n = "origin")
    BY <2>2
  <2> QED BY <2>1, <2>2 DEF Allows, Neighbours
<1>9. RepliesTold'
  <2>1. /\ ping'.replies <= ping'.sent /\ ping'.ccmp <= ping'.sent
           /\ truth'.relayed <= ping'.replies
    BY <1>3, <1>5, <1>6 DEF PingRecord, HistoryRecord
  <2>2. ping'.replies > 0 => ping'.ttl = IF hop = "bridge" THEN 64 ELSE 63
    BY <1>5 DEF MeshInv, RepliesTold
  <2>3. P.does = "ping" /\ P.target = "dest" => truth'.relayed = ping'.replies
    BY <1>5, <1>6, <1>8 DEF MeshInv, RepliesTold
  <2> QED BY <1>1, <1>2, <2>1, <2>2, <2>3 DEF RepliesTold
<1>10. log[R] = <<>>
  BY <1>1 DEF MeshInv, ReporterStage
<1>11. ReporterStage' /\ LinksAllowed'
  BY <1>1, StageKeeps, LinksKeep
<1>12. WindowCounted'
  BY <1>1, <1>2, <1>6 DEF MeshInv, WindowCounted
<1>13. PassIsThrough' /\ WindowJudged'
  BY <1>1, <1>10, JudgedKeeps
<1> QED BY <1>7, <1>9, <1>11, <1>12, <1>13 DEF MeshInv

LEMMA MsChipRestarts ==
  ASSUME MeshInv, ChipRestarts
  PROVE  MeshInv'
<1>1. UNCHANGED <<app, hop, up, addr, plinks, flaps, leaf, pc, ping, gates, log, sta>>
  BY DEF ChipRestarts
<1>2. P' = P /\ R' = R
  BY <1>1 DEF P, R
<1>3. /\ chip \in ChipRecord /\ truth \in HistoryRecord /\ chip.restarts \in Nat
         /\ chip.base \in Nat
      /\ truth.window \in Nat /\ truth.window <= chip.restarts /\ chip.restarts <= MaxFlaps
  BY DEF MeshInv, MeshRecords, WindowCounted, ChipRestarts, ChipRecord, HistoryRecord
<1>4. chip.restarts + 1 \in 0 .. MaxFlaps + 1 /\ truth.window + 1 \in 0 .. MaxFlaps + 1
  BY <1>3, BoundsAssumption
<1>5. chip' \in ChipRecord /\ chip'.restarts = chip.restarts + 1 /\ chip'.base = chip.base
  BY <1>3, <1>4 DEF ChipRestarts, ChipRecord
<1>6. /\ truth' \in HistoryRecord /\ truth'.relayed = truth.relayed
      /\ truth'.window = IF pc[R] = "window" THEN truth.window + 1 ELSE truth.window
  <2>1. CASE pc[R] = "window"
    <3>1. truth' = [truth EXCEPT !.window = truth.window + 1]
      BY <2>1 DEF ChipRestarts
    <3> QED BY <1>3, <1>4, <2>1, <3>1 DEF HistoryRecord
  <2>2. CASE pc[R] # "window"
    BY <1>3, <2>2 DEF ChipRestarts
  <2> QED BY <2>1, <2>2
<1>7. MeshRecords'
  BY <1>1, <1>5, <1>6 DEF MeshInv, MeshRecords
<1>8. RepliesTold'
  BY <1>1, <1>2, <1>6 DEF MeshInv, RepliesTold
<1>9. WindowCounted'
  <2>1. CASE pc[R] = "window"
    BY <1>1, <1>2, <1>3, <1>5, <1>6 DEF MeshInv, WindowCounted
  <2>2. CASE pc[R] # "window"
    BY <1>1, <1>2, <1>3, <1>5, <1>6 DEF MeshInv, WindowCounted
  <2> QED BY <2>1, <2>2
<1>10. log[R] # <<>> => truth' = truth
  BY DEF MeshInv, ReporterStage, ChipRestarts
<1>11. ReporterStage' /\ LinksAllowed'
  BY <1>1, StageKeeps, LinksKeep DEF MeshInv, ReporterStage
<1>12. PassIsThrough' /\ WindowJudged'
  BY <1>1, <1>10, JudgedKeeps
<1> QED BY <1>7, <1>8, <1>9, <1>11, <1>12 DEF MeshInv

LEMMA MsGates ==
  ASSUME MeshInv, LearnGate \/ \E b \in BOOLEAN : SendToGates(b)
  PROVE  MeshInv'
<1>1. UNCHANGED <<app, hop, up, addr, plinks, flaps, leaf, pc, ping, chip, log, truth, sta>>
  BY DEF LearnGate, SendToGates
<1>2. gates' \in GatesRecord
  <2>1. CASE LearnGate
    BY <2>1 DEF LearnGate, MeshInv, MeshRecords, GatesRecord
  <2>2. ASSUME NEW b \in BOOLEAN, SendToGates(b)
        PROVE  gates' \in GatesRecord
    <3>1. gates.rx < PingCount /\ gates.rx \in 0 .. PingCount
      BY <2>2 DEF SendToGates, MeshInv, MeshRecords, GatesRecord
    <3>2. gates.rx + 1 \in 0 .. PingCount
      BY <3>1, BoundsAssumption
    <3> QED BY <2>2, <3>2 DEF SendToGates, MeshInv, MeshRecords, GatesRecord
  <2> QED BY <2>1, <2>2
<1>3. MeshRecords'
  BY <1>1, <1>2 DEF MeshInv, MeshRecords
<1> QED BY <1>1, <1>3, RigMoves

LEMMA MsAgreementMoves ==
  ASSUME MeshInv, NEW f \in 0 .. Flows - 1, NEW state \in -1 .. 1, AgreementMoves(f, state)
  PROVE  MeshInv'
<1>1. UNCHANGED <<app, hop, up, addr, plinks, flaps, leaf, pc, ping, chip, gates, log, truth>>
  BY DEF AgreementMoves
<1>2. sta' \in StaRecord
  <2>1. sta' = [sta EXCEPT !.flows = [sta.flows EXCEPT ![f] = state]]
    BY DEF AgreementMoves
  <2>2. state \in {-1, 0, 1}
    OBVIOUS
  <2> QED BY <2>1, <2>2 DEF MeshInv, MeshRecords, StaRecord
<1>3. MeshRecords'
  BY <1>1, <1>2 DEF MeshInv, MeshRecords
<1> QED BY <1>1, <1>3, RigMoves

-----------------------------------------------------------------------------
(* The verdicts. *)
LEMMA PingPasses ==
  ASSUME MeshInv, P.does = "ping"
  PROVE  /\ PingVerdict \in Verdicts
         /\ PingVerdict = "PASS" =>
              /\ P.target = "dest" /\ app # "mesh-leaf" => truth.relayed >= P.floor
              /\ app = "mesh-gate-bridge" => hop = "bridge"
              /\ app = "mesh-ap" => hop = "route"
<1>1. app \in Pingers /\ hop \in {"bridge", "route"}
  BY Reported DEF MeshInv, MeshRecords
<1>2. /\ P.floor \in Nat \ {0} /\ ping.replies \in Nat
      /\ P.target = "dest" => truth.relayed = ping.replies
      /\ ping.replies > 0 => ping.ttl = IF hop = "bridge" THEN 64 ELSE 63
  BY Reported DEF ProgramRecord, MeshInv, MeshRecords, PingRecord, RepliesTold
<1> DEFINE d == Delivered(P.floor)
<1>3. d \in Verdicts /\ (d = "PASS" => ping.replies >= P.floor /\ ping.replies > 0)
  BY <1>2 DEF Delivered, Verdicts
<1> DEFINE w(ttl) == IF ping.replies > 0 /\ ping.ttl # ttl THEN "INCONCLUSIVE" ELSE d
<1>4. /\ app \in {"mesh-relay", "mesh-large-frame"} => PingVerdict \in {"FAIL", d}
      /\ app = "mesh-leaf" => PingVerdict \in {"PASS", "FAIL"}
      /\ app \in {"mesh-linux", "ap-sta-ping", "mesh-gate-b2"} => PingVerdict = d
      /\ app = "mesh-gate-bridge" => PingVerdict = w(64)
      /\ app = "mesh-ap" => PingVerdict = w(63)
  BY DEF PingVerdict, RelayVerdict, LargeFrameVerdict, LeafVerdict, LinuxVerdict,
     ApPingVerdict, GateNodeVerdict, GateStaVerdict, ApStaVerdict, WithTtl
<1> HIDE DEF d
<1>5. PingVerdict \in Verdicts
  BY <1>1, <1>3, <1>4 DEF Pingers, Verdicts
<1>6. PingVerdict = "PASS" /\ app # "mesh-leaf" => d = "PASS"
  BY <1>1, <1>4 DEF Pingers
<1>7. PingVerdict = "PASS" /\ app = "mesh-gate-bridge" => ping.ttl = 64
  BY <1>3, <1>4
<1>8. PingVerdict = "PASS" /\ app = "mesh-ap" => ping.ttl = 63
  BY <1>3, <1>4
<1> QED BY <1>1, <1>2, <1>3, <1>5, <1>6, <1>7, <1>8

LEMMA MsSession ==
  ASSUME MeshInv, SessionFails \/ SessionEnds
  PROVE  MeshInv'
<1>1. /\ pc[R] = "ping" /\ UNCHANGED <<app, hop, up, addr, plinks, flaps, leaf, ping, chip,
         gates, truth, sta>>
  BY DEF SessionFails, SessionEnds
<1>2. P.does = "ping" /\ app # "mesh-relay-nocrash"
  <2>1. P.does = "ping"
    BY <1>1 DEF MeshInv, ReporterStage, Doings
  <2> QED BY <2>1, Reported
<1>3. CASE SessionFails
  <2>1. Report(R, "FAIL")
    BY <1>3 DEF SessionFails
  <2> QED BY <1>1, <1>2, <2>1, ReporterDone DEF MeshInv, MeshRecords, Verdicts
<1>4. CASE SessionEnds
  <2>1. Report(R, PingVerdict)
    BY <1>4 DEF SessionEnds
  <2>2. PingVerdict \in Verdicts
    BY <1>2, PingPasses
  <2> QED BY <1>1, <1>2, <2>1, PingPasses, ReporterDone DEF MeshInv, MeshRecords
<1> QED BY <1>3, <1>4

LEMMA MsWindowEnds ==
  ASSUME MeshInv, WindowEnds
  PROVE  MeshInv'
<1>1. /\ pc[R] = "window" /\ UNCHANGED <<app, hop, up, addr, plinks, flaps, leaf, ping, chip,
         gates, truth, sta>>
  BY DEF WindowEnds
<1>2. P.does = "window"
  BY <1>1 DEF MeshInv, ReporterStage, Doings
<1>3. /\ chip.restarts = chip.base + truth.window
      /\ chip.restarts \in Nat /\ chip.base \in Nat /\ truth.window \in Nat
  BY <1>1 DEF MeshInv, MeshRecords, WindowCounted, ChipRecord, HistoryRecord
<1>4. PICK v \in Verdicts : Report(R, v) /\ (v = "PASS" => chip.restarts = chip.base)
                                      /\ (v = "FAIL" => chip.restarts # chip.base)
  BY DEF WindowEnds, Verdicts
<1>5. (v = "PASS" => truth.window = 0) /\ (v = "FAIL" => truth.window > 0)
  BY <1>3, <1>4
<1> QED BY <1>1, <1>2, <1>4, <1>5, ReporterDone DEF MeshInv, MeshRecords

(* The verdicts of the programs that do not ping. *)
LEMMA CountDone ==
  ASSUME MeshInv, NEW v \in Verdicts, Report(R, v), pc[R] \in Doings \ {"ping", "window"},
         UNCHANGED <<app, hop, up, addr, plinks, flaps, leaf, ping, chip, gates, truth, sta>>
  PROVE  MeshInv'
<1>1. P.does \notin {"ping", "window"}
  BY DEF MeshInv, ReporterStage
<1>2. app # "mesh-relay-nocrash"
  BY <1>1, Reported
<1> QED BY <1>1, <1>2, ReporterDone DEF MeshInv, MeshRecords, Doings

LEMMA MsCounts ==
  ASSUME MeshInv, \/ \E v \in Verdicts : GateRelayPoll(v)
                  \/ GateLinuxCount \/ PeeringCount \/ AgreementPoll
  PROVE  MeshInv'
<1>1. /\ pc[R] \in Doings \ {"ping", "window"}
      /\ UNCHANGED <<app, hop, up, addr, plinks, flaps, leaf, ping, chip, gates, truth, sta>>
  BY DEF GateRelayPoll, GateLinuxCount, PeeringCount, AgreementPoll, Doings
<1>2. \E v \in Verdicts : Report(R, v)
  BY DEF GateRelayPoll, GateLinuxCount, PeeringCount, AgreementPoll, TwtVerdict,
     TwtAssocVerdict, Verdicts
<1> QED BY <1>1, <1>2, CountDone

LEMMA MsTwtRequest ==
  ASSUME MeshInv, NEW ok \in BOOLEAN, TwtRequest(ok)
  PROVE  MeshInv'
<1>1. /\ pc[R] = "request"
      /\ UNCHANGED <<app, hop, up, addr, plinks, flaps, leaf, ping, chip, gates, truth, sta>>
  BY DEF TwtRequest
<1>2. CASE ok
  <2>1. Goto(R, "agreement") /\ UNCHANGED log
    BY <1>2 DEF TwtRequest
  <2>2. P.does = "request"
    BY <1>1 DEF MeshInv, ReporterStage, Doings
  <2> QED BY <1>1, <2>1, <2>2, ReporterGoes DEF MeshInv, MeshRecords, Working, Doings
<1>3. CASE ~ok
  <2>1. Report(R, "FAIL")
    BY <1>3 DEF TwtRequest
  <2> QED BY <1>1, <2>1, CountDone DEF Doings, Verdicts
<1> QED BY <1>2, <1>3

LEMMA MeshStep ==
  ASSUME MeshInv, [Next]_vars
  PROVE  MeshInv'
<1>1. CASE Steps
  <2>1. CASE WaitEnds \/ SessionFails \/ SessionEnds \/ WindowEnds
    BY <2>1, MsWaitEnds, MsSession, MsWindowEnds
  <2>2. CASE \E a \in {"reply", "mic", "lost"} : PingOne(a)
    BY <2>2, MsPingOne
  <2>3. CASE \/ \E v \in Verdicts : GateRelayPoll(v)
             \/ GateLinuxCount \/ PeeringCount \/ AgreementPoll
                \/ \E ok \in BOOLEAN : TwtRequest(ok)
    BY <2>3, MsCounts, MsTwtRequest
  <2>4. CASE \E n \in Nodes : StartFails(n) \/ \E b \in BOOLEAN : Boot(n, b)
    BY <2>4, MsStartFails, MsBoot
  <2> QED BY <1>1, <2>1, <2>2, <2>3, <2>4 DEF Steps
<1>2. CASE (\E n \in Nodes : NodeAppears(n)) \/ (\E m, n \in Nodes : LinkUp(m, n))
           \/ \E l \in plinks : LinkDown(l)
  BY <1>2, MsNodeAppears, MsLinkUp, MsLinkDown
<1>3. CASE ChipRestarts \/ LearnGate \/ \E b \in BOOLEAN : SendToGates(b)
  BY <1>3, MsChipRestarts, MsGates
<1>4. CASE \E f \in 0 .. Flows - 1, state \in -1 .. 1 : AgreementMoves(f, state)
  BY <1>4, MsAgreementMoves
<1>5. CASE UNCHANGED vars
  <2>1. UNCHANGED <<app, hop, up, addr, plinks, flaps, leaf, pc, ping, chip, gates, log, truth,
        sta>>
    BY <1>5 DEF vars
  <2>2. MeshRecords'
    BY <2>1 DEF MeshInv, MeshRecords
  <2> QED BY <2>1, <2>2, RigMoves
<1> QED BY <1>1, <1>2, <1>3, <1>4, <1>5 DEF Next

(* A fixture's PASS means that frames went through: the echoes its floor    *)
(* asks for were relayed, and over the bridge or the route that it is       *)
(* named for; and the relay's verdict is about its own window, whatever     *)
(* its chip did before.  For any allowlists, flaps, restarts and order of   *)
(* events.                                                                  *)
THEOREM FixturesJudge == Spec => [](FixturesTypeOK /\ PassIsThrough /\ WindowJudged)
<1>1. MeshInv /\ [Next]_vars => MeshInv'
  BY MeshStep
<1> QED BY <1>1, MeshInvInit, MeshTyped, PTL DEF Spec

-----------------------------------------------------------------------------
(* THE CHIP RESTART FIXTURE.  The verdict compares counters read before and *)
(* after a trigger.  RestartInv ties those readings to what really          *)
(* happened, at every place of the program between them.                    *)

ReadRecord == [rst0 : -1 .. 1, rst1 : -1 .. 1, auth0 : 0 .. MaxMoves, auth1 : 0 .. MaxMoves,
               before : 0 .. Pings, after : 0 .. Pings]
UmacRecord == [queued : BOOLEAN, counter : 0 .. 1, intact : BOOLEAN]
TrainRecord == [on : BOOLEAN, post : BOOLEAN, at : {"pick", "length", "send"},
                payload : {"pre", "post"}, len : {"pre", "post"}, sent : 0 .. MaxMoves]
TruthRecord == [ran : BOOLEAN, replies : 0 .. Pings, returned : {"no", "in-time", "late"},
                short : 0 .. MaxMoves, triggered : BOOLEAN]
RestartRecords ==
  /\ arm \in Arms /\ tracked \in BOOLEAN /\ linked \in BOOLEAN
  /\ moves \in 0 .. MaxMoves /\ auth \in 0 .. MaxMoves /\ got \in 0 .. Pings
  /\ rfPc \in {"start", "wait", "ping", "pinging", "settle", "trigger", "recover",
               "ping-again", "pinging-again", "churn", "verdict", "done"}
  /\ umac \in UmacRecord /\ read \in ReadRecord /\ train \in TrainRecord
     /\ rfTruth \in TruthRecord

Untriggered == {"start", "wait", "ping", "pinging", "settle", "trigger"}

(* One RESULT line, at the end.                                             *)
LinesToCome ==
  /\ rfPc # "done" => rfLog = <<>>
  /\ rfLog \in {<<>>, <<"PASS">>, <<"FAIL">>, <<"INCONCLUSIVE">>}

(* Before the trigger nothing of it has happened.                           *)
NotYet ==
  /\ rfPc \in Untriggered => ~rfTruth.triggered
  /\ ~rfTruth.triggered => /\ ~umac.queued /\ ~rfTruth.ran /\ rfTruth.replies = 0
                           /\ rfTruth.returned = "no" /\ rfTruth.short = 0

(* The restart counter the fixture reads tells a restart that ran.          *)
CounterTold ==
  /\ umac.counter = IF rfTruth.ran THEN 1 ELSE 0
  /\ umac.queued => ~rfTruth.ran
  /\ read.rst0 <= 0
  /\ read.rst1 = 1 => rfTruth.ran

(* The replies of the second session are those that came after the          *)
(* restart, if one ran.                                                     *)
RepliesCounted ==
  /\ rfPc \in {"recover", "ping-again"} => rfTruth.replies = 0
  /\ rfPc = "pinging-again" => rfTruth.replies <= got /\ (read.rst1 = 1 => rfTruth.replies = got)
  /\ rfPc \in {"churn", "verdict"} => (read.rst1 = 1 => rfTruth.replies = read.after)

(* Nobody triggers a restart on a link that had not worked before.          *)
ControlPassed ==
  rfPc \in {"settle", "trigger", "recover", "ping-again", "pinging-again", "churn", "verdict"} =>
    read.before > 0

(* A gate's station that returned in time has raised the counter of         *)
(* authorizations since the first reading.                                  *)
ReturnSeen ==
  /\ read.auth0 <= auth /\ auth <= moves
  /\ Gate /\ rfTruth.returned = "in-time" =>
       /\ rfPc \notin {"verdict", "done"} => read.auth0 < auth
       /\ rfPc = "verdict" => read.auth0 < read.auth1

(* The group-frame train runs only on a gate and changes its frame before   *)
(* the restart; at most the frame it had begun mixes the two.               *)
TrainSwitched ==
  /\ train.on => Gate
  /\ rfPc = "start" => ~train.on
  /\ train.post => Gate
  /\ train.on /\ rfTruth.triggered => train.post
  /\ rfPc = "trigger" /\ train.on => train.post
  /\ train.at # "pick" => train.on /\ train.sent < MaxMoves
  /\ train.at = "length" /\ train.payload = "post" => train.post
  /\ rfTruth.short <= train.sent
  /\ rfTruth.short = 1 => ~(train.at = "send" /\ train.len = "pre")

RestartInv ==
  /\ RestartRecords /\ LinesToCome /\ NotYet /\ CounterTold /\ RepliesCounted /\ ControlPassed
  /\ ReturnSeen /\ TrainSwitched /\ RestartPassEarned /\ OneShortFrame

LEMMA RestartInvInit == RestartInit => RestartInv
<1> SUFFICES ASSUME RestartInit
             PROVE  RestartInv
  OBVIOUS
<1> USE DEF RestartInit
<1>1. RestartRecords
  <2>1. read \in ReadRecord
    BY RestartBounds DEF ReadRecord
  <2>2. umac \in UmacRecord
    BY DEF UmacRecord
  <2>3. train \in TrainRecord
    BY RestartBounds DEF TrainRecord
  <2>4. rfTruth \in TruthRecord
    BY RestartBounds DEF TruthRecord
  <2>5. tracked \in BOOLEAN /\ linked \in BOOLEAN
    BY Zenon
  <2>6. 0 \in 0 .. MaxMoves /\ 0 \in 0 .. Pings
    BY RestartBounds
  <2> QED BY <2>1, <2>2, <2>3, <2>4, <2>6 DEF RestartRecords
<1>2. LinesToCome /\ NotYet /\ CounterTold /\ RepliesCounted /\ ControlPassed
  BY DEF LinesToCome, NotYet, CounterTold, RepliesCounted, ControlPassed
<1>3. ReturnSeen /\ TrainSwitched /\ RestartPassEarned /\ OneShortFrame
  BY DEF ReturnSeen, TrainSwitched, RestartPassEarned, OneShortFrame
<1> QED BY <1>1, <1>2, <1>3 DEF RestartInv

LEMMA RsArrives ==
  ASSUME RestartInv, Arrives
  PROVE  RestartInv'
<1> USE DEF RestartInv, Arrives, fixture, world, Result
<1>1. RestartRecords'
  <2>1. (rfTruth \in TruthRecord)'
    BY DEF RestartRecords, TruthRecord
  <2> QED BY <2>1, RestartBounds DEF RestartRecords, ReturnSeen
<1>2. NotYet'
  BY DEF NotYet
<1>3. CounterTold'
  BY DEF CounterTold
<1>4. RepliesCounted'
  BY DEF RepliesCounted
<1>5. ReturnSeen'
  BY DEF ReturnSeen, Gate, RestartRecords, ReadRecord
<1>6. RestartPassEarned'
  BY DEF RestartPassEarned, LinesToCome, Gate
<1>7. LinesToCome' /\ ControlPassed' /\ TrainSwitched' /\ OneShortFrame'
  BY DEF LinesToCome, ControlPassed, TrainSwitched, OneShortFrame, Gate
<1> QED BY <1>1, <1>2, <1>3, <1>4, <1>5, <1>6, <1>7

LEMMA RsLeaves ==
  ASSUME RestartInv, Leaves
  PROVE  RestartInv'
<1> USE DEF RestartInv, Leaves, fixture, world, Result
<1>1. RestartRecords'
  <2>1. tracked' \in BOOLEAN /\ linked' \in BOOLEAN
    BY Zenon
  <2>2. moves' \in 0 .. MaxMoves
    BY RestartBounds DEF RestartRecords
  <2> QED BY <2>2 DEF RestartRecords
<1>2. ReturnSeen'
  BY DEF ReturnSeen, Gate, RestartRecords
<1>3. LinesToCome' /\ NotYet' /\ CounterTold' /\ RepliesCounted' /\ ControlPassed'
      /\ TrainSwitched' /\ RestartPassEarned' /\ OneShortFrame'
  BY DEF LinesToCome, NotYet, CounterTold, RepliesCounted, ControlPassed, TrainSwitched,
     RestartPassEarned, OneShortFrame, Gate
<1> QED BY <1>1, <1>2, <1>3

LEMMA RsHandleRestart ==
  ASSUME RestartInv, NEW intact \in BOOLEAN, HandleRestart(intact)
  PROVE  RestartInv'
<1> USE DEF RestartInv, HandleRestart, fixture, world, Result
<1>1. RestartRecords'
  <2>1. (umac \in UmacRecord)'
    BY DEF CounterTold, UmacRecord
  <2>2. (rfTruth \in TruthRecord)'
    BY DEF RestartRecords, TruthRecord
  <2> QED BY <2>1, <2>2 DEF RestartRecords
<1>2. NotYet'
  BY DEF NotYet
<1>3. CounterTold'
  BY DEF CounterTold
<1>4. RepliesCounted'
  BY DEF RepliesCounted
<1>5. RestartPassEarned'
  BY DEF RestartPassEarned, Gate
<1>6. LinesToCome' /\ ControlPassed' /\ ReturnSeen' /\ TrainSwitched' /\ OneShortFrame'
  BY DEF LinesToCome, ControlPassed, ReturnSeen, TrainSwitched, OneShortFrame, Gate
<1> QED BY <1>1, <1>2, <1>3, <1>4, <1>5, <1>6

LEMMA RsStartMesh ==
  ASSUME RestartInv, NEW ok \in BOOLEAN, StartMesh(ok)
  PROVE  RestartInv'
<1> USE DEF RestartInv, StartMesh, fixture, world, Result
<1>1. RestartRecords'
  <2> QED BY DEF RestartRecords
<1>2. LinesToCome'
  BY DEF LinesToCome
<1>3. RestartPassEarned'
  BY DEF RestartPassEarned, NotYet, Untriggered
<1>4. NotYet' /\ CounterTold' /\ RepliesCounted' /\ ControlPassed' /\ ReturnSeen'
      /\ TrainSwitched' /\ OneShortFrame'
  BY DEF NotYet, CounterTold, RepliesCounted, ControlPassed, ReturnSeen, TrainSwitched,
     OneShortFrame, Untriggered
<1> QED BY <1>1, <1>2, <1>3, <1>4

LEMMA RsStartGate ==
  ASSUME RestartInv, NEW ok \in BOOLEAN, StartGate(ok)
  PROVE  RestartInv'
<1> USE DEF RestartInv, StartGate, fixture, world, Result
<1>1. RestartRecords'
  <2>1. (train \in TrainRecord)'
    BY DEF RestartRecords, TrainRecord
  <2> QED BY <2>1 DEF RestartRecords
<1>2. TrainSwitched'
  <2>1. /\ train'.on = ok /\ train'.post = train.post /\ train'.at = train.at
           /\ train'.sent = train.sent
        /\ train'.payload = train.payload /\ train'.len = train.len
    OBVIOUS
  <2>2. ~rfTruth.triggered /\ rfPc' # "trigger" /\ Gate
    BY DEF NotYet, Untriggered
  <2>3. ~train.on
    BY DEF TrainSwitched
  <2> QED BY <2>2 DEF TrainSwitched, Gate
<1>3. OneShortFrame'
  BY DEF OneShortFrame
<1>4. LinesToCome' /\ NotYet' /\ CounterTold' /\ RepliesCounted' /\ ControlPassed'
      /\ ReturnSeen' /\ RestartPassEarned'
  BY DEF LinesToCome, NotYet, CounterTold, RepliesCounted, ControlPassed, ReturnSeen,
     RestartPassEarned, Untriggered
<1> QED BY <1>1, <1>2, <1>3, <1>4

LEMMA RsPeerFound ==
  ASSUME RestartInv, PeerFound
  PROVE  RestartInv'
<1> USE DEF RestartInv, PeerFound, fixture, world, Result
<1>1. RestartRecords' /\ LinesToCome' /\ NotYet' /\ CounterTold' /\ RepliesCounted'
      /\ ControlPassed' /\ ReturnSeen' /\ TrainSwitched' /\ RestartPassEarned' /\ OneShortFrame'
  BY DEF RestartRecords, LinesToCome, NotYet, CounterTold, RepliesCounted, ControlPassed,
     ReturnSeen, TrainSwitched, RestartPassEarned, OneShortFrame, Gate, Untriggered
<1> QED BY <1>1

LEMMA RsPeerWaitEnds ==
  ASSUME RestartInv, PeerWaitEnds
  PROVE  RestartInv'
<1> USE DEF RestartInv, PeerWaitEnds, fixture, world, Result
<1>1. RestartRecords'
  <2> QED BY DEF RestartRecords
<1>2. LinesToCome'
  BY DEF LinesToCome
<1>3. RestartPassEarned'
  BY DEF RestartPassEarned, LinesToCome
<1>4. NotYet' /\ CounterTold' /\ RepliesCounted' /\ ControlPassed' /\ ReturnSeen'
      /\ TrainSwitched' /\ OneShortFrame'
  BY DEF NotYet, CounterTold, RepliesCounted, ControlPassed, ReturnSeen, TrainSwitched,
     OneShortFrame, Gate, Untriggered
<1> QED BY <1>1, <1>2, <1>3, <1>4

LEMMA RsPingStarts ==
  ASSUME RestartInv, PingStarts
  PROVE  RestartInv'
<1> USE DEF RestartInv, PingStarts, fixture, world, Result
<1>1. RestartRecords'
  <2> QED BY RestartBounds DEF RestartRecords
<1>2. RepliesCounted'
  BY DEF RepliesCounted
<1>3. LinesToCome' /\ NotYet' /\ CounterTold' /\ ControlPassed' /\ ReturnSeen' /\ TrainSwitched'
      /\ RestartPassEarned' /\ OneShortFrame'
  BY DEF LinesToCome, NotYet, CounterTold, ControlPassed, ReturnSeen, TrainSwitched,
     RestartPassEarned, OneShortFrame, Gate, Untriggered
<1> QED BY <1>1, <1>2, <1>3

LEMMA RsPingNotStarted ==
  ASSUME RestartInv, PingNotStarted
  PROVE  RestartInv'
<1> USE DEF RestartInv, PingNotStarted, fixture, world, Result
<1>0. \/ /\ rfPc = "ping" /\ rfPc' = "done" /\ read' = read
         /\ rfLog = <<>> /\ rfLog' = <<"INCONCLUSIVE">>
      \/ /\ rfPc = "ping-again" /\ rfPc' = "churn" /\ rfLog' = rfLog
         /\ read' = [read EXCEPT !.after = 0]
  <2>1. CASE rfPc = "ping"
    <3>1. rfLog = <<>>
      BY DEF LinesToCome
    <3>2. rfLog' = Append(rfLog, "INCONCLUSIVE") /\ rfPc' = "done" /\ read' = read
      BY <2>1
    <3> QED BY <3>1
  <2>2. CASE rfPc = "ping-again"
    BY <2>2
  <2> QED BY <2>1
<1>1. RestartRecords'
  <2>1. (read \in ReadRecord)'
    <3>1. 0 \in 0 .. Pings
      BY RestartBounds
    <3> QED BY <3>1 DEF RestartRecords, ReadRecord
  <2> QED BY <2>1 DEF RestartRecords
<1>2. LinesToCome'
  BY <1>0 DEF LinesToCome
<1>3. CounterTold'
  BY DEF CounterTold, RestartRecords, ReadRecord
<1>4. RepliesCounted'
  BY DEF RepliesCounted, RestartRecords, ReadRecord
<1>5. RestartPassEarned'
  BY DEF RestartPassEarned, Gate
<1>6. NotYet' /\ TrainSwitched' /\ OneShortFrame'
  BY DEF NotYet, TrainSwitched, OneShortFrame, Gate, Untriggered
<1>7. ControlPassed' /\ ReturnSeen'
  BY DEF ControlPassed, ReturnSeen, Gate, RestartRecords, ReadRecord
<1> QED BY <1>7, <1>1, <1>2, <1>3, <1>4, <1>5, <1>6

LEMMA RsPingReply ==
  ASSUME RestartInv, PingReply
  PROVE  RestartInv'
<1> USE DEF RestartInv, PingReply, fixture, world, Result
<1>1. RestartRecords'
  <2>1. (rfTruth \in TruthRecord)'
    <3>1. CASE rfPc = "pinging"
      BY <3>1 DEF NotYet, Untriggered, RestartRecords
    <3>2. CASE rfPc = "pinging-again"
      <4>1. rfTruth.replies \in 0 .. Pings /\ got \in 0 .. Pings /\ rfTruth.replies <= got
            /\ got < Pings
        BY <3>2 DEF RepliesCounted, RestartRecords, TruthRecord
      <4>2. rfTruth.replies + 1 \in 0 .. Pings
        BY <4>1, RestartBounds
      <4> QED BY <4>2 DEF RestartRecords, TruthRecord
    <3> QED BY <3>1, <3>2
  <2> QED BY <2>1, RestartBounds DEF RestartRecords
<1>2. NotYet'
  BY DEF NotYet
<1>3. RepliesCounted'
  BY DEF RepliesCounted, CounterTold, RestartRecords, TruthRecord
<1>4. CounterTold'
  BY DEF CounterTold
<1>5. RestartPassEarned'
  BY DEF RestartPassEarned, Gate, RestartRecords, TruthRecord
<1>6. LinesToCome' /\ ControlPassed' /\ ReturnSeen' /\ TrainSwitched' /\ OneShortFrame'
  BY DEF LinesToCome, ControlPassed, ReturnSeen, TrainSwitched, OneShortFrame, Gate
<1> QED BY <1>1, <1>2, <1>3, <1>4, <1>5, <1>6

LEMMA RsPingBeforeEnds ==
  ASSUME RestartInv, PingBeforeEnds
  PROVE  RestartInv'
<1> USE DEF RestartInv, PingBeforeEnds, fixture, world, Result
<1>1. RestartRecords'
  <2>1. (read \in ReadRecord)'
    BY DEF RestartRecords, ReadRecord
  <2> QED BY <2>1 DEF RestartRecords
<1>2. LinesToCome'
  BY DEF LinesToCome
<1>3. CounterTold'
  BY DEF CounterTold
<1>4. ControlPassed'
  BY DEF ControlPassed, RestartRecords
<1>5. RestartPassEarned'
  BY DEF RestartPassEarned, NotYet, Untriggered
<1>6. NotYet' /\ RepliesCounted' /\ ReturnSeen' /\ TrainSwitched' /\ OneShortFrame'
  BY DEF NotYet, RepliesCounted, ReturnSeen, TrainSwitched, OneShortFrame, Gate, Untriggered
<1> QED BY <1>1, <1>2, <1>3, <1>4, <1>5, <1>6

LEMMA RsReadBefore ==
  ASSUME RestartInv, ReadBefore
  PROVE  RestartInv'
<1> USE DEF RestartInv, ReadBefore, fixture, world, Result
<1>1. RestartRecords'
  <2>1. (read \in ReadRecord)'
    <3>1. \A r \in Readable : r \in -1 .. 1
      BY DEF Readable, RestartRecords, UmacRecord
    <3> QED BY <3>1 DEF RestartRecords, ReadRecord
  <2>2. (train \in TrainRecord)'
    BY DEF RestartRecords, TrainRecord, Gate
  <2> QED BY <2>1, <2>2 DEF RestartRecords
<1>2. CounterTold'
  BY DEF CounterTold, NotYet, Untriggered, Readable
<1>3. ReturnSeen'
  BY DEF ReturnSeen, NotYet, Untriggered, RestartRecords
<1>4. TrainSwitched'
  BY DEF TrainSwitched, Gate, RestartRecords, TrainRecord
<1>5. OneShortFrame'
  BY DEF OneShortFrame
<1>6. LinesToCome' /\ NotYet' /\ RepliesCounted' /\ ControlPassed' /\ RestartPassEarned'
  BY DEF LinesToCome, NotYet, RepliesCounted, ControlPassed, RestartPassEarned, Untriggered
<1> QED BY <1>1, <1>2, <1>3, <1>4, <1>5, <1>6

LEMMA RsTrigger ==
  ASSUME RestartInv, NEW ok \in BOOLEAN, Trigger(ok)
  PROVE  RestartInv'
<1> USE DEF RestartInv, Trigger, fixture, world, Result
<1>1. RestartRecords'
  <2>1. (umac \in UmacRecord)'
    BY DEF RestartRecords, UmacRecord
  <2>2. (rfTruth \in TruthRecord)'
    BY DEF RestartRecords, TruthRecord
  <2> QED BY <2>1, <2>2 DEF RestartRecords
<1>2. LinesToCome'
  BY DEF LinesToCome
<1>3. NotYet'
  BY DEF NotYet, Untriggered
<1>4. CounterTold'
  BY DEF CounterTold, NotYet, Untriggered
<1>5. RepliesCounted'
  BY DEF RepliesCounted, NotYet, Untriggered
<1>6. ReturnSeen'
  BY DEF ReturnSeen, Gate
<1>7. TrainSwitched'
  BY DEF TrainSwitched, Gate
<1>8. RestartPassEarned'
  BY DEF RestartPassEarned, NotYet, Untriggered
<1>9. ControlPassed' /\ OneShortFrame'
  BY DEF ControlPassed, OneShortFrame
<1> QED BY <1>1, <1>2, <1>3, <1>4, <1>5, <1>6, <1>7, <1>8, <1>9

LEMMA RsReadAfter ==
  ASSUME RestartInv, ReadAfter
  PROVE  RestartInv'
<1> USE DEF RestartInv, ReadAfter, fixture, world, Result
<1>1. RestartRecords'
  <2>1. (read \in ReadRecord)'
    BY DEF RestartRecords, ReadRecord, UmacRecord, Readable
  <2> QED BY <2>1 DEF RestartRecords
<1>2. CounterTold'
  BY DEF CounterTold, Readable
<1>3. RepliesCounted'
  BY DEF RepliesCounted
<1>4. LinesToCome' /\ NotYet' /\ ControlPassed' /\ ReturnSeen' /\ TrainSwitched'
      /\ RestartPassEarned' /\ OneShortFrame'
  BY DEF LinesToCome, NotYet, ControlPassed, ReturnSeen, TrainSwitched, RestartPassEarned,
     OneShortFrame, Gate, Untriggered
<1> QED BY <1>1, <1>2, <1>3, <1>4

LEMMA RsPingAfterEnds ==
  ASSUME RestartInv, PingAfterEnds
  PROVE  RestartInv'
<1> USE DEF RestartInv, PingAfterEnds, fixture, world, Result
<1>1. RestartRecords'
  <2>1. (read \in ReadRecord)'
    BY DEF RestartRecords, ReadRecord
  <2> QED BY <2>1 DEF RestartRecords
<1>2. CounterTold'
  BY DEF CounterTold
<1>3. RepliesCounted'
  BY DEF RepliesCounted
<1>4. LinesToCome' /\ NotYet' /\ ControlPassed' /\ ReturnSeen' /\ TrainSwitched'
      /\ RestartPassEarned' /\ OneShortFrame'
  BY DEF LinesToCome, NotYet, ControlPassed, ReturnSeen, TrainSwitched, RestartPassEarned,
     OneShortFrame, Gate, Untriggered
<1> QED BY <1>1, <1>2, <1>3, <1>4

LEMMA RsReadChurn ==
  ASSUME RestartInv, ReadChurn
  PROVE  RestartInv'
<1> USE DEF RestartInv, ReadChurn, fixture, world, Result
<1>1. RestartRecords'
  <2>1. (read \in ReadRecord)'
    BY DEF RestartRecords, ReadRecord
  <2> QED BY <2>1 DEF RestartRecords
<1>2. CounterTold'
  BY DEF CounterTold
<1>3. ReturnSeen'
  BY DEF ReturnSeen, Gate
<1>4. LinesToCome' /\ NotYet' /\ RepliesCounted' /\ ControlPassed' /\ TrainSwitched'
      /\ RestartPassEarned' /\ OneShortFrame'
  BY DEF LinesToCome, NotYet, RepliesCounted, ControlPassed, TrainSwitched,
     RestartPassEarned, OneShortFrame, Gate, Untriggered
<1> QED BY <1>1, <1>2, <1>3, <1>4

LEMMA RsJudge ==
  ASSUME RestartInv, Judge
  PROVE  RestartInv'
<1> USE DEF RestartInv, Judge, fixture, world, Result
<1>1. RestartRecords'
  <2> QED BY DEF RestartRecords
<1>2. LinesToCome'
  BY DEF LinesToCome, GateRestartVerdict, MeshRestartVerdict
<1>3. RestartPassEarned'
  BY DEF RestartPassEarned, LinesToCome, CounterTold, RepliesCounted, ReturnSeen, Gate,
     RestartRecords, ReadRecord, GateRestartVerdict, MeshRestartVerdict, Restarted
<1>4. NotYet' /\ CounterTold' /\ RepliesCounted' /\ ControlPassed' /\ ReturnSeen'
      /\ TrainSwitched' /\ OneShortFrame'
  BY DEF NotYet, CounterTold, RepliesCounted, ControlPassed, ReturnSeen, TrainSwitched,
     OneShortFrame, Gate, Untriggered
<1> QED BY <1>1, <1>2, <1>3, <1>4

LEMMA RsPickPayload ==
  ASSUME RestartInv, PickPayload
  PROVE  RestartInv'
<1> USE DEF RestartInv, PickPayload, fixture, world, Result
<1>1. RestartRecords'
  <2>1. (train \in TrainRecord)'
    BY DEF RestartRecords, TrainRecord, Phase
  <2> QED BY <2>1 DEF RestartRecords
<1>2. TrainSwitched'
  BY DEF TrainSwitched, Gate, Phase
<1>3. OneShortFrame'
  BY DEF OneShortFrame
<1>4. LinesToCome' /\ NotYet' /\ CounterTold' /\ RepliesCounted' /\ ControlPassed'
      /\ ReturnSeen' /\ RestartPassEarned'
  BY DEF LinesToCome, NotYet, CounterTold, RepliesCounted, ControlPassed, ReturnSeen,
     RestartPassEarned, Gate
<1> QED BY <1>1, <1>2, <1>3, <1>4

LEMMA RsPickLength ==
  ASSUME RestartInv, PickLength
  PROVE  RestartInv'
<1> USE DEF RestartInv, PickLength, fixture, world, Result
<1>1. RestartRecords'
  <2>1. (train \in TrainRecord)'
    BY DEF RestartRecords, TrainRecord, Phase
  <2> QED BY <2>1 DEF RestartRecords
<1>2. TrainSwitched'
  BY DEF TrainSwitched, NotYet, Gate, Phase
<1>3. OneShortFrame'
  BY DEF OneShortFrame, TrainSwitched, Phase
<1>4. LinesToCome' /\ NotYet' /\ CounterTold' /\ RepliesCounted' /\ ControlPassed'
      /\ ReturnSeen' /\ RestartPassEarned'
  BY DEF LinesToCome, NotYet, CounterTold, RepliesCounted, ControlPassed, ReturnSeen,
     RestartPassEarned, Gate
<1> QED BY <1>1, <1>2, <1>3, <1>4

LEMMA RsSendGroupFrame ==
  ASSUME RestartInv, SendGroupFrame
  PROVE  RestartInv'
<1> USE DEF RestartInv, SendGroupFrame, fixture, world, Result
<1>1. RestartRecords'
  <2>1. (train \in TrainRecord)'
    <3>1. train.sent \in 0 .. MaxMoves /\ train.sent < MaxMoves
      BY DEF TrainSwitched, RestartRecords, TrainRecord
    <3>2. train.sent + 1 \in 0 .. MaxMoves
      BY <3>1, RestartBounds
    <3> QED BY <3>2 DEF RestartRecords, TrainRecord
  <2>2. (rfTruth \in TruthRecord)'
    BY RestartBounds DEF RestartRecords, TrainSwitched, TrainRecord, TruthRecord
  <2> QED BY <2>1, <2>2 DEF RestartRecords
<1>2. NotYet'
  BY DEF NotYet
<1>3. CounterTold'
  BY DEF CounterTold
<1>4. RepliesCounted'
  BY DEF RepliesCounted
<1>5. ReturnSeen'
  BY DEF ReturnSeen, Gate
<1>6. TrainSwitched'
  BY DEF TrainSwitched, Gate, RestartRecords, TrainRecord, TruthRecord
<1>7. RestartPassEarned'
  BY DEF RestartPassEarned, Gate
<1>8. OneShortFrame'
  BY DEF OneShortFrame, TrainSwitched, RestartRecords, TruthRecord
<1>9. LinesToCome' /\ ControlPassed'
  BY DEF LinesToCome, ControlPassed
<1> QED BY <1>1, <1>2, <1>3, <1>4, <1>5, <1>6, <1>7, <1>8, <1>9

LEMMA RestartStep ==
  ASSUME RestartInv, [RestartNext]_restartVars
  PROVE  RestartInv'
<1>1. CASE Fixture
  <2>1. CASE \E ok \in BOOLEAN : StartMesh(ok) \/ StartGate(ok) \/ Trigger(ok)
    BY <2>1, RsStartMesh, RsStartGate, RsTrigger
  <2>2. CASE PeerFound \/ PeerWaitEnds \/ PingStarts \/ PingNotStarted \/ PingBeforeEnds
    BY <2>2, RsPeerFound, RsPeerWaitEnds, RsPingStarts, RsPingNotStarted, RsPingBeforeEnds
  <2>3. CASE ReadBefore \/ ReadAfter \/ PingAfterEnds \/ ReadChurn \/ Judge
    BY <2>3, RsReadBefore, RsReadAfter, RsPingAfterEnds, RsReadChurn, RsJudge
  <2> QED BY <1>1, <2>1, <2>2, <2>3 DEF Fixture
<1>2. CASE Arrives \/ Leaves \/ PingReply
  BY <1>2, RsArrives, RsLeaves, RsPingReply
<1>3. CASE \E b \in BOOLEAN : HandleRestart(b)
  BY <1>3, RsHandleRestart
<1>4. CASE PickPayload \/ PickLength \/ SendGroupFrame
  BY <1>4, RsPickPayload, RsPickLength, RsSendGroupFrame
<1>5. CASE UNCHANGED restartVars
  <2>1. RestartRecords' /\ LinesToCome' /\ NotYet' /\ CounterTold' /\ RepliesCounted'
        /\ ControlPassed'
    BY <1>5 DEF restartVars, RestartInv, RestartRecords, LinesToCome, NotYet, CounterTold,
       RepliesCounted, ControlPassed
  <2>2. ReturnSeen' /\ TrainSwitched' /\ RestartPassEarned' /\ OneShortFrame'
    BY <1>5 DEF restartVars, RestartInv, ReturnSeen, TrainSwitched, RestartPassEarned,
       OneShortFrame, Gate
  <2> QED BY <2>1, <2>2 DEF RestartInv
<1> QED BY <1>1, <1>2, <1>3, <1>4, <1>5 DEF RestartNext

(* The invariant is what the runs check.                                    *)
LEMMA RestartTyped == RestartInv => RestartTypeOK /\ RestartShown
<1> SUFFICES ASSUME RestartInv
             PROVE  RestartTypeOK /\ RestartShown
  OBVIOUS
<1>1. rfLog \in Seq({"PASS", "FAIL", "INCONCLUSIVE"})
  <2>1. \A v \in {"PASS", "FAIL", "INCONCLUSIVE"} :
          <<>> \in Seq({"PASS", "FAIL", "INCONCLUSIVE"})
            /\ <<v>> \in Seq({"PASS", "FAIL", "INCONCLUSIVE"})
    OBVIOUS
  <2> QED BY <2>1 DEF RestartInv, LinesToCome
<1>2. RestartTypeOK
  BY <1>1 DEF RestartInv, RestartTypeOK, RestartRecords, ReadRecord, UmacRecord,
     TrainRecord, TruthRecord
<1> QED BY <1>2 DEF RestartInv, RestartShown

(* A PASS of the restart fixture is earned by this restart: it ran,         *)
(* echoes were answered after it, and on the gate over the association      *)
(* that the restore re-pushed; and the group-frame train around it sends    *)
(* one frame of the earlier length at most, which is how the capture        *)
(* finds the restart (test-mesh-hwrestart).  For any arm, any moves of      *)
(* the station and any order of events.                                     *)
THEOREM RestartIsShown == RestartSpec => [](RestartTypeOK /\ RestartShown)
<1>1. RestartInv /\ [RestartNext]_restartVars => RestartInv'
  BY RestartStep
<1> QED BY <1>1, RestartInvInit, RestartTyped, PTL DEF RestartSpec

(* A FAIL is fair step by step.                                             *)
LEMMA FailStepFair ==
  RestartInv /\ [RestartNext]_restartVars =>
    [rfLog' = <<"FAIL">> /\ rfLog = <<>> =>
       /\ read.before > 0 /\ rfTruth.ran /\ rfTruth.replies = 0
       /\ Gate => tracked]_restartVars
<1> SUFFICES ASSUME RestartInv, RestartNext, rfLog' = <<"FAIL">>, rfLog = <<>>
             PROVE  /\ read.before > 0 /\ rfTruth.ran /\ rfTruth.replies = 0
                    /\ Gate => tracked
  OBVIOUS
<1>1. CASE Judge
  <2>1. /\ read.rst0 >= 0 /\ read.rst1 > read.rst0 /\ read.after = 0 /\ (Gate => tracked)
        /\ rfPc = "verdict"
    BY <1>1 DEF Judge, Result, GateRestartVerdict, MeshRestartVerdict, Restarted
  <2>2. read.rst1 = 1
    BY <2>1 DEF RestartInv, RestartRecords, ReadRecord
  <2> QED BY <2>1, <2>2 DEF RestartInv, CounterTold, RepliesCounted, ControlPassed
<1>2. CASE Fixture /\ ~Judge
  <2>1. rfLog' = rfLog \/ rfLog' = Append(rfLog, "INCONCLUSIVE")
    BY <1>2 DEF Fixture, Result, StartMesh, StartGate, Trigger, PeerFound, PeerWaitEnds,
       PingStarts, PingNotStarted, PingBeforeEnds, ReadBefore, ReadAfter, PingAfterEnds,
       ReadChurn
  <2> QED BY <2>1
<1>3. CASE ~Fixture
  BY <1>3 DEF RestartNext, fixture, Arrives, Leaves, PingReply, HandleRestart,
     PickPayload, PickLength, SendGroupFrame
<1> QED BY <1>1, <1>2, <1>3

(* A FAIL of the restart fixture accuses the firmware: the control pings    *)
(* were answered, the restart ran, nothing came back after it, and a gate   *)
(* still has its client on the books; it is never given for a rig that      *)
(* did not work.                                                            *)
THEOREM RestartFailIsFair == RestartSpec => RestartFailFair
<1>1. RestartInv /\ [RestartNext]_restartVars => RestartInv'
  BY RestartStep
<1> QED BY <1>1, FailStepFair, RestartInvInit, PTL DEF RestartSpec, RestartFailFair

-----------------------------------------------------------------------------
(* THE IBSS NODE.  Its list of stations is written by a callback that the   *)
(* main loop scans concurrently.  The stations recorded while no scan could *)
(* overtake the record, ibQuiet, are the ones that IbssInv follows through  *)
(* the list, the scan and the pings.                                        *)

Macs == Peers \cup {Empty}

(* What IbssTypeOK leaves open: s_pinged is a list, and what each place    *)
(* says of the others (no board measures twice, or reports twice; a round  *)
(* stays within what it found).                                            *)
IbssPlaces ==
  /\ ibPinged \in Seq(Macs)
  /\ ibLines = 0 \/ ibReported
  /\ ibPc \in {"boot", "polling"} => ibVerdict = <<>>
  /\ ibScan.i <= ibScan.np
  /\ ibPc = "boot" => ibCb.pc = "idle" /\ ibQuiet = {}
  /\ ibCb.pc # "idle" => ibCb.peer \in Peers

(* A record under way counts as quiet only while app_main sleeps.          *)
(* Then the count is where the record found it, and nothing that was       *)
(* recorded before is at or behind its entry.                              *)
QuietRecord ==
  /\ ibCb.quiet => ibPc = "sleep"
  /\ ibPc = "sleep" /\ ibCb.pc # "idle" /\ ibQuiet # {} => ibCb.quiet
  /\ ibPc = "sleep" /\ ibCb.quiet /\ ibCb.pc = "count" => ibCount = ibCb.n
  /\ ibPc = "sleep" /\ ibCb.quiet /\ ibCb.pc = "copy" => ibCount = ibCb.n + 1

(* In a round with something to find, the count has not shrunk.            *)
RoundStands ==
  ibPc = "scan" /\ ibQuiet # {} =>
    /\ ibScan.np <= ibCount
    /\ ibCb.pc = "count" => ibScan.np <= ibCb.n

(* p is in an entry from..to of the list that no record under way writes.  *)
Listed(p, from, to) ==
  \E k \in from .. to :
    /\ ibPending[k] = p
    /\ ibCb.pc # "idle" => k # ibCb.n + 1

QuietKept ==
  /\ ibPc = "sleep" => \A p \in ibQuiet : Listed(p, 1, ibCount)
  /\ ibPc = "scan" /\ Len(ibPinged) < Slots =>
       \A p \in ibQuiet : p \in Sessions \/ Listed(p, ibScan.i + 1, ibScan.np)

IbssInv == IbssTypeOK /\ IbssPlaces /\ QuietRecord /\ RoundStands /\ QuietKept /\ EachPingedOnce

LEMMA IbssInvInit == IbssInit => IbssInv
<1> SUFFICES ASSUME IbssInit
             PROVE  IbssInv
  OBVIOUS
<1> USE DEF IbssInit
<1>1. IbssTypeOK
  <2>1. {ibPinged[i] : i \in DOMAIN ibPinged} \subseteq Peers \cup {Empty}
        /\ Len(ibPinged) <= Slots
    BY IbssBounds
  <2>2. ibPending \in [1 .. Slots -> Peers \cup {Empty}] /\ 0 \in 0 .. Slots
        /\ 0 \in 0 .. Slots - 1
    BY IbssBounds
  <2>3. ibCb \in [pc : {"idle", "count", "copy"}, peer : Peers \cup {Empty}, n : 0 .. Slots - 1,
                 quiet : BOOLEAN]
    BY <2>2
  <2>4. ibScan \in [np : 0 .. Slots, i : 0 .. Slots]
    BY <2>2
  <2>5. ibReported \in BOOLEAN
    BY Zenon
  <2> QED BY IbssBounds, <2>5 DEF IbssTypeOK
<1>2. IbssPlaces /\ QuietRecord /\ RoundStands
  BY DEF IbssPlaces, QuietRecord, RoundStands
<1>3. QuietKept /\ EachPingedOnce
  BY DEF QuietKept, EachPingedOnce
<1> QED BY <1>1, <1>2, <1>3 DEF IbssInv

LEMMA IbIbssStart ==
  ASSUME IbssInv, NEW ok, IbssStart(ok)
  PROVE  IbssInv'
<1> USE DEF IbssInv, ibRound, ibBoot, ibCell
<1>1. IbssTypeOK'
  BY DEF IbssStart, IbssTypeOK
<1>2. IbssPlaces'
  BY DEF IbssStart, IbssPlaces
<1>3. QuietRecord'
  BY DEF IbssStart, IbssPlaces, QuietRecord
<1>4. RoundStands'
  BY DEF IbssStart, RoundStands
<1>5. QuietKept'
  BY DEF IbssStart, IbssPlaces, QuietKept
<1>6. EachPingedOnce'
  BY DEF IbssStart, EachPingedOnce
<1> QED BY <1>1, <1>2, <1>3, <1>4, <1>5, <1>6

LEMMA IbCreateStart ==
  ASSUME IbssInv, NEW ok, CreateStart(ok)
  PROVE  IbssInv'
<1> USE DEF IbssInv, ibRound, ibBoot, ibCell
<1>1. IbssTypeOK'
  BY DEF CreateStart, IbssTypeOK
<1>2. IbssPlaces'
  BY DEF CreateStart, IbssPlaces
<1>3. QuietRecord'
  BY DEF CreateStart, QuietRecord
<1>4. RoundStands'
  BY DEF CreateStart, RoundStands
<1>5. QuietKept'
  BY DEF CreateStart, QuietKept
<1>6. EachPingedOnce'
  BY DEF CreateStart, EachPingedOnce
<1> QED BY <1>1, <1>2, <1>3, <1>4, <1>5, <1>6

LEMMA IbMeasureStart ==
  ASSUME IbssInv, NEW ok, NEW p \in Peers, MeasureStart(ok, p)
  PROVE  IbssInv'
<1> USE DEF IbssInv, ibRound, ibBoot, ibCell
<1>1. IbssTypeOK'
  BY DEF MeasureStart, IbssTypeOK
<1>2. IbssPlaces'
  BY DEF MeasureStart, IbssPlaces
<1>3. QuietRecord'
  BY DEF MeasureStart, QuietRecord
<1>4. RoundStands'
  BY DEF MeasureStart, RoundStands
<1>5. QuietKept'
  BY DEF MeasureStart, QuietKept
<1>6. EachPingedOnce'
  BY DEF MeasureStart, EachPingedOnce
<1> QED BY <1>1, <1>2, <1>3, <1>4, <1>5, <1>6

LEMMA IbTestStart ==
  ASSUME IbssInv, NEW ok, TestStart(ok)
  PROVE  IbssInv'
<1> USE DEF IbssInv, ibRound, ibBoot, ibCell
<1>1. IbssTypeOK'
  BY DEF TestStart, IbssTypeOK
<1>2. IbssPlaces'
  BY DEF TestStart, IbssPlaces
<1>3. QuietRecord'
  BY DEF TestStart, QuietRecord
<1>4. RoundStands'
  BY DEF TestStart, RoundStands
<1>5. QuietKept'
  BY DEF TestStart, QuietKept
<1>6. EachPingedOnce'
  BY DEF TestStart, EachPingedOnce
<1> QED BY <1>1, <1>2, <1>3, <1>4, <1>5, <1>6

LEMMA IbPeerAdded ==
  ASSUME IbssInv, NEW p \in Peers, PeerAdded(p)
  PROVE  IbssInv'
<1> USE DEF IbssInv, ibRound, ibBoot, ibCell
<1>1. IbssTypeOK'
  BY IbssBounds DEF PeerAdded, IbssTypeOK
<1>2. IbssPlaces'
  BY DEF PeerAdded, IbssPlaces
<1>3. QuietRecord'
  BY DEF PeerAdded, QuietRecord
<1>4. RoundStands'
  BY DEF PeerAdded, RoundStands
<1>5. QuietKept'
  <2>1. ASSUME NEW q, NEW from \in Nat, NEW to \in Nat, to <= ibCount, Listed(q, from, to)
        PROVE  Listed(q, from, to)'
    BY <2>1 DEF PeerAdded, IbssTypeOK, Listed
  <2>2. ibQuiet' = ibQuiet /\ ibCount' = ibCount /\ ibScan' = ibScan /\ ibPc' = ibPc
        /\ Sessions' = Sessions
        /\ ibPinged' = ibPinged
    BY DEF PeerAdded, Sessions
  <2> QED BY <2>1, <2>2 DEF IbssTypeOK, QuietKept, RoundStands
<1>6. EachPingedOnce'
  BY DEF PeerAdded, EachPingedOnce, Sessions
<1> QED BY <1>1, <1>2, <1>3, <1>4, <1>5, <1>6

LEMMA IbCbCount ==
  ASSUME IbssInv, CbCount
  PROVE  IbssInv'
<1> USE DEF IbssInv, ibRound, ibBoot, ibCell
<1>1. IbssTypeOK'
  <2>1. ibCb.n + 1 \in 0 .. Slots
    BY IbssBounds DEF IbssTypeOK
  <2>2. ibCb' \in [pc : {"idle", "count", "copy"}, peer : Peers \cup {Empty},
                  n : 0 .. Slots - 1, quiet : BOOLEAN]
    BY DEF IbssTypeOK, CbCount
  <2> QED BY <2>1 DEF IbssTypeOK, CbCount
<1>2. IbssPlaces'
  BY DEF CbCount, IbssPlaces
<1>3. QuietRecord'
  BY DEF CbCount, QuietRecord
<1>4. RoundStands'
  BY DEF CbCount, IbssTypeOK, RoundStands
<1>5. QuietKept'
  BY DEF CbCount, IbssTypeOK, QuietKept, QuietRecord, Listed, Sessions
<1>6. EachPingedOnce'
  BY DEF CbCount, EachPingedOnce, Sessions
<1> QED BY <1>1, <1>2, <1>3, <1>4, <1>5, <1>6

LEMMA IbCbCopy ==
  ASSUME IbssInv, CbCopy
  PROVE  IbssInv'
<1> USE DEF IbssInv, ibRound, ibBoot, ibCell
<1>1. IbssTypeOK'
  <2>1. ibPending' \in [1 .. Slots -> Peers \cup {Empty}]
    BY DEF IbssTypeOK, CbCopy
  <2>2. ibCb' \in [pc : {"idle", "count", "copy"}, peer : Peers \cup {Empty},
                  n : 0 .. Slots - 1, quiet : BOOLEAN]
    BY DEF IbssTypeOK, CbCopy
  <2>3. ibQuiet' \subseteq Peers
    BY DEF IbssTypeOK, IbssPlaces, CbCopy
  <2> QED BY <2>3 DEF IbssTypeOK, CbCopy
<1>2. IbssPlaces'
  BY DEF CbCopy, IbssPlaces
<1>3. QuietRecord'
  BY DEF CbCopy, QuietRecord
<1>4. RoundStands'
  BY DEF CbCopy, RoundStands, QuietRecord
<1>5. QuietKept'
  <2>1. ibPending' = [ibPending EXCEPT ![ibCb.n + 1] = ibCb.peer] /\ ibCb'.pc = "idle"
    BY DEF CbCopy
  <2>2. ASSUME NEW q, NEW from \in 1 .. Slots + 1, NEW to \in 0 .. Slots, Listed(q, from, to)
        PROVE  Listed(q, from, to)'
    <3>1. PICK k \in from .. to : ibPending[k] = q /\ k # ibCb.n + 1
      BY <2>2 DEF Listed, CbCopy
    <3>2. ibPending'[k] = q
      BY <2>1, <3>1
    <3> QED BY <2>1, <3>2 DEF Listed
  <2>3. ASSUME ibPc = "sleep", ibCb.quiet, NEW q, q = ibCb.peer
        PROVE  Listed(q, 1, ibCount)'
    <3>1. ibCb.n + 1 \in 1 .. ibCount /\ ibCb.n + 1 \in 1 .. Slots
      BY <2>3 DEF CbCopy, QuietRecord, IbssTypeOK
    <3>2. ibPending'[ibCb.n + 1] = q
      BY <2>1, <2>3, <3>1 DEF IbssTypeOK
    <3> QED BY <3>1, <3>2 DEF Listed, CbCopy
  <2>4. /\ ibPc' = ibPc /\ ibCount' = ibCount /\ ibScan' = ibScan /\ ibPinged' = ibPinged
        /\ Sessions' = Sessions
    BY DEF CbCopy, Sessions
  <2>5. ibQuiet' = IF ibCb.quiet THEN ibQuiet \cup {ibCb.peer} ELSE ibQuiet
    BY DEF CbCopy
  <2>6. /\ ibCount \in 0 .. Slots /\ 1 \in 1 .. Slots + 1
        /\ ibScan.i + 1 \in 1 .. Slots + 1 /\ ibScan.np \in 0 .. Slots
    BY IbssBounds DEF IbssTypeOK
  <2>7. ibPc' = "sleep" => \A q \in ibQuiet' : Listed(q, 1, ibCount)'
    <3> SUFFICES ASSUME ibPc = "sleep", NEW q \in ibQuiet'
                 PROVE  Listed(q, 1, ibCount)'
      BY <2>4
    <3>1. CASE q \in ibQuiet
      BY <2>2, <2>6, <3>1, <2>4 DEF QuietKept
    <3>2. CASE q \notin ibQuiet
      BY <2>3, <2>5, <3>2
    <3> QED BY <3>1, <3>2
  <2>8. ibPc' = "scan" /\ Len(ibPinged)' < Slots =>
          \A q \in ibQuiet' : q \in Sessions' \/ Listed(q, ibScan.i + 1, ibScan.np)'
    BY <2>2, <2>4, <2>5, <2>6 DEF QuietKept, QuietRecord
  <2> QED BY <2>7, <2>8 DEF QuietKept
<1>6. EachPingedOnce'
  BY DEF CbCopy, EachPingedOnce, QuietRecord, Sessions
<1> QED BY <1>1, <1>2, <1>3, <1>4, <1>5, <1>6

LEMMA IbRoundBegins ==
  ASSUME IbssInv, RoundBegins
  PROVE  IbssInv'
<1> USE DEF IbssInv, ibRound, ibBoot, ibCell
<1>1. IbssTypeOK'
  <2>1. ibCb' \in [pc : {"idle", "count", "copy"}, peer : Peers \cup {Empty},
                  n : 0 .. Slots - 1, quiet : BOOLEAN]
    BY DEF IbssTypeOK, RoundBegins
  <2>2. ibScan' \in [np : 0 .. Slots, i : 0 .. Slots]
    BY IbssBounds DEF IbssTypeOK, RoundBegins
  <2> QED BY <2>2 DEF IbssTypeOK, RoundBegins
<1>2. IbssPlaces'
  BY DEF RoundBegins, IbssTypeOK, IbssPlaces
<1>3. QuietRecord'
  BY DEF RoundBegins, QuietRecord
<1>4. RoundStands'
  BY DEF RoundBegins, IbssTypeOK, RoundStands, QuietRecord
<1>5. QuietKept'
  BY DEF RoundBegins, QuietKept, Listed
<1>6. EachPingedOnce'
  BY DEF RoundBegins, EachPingedOnce
<1> QED BY <1>1, <1>2, <1>3, <1>4, <1>5, <1>6

LEMMA IbScanOne ==
  ASSUME IbssInv, ScanOne
  PROVE  IbssInv'
<1> USE DEF IbssInv, ibRound, ibBoot, ibCell
<1>1. IbssTypeOK'
  <2>1. ibScan'.i = ibScan.i + 1 /\ ibScan' \in [np : 0 .. Slots, i : 0 .. Slots]
    <3>1. ibScan.np \in 0 .. Slots /\ ibScan.i \in 0 .. Slots /\ ibScan.i < ibScan.np
      BY DEF ScanOne, IbssTypeOK
    <3>2. ibScan.i + 1 \in 0 .. Slots
      BY <3>1, IbssBounds
    <3> QED BY <3>1, <3>2 DEF ScanOne, IbssTypeOK
  <2>2. ibPending[ibScan.i + 1] \in Peers \cup {Empty}
    BY IbssBounds DEF ScanOne, IbssTypeOK
  <2>3. /\ Len(ibPinged') <= Slots
        /\ {ibPinged'[i] : i \in DOMAIN ibPinged'} \subseteq Peers \cup {Empty}
    <3> DEFINE q == ibPending[ibScan.i + 1]
    <3>1. /\ Len(ibPinged) <= Slots /\ ibPinged \in Seq(Peers \cup {Empty})
          /\ {ibPinged[i] : i \in DOMAIN ibPinged} \subseteq Peers \cup {Empty}
      BY DEF IbssTypeOK, IbssPlaces
    <3>2. CASE ibPinged' = ibPinged
      BY <3>1, <3>2
    <3>3. CASE ibPinged' = Append(ibPinged, q) /\ Len(ibPinged) < Slots
      <4>1. Len(ibPinged') = Len(ibPinged) + 1 /\ ibPinged' \in Seq(Peers \cup {Empty})
        BY <2>2, <3>1, <3>3
      <4>2. Len(ibPinged') <= Slots
        BY <3>1, <3>3, <4>1, IbssBounds
      <4> QED BY <4>1, <4>2
    <3> QED BY <3>2, <3>3 DEF ScanOne
  <2> QED BY <2>1, <2>3 DEF ScanOne, IbssTypeOK
<1>2. IbssPlaces'
  BY IbssBounds DEF ScanOne, IbssTypeOK, IbssPlaces, Macs
<1>3. QuietRecord'
  BY DEF ScanOne, QuietRecord
<1>4. RoundStands'
  BY DEF ScanOne, RoundStands
<1>5. QuietKept'
  <2>1. ibScan'.i = ibScan.i + 1 /\ ibScan'.np = ibScan.np
    BY DEF ScanOne
  <2>2. Sessions \subseteq Sessions'
    BY DEF ScanOne, Sessions
  <2>3. Len(ibPinged)' < Slots => Len(ibPinged) < Slots /\ ibPending[ibScan.i + 1] \in Sessions'
    <3> SUFFICES ASSUME Len(ibPinged)' < Slots
                 PROVE  Len(ibPinged) < Slots /\ ibPending[ibScan.i + 1] \in Sessions'
      OBVIOUS
    <3>1. Len(ibPinged) < Slots
      BY DEF ScanOne
    <3>2. CASE \A j \in DOMAIN ibPinged : ibPinged[j] # ibPending[ibScan.i + 1]
      <4>1. ibPinged' = Append(ibPinged, ibPending[ibScan.i + 1])
        BY <3>2 DEF ScanOne
      <4>2. ibPinged'[Len(ibPinged) + 1] = ibPending[ibScan.i + 1]
            /\ Len(ibPinged) + 1 \in DOMAIN ibPinged'
        BY <4>1
      <4> QED BY <3>1, <4>2 DEF Sessions
    <3>3. CASE \E j \in DOMAIN ibPinged : ibPinged[j] = ibPending[ibScan.i + 1]
      BY <2>2, <3>1, <3>3 DEF Sessions
    <3> QED BY <3>2, <3>3
  <2>4. ASSUME NEW q, Listed(q, ibScan.i + 1, ibScan.np)
        PROVE  q = ibPending[ibScan.i + 1] \/ Listed(q, ibScan.i + 1, ibScan.np)'
    BY <2>4 DEF IbssTypeOK, ScanOne, Listed
  <2> QED BY <2>2, <2>3, <2>4 DEF ScanOne, QuietKept
<1>6. EachPingedOnce'
  <2>1. ibPending[ibScan.i + 1] \in Macs
    BY IbssBounds DEF IbssTypeOK, ScanOne, Macs
  <2>2. \A i, j \in DOMAIN ibPinged' : ibPinged'[i] = ibPinged'[j] => i = j
    BY DEF ScanOne, EachPingedOnce
  <2> QED BY DEF ScanOne, EachPingedOnce
<1> QED BY <1>1, <1>2, <1>3, <1>4, <1>5, <1>6

LEMMA IbClearPending ==
  ASSUME IbssInv, ClearPending
  PROVE  IbssInv'
<1> USE DEF IbssInv, ibRound, ibBoot, ibCell
<1>1. IbssTypeOK'
  BY IbssBounds DEF ClearPending, IbssTypeOK
<1>2. IbssPlaces'
  BY DEF ClearPending, IbssPlaces
<1>3. QuietRecord'
  BY DEF ClearPending, QuietRecord
<1>4. RoundStands'
  BY DEF ClearPending, RoundStands
<1>5. QuietKept'
  BY DEF ClearPending, QuietKept
<1>6. EachPingedOnce'
  BY DEF ClearPending, IbssTypeOK, EachPingedOnce, QuietKept, Listed, Sessions
<1> QED BY <1>1, <1>2, <1>3, <1>4, <1>5, <1>6

LEMMA IbAgePeers ==
  ASSUME IbssInv, AgePeers
  PROVE  IbssInv'
<1> USE DEF IbssInv, ibRound, ibBoot, ibCell
<1>1. IbssTypeOK'
  BY DEF AgePeers, IbssTypeOK
<1>2. IbssPlaces'
  BY DEF AgePeers, IbssPlaces
<1>3. QuietRecord'
  BY DEF AgePeers, QuietRecord
<1>4. RoundStands'
  BY DEF AgePeers, RoundStands
<1>5. QuietKept'
  BY DEF AgePeers, QuietKept
<1>6. EachPingedOnce'
  BY DEF AgePeers, EachPingedOnce
<1> QED BY <1>1, <1>2, <1>3, <1>4, <1>5, <1>6

LEMMA IbOnPingSuccess ==
  ASSUME IbssInv, on_ping_success
  PROVE  IbssInv'
<1> USE DEF IbssInv, ibRound, ibBoot, ibCell
<1>1. IbssTypeOK'
  BY DEF on_ping_success, IbssTypeOK, IbssPlaces
<1>2. IbssPlaces'
  BY DEF on_ping_success, IbssPlaces
<1>3. QuietRecord'
  BY DEF on_ping_success, QuietRecord
<1>4. RoundStands'
  BY DEF on_ping_success, RoundStands
<1>5. QuietKept'
  BY DEF on_ping_success, QuietKept
<1>6. EachPingedOnce'
  BY DEF on_ping_success, EachPingedOnce
<1> QED BY <1>1, <1>2, <1>3, <1>4, <1>5, <1>6

LEMMA IbPollEnds ==
  ASSUME IbssInv, PollEnds
  PROVE  IbssInv'
<1> USE DEF IbssInv, ibRound, ibBoot, ibCell
<1>1. IbssTypeOK'
  BY DEF PollEnds, IbssTypeOK, IbssPlaces
<1>2. IbssPlaces'
  BY DEF PollEnds, IbssPlaces
<1>3. QuietRecord'
  BY DEF PollEnds, QuietRecord
<1>4. RoundStands'
  BY DEF PollEnds, RoundStands
<1>5. QuietKept'
  BY DEF PollEnds, QuietKept
<1>6. EachPingedOnce'
  BY DEF PollEnds, EachPingedOnce
<1> QED BY <1>1, <1>2, <1>3, <1>4, <1>5, <1>6

LEMMA IbssStep == IbssInv /\ [IbssNext]_ibVars => IbssInv'
<1> SUFFICES ASSUME IbssInv, [IbssNext]_ibVars
             PROVE  IbssInv'
  OBVIOUS
<1>1. CASE UNCHANGED ibVars
  BY <1>1 DEF ibVars, ibCell, ibRound, ibBoot, IbssInv, IbssTypeOK, IbssPlaces, QuietRecord,
     RoundStands, QuietKept, EachPingedOnce, Sessions, Listed
<1> QED
  BY <1>1, IbIbssStart, IbCreateStart, IbMeasureStart, IbTestStart, IbPeerAdded, IbCbCount,
     IbCbCopy, IbRoundBegins, IbScanOne, IbClearPending, IbAgePeers, IbOnPingSuccess,
     IbPollEnds DEF IbssNext

(* Every station recorded while the main loop slept has its session when    *)
(* the next round is over, unless the table of sessions is full, and no     *)
(* station gets two, however often it ages out or a torn count shows old    *)
(* entries again (peer_cb and the rounds of app_main).  For any boards      *)
(* and any interleaving of the callback's steps with the scan.              *)
THEOREM OncePinged == IbssSpec => [](IbssTypeOK /\ EachPingedOnce)
<1>1. IbssInv => IbssTypeOK /\ EachPingedOnce
  BY DEF IbssInv
<1> QED BY <1>1, IbssInvInit, IbssStep, PTL DEF IbssSpec

-----------------------------------------------------------------------------
(* THE READER OF THE RAW STATISTICS.  tlv_find walks over words whose       *)
(* layout the walk itself discovers.  Where each record lies is shown by    *)
(* induction over the records, as the least counterexample; that the walk   *)
(* is defined, by induction from the end of the buffer.  Then tlv_find      *)
(* meets exactly the records that arrived whole.                            *)

(* A set of naturals that is not empty has a least element.  What holds     *)
(* at zero, and at each number if it does at the one before, holds at       *)
(* every number: look at the least one where it does not.                   *)
LEMMA LeastOf ==
  ASSUME NEW T, T \subseteq Nat, T # {}
  PROVE  \E x \in T : \A y \in T : x <= y
<1> DEFINE order == OpToRel(<, Nat)
<1>1. IsWellFoundedOn(order, Nat)
  BY NatLessThanWellFounded
<1>2. PICK x \in T : \A y \in T : ~(<<y, x>> \in order)
  <2> HIDE DEF order
  <2> QED BY <1>1, WFMin
<1>3. \A y \in T : ~(y < x)
  BY <1>2 DEF OpToRel
<1> QED BY <1>3

(* The function FlattenSeq is defined by.                                   *)
Flattens(F, q, n) == F = [i \in 1 .. n |-> IF i = 1 THEN q[i] ELSE F[i - 1] \o q[i]]

LEMMA FlattenIs ==
  ASSUME NEW q, Len(q) # 0
  PROVE  FlattenSeq(q) = (CHOOSE F : Flattens(F, q, Len(q)))[Len(q)]
BY DEF FlattenSeq, Flattens

(* There is one: a function as wanted up to k - 1 extends to k.             *)
LEMMA FlattenFcn ==
  ASSUME NEW q, NEW n \in Nat
  PROVE  \E F : Flattens(F, q, n)
<1> DEFINE T == {k \in 0 .. n : ~\E F : Flattens(F, q, k)}
<1> SUFFICES ASSUME T # {}
             PROVE  FALSE
  OBVIOUS
<1>1. PICK k \in T : \A y \in T : k <= y
  <2>1. T \subseteq Nat
    OBVIOUS
  <2> HIDE DEF T
  <2> QED BY <2>1, LeastOf
<1>2. CASE k = 0
  <2>1. Flattens([i \in 1 .. 0 |-> q[i]], q, 0)
    BY DEF Flattens
  <2> QED BY <1>1, <1>2, <2>1
<1>3. CASE k # 0
  <2>1. k \in 1 .. n /\ k - 1 \in 0 .. n /\ ~(k <= k - 1)
    <3>1. k \in 0 .. n
      BY <1>1, Zenon
    <3> QED BY <1>3, <3>1
  <2>2. PICK F : Flattens(F, q, k - 1)
    <3>1. k - 1 \notin T
      <4> HIDE DEF T
      <4> QED BY <1>1, <2>1
    <3> QED BY <2>1, <3>1, Zenon
  <2> DEFINE G == [i \in 1 .. k |-> IF i = 1 THEN q[i] ELSE F[i - 1] \o q[i]]
  <2>3. \A i \in 1 .. k - 1 : G[i] = F[i]
    <3>1. 1 .. k - 1 \subseteq 1 .. k
      BY <2>1
    <3>2. \A i \in 1 .. k - 1 : F[i] = IF i = 1 THEN q[i] ELSE F[i - 1] \o q[i]
      BY <2>2 DEF Flattens
    <3> QED BY <3>1, <3>2
  <2>4. \A i \in 1 .. k : i # 1 => i - 1 \in 1 .. k - 1
    BY <2>1
  <2>5. Flattens(G, q, k)
    BY <2>3, <2>4 DEF Flattens
  <2> HIDE DEF G
  <2> QED BY <1>1, <2>5
<1> QED BY <1>2, <1>3

LEMMA FlattenByFcn ==
  ASSUME NEW q, Len(q) \in Nat \ {0}
  PROVE  \E F : Flattens(F, q, Len(q)) /\ FlattenSeq(q) = F[Len(q)]
<1> DEFINE F == CHOOSE F : Flattens(F, q, Len(q))
<1>1. Flattens(F, q, Len(q))
  BY FlattenFcn
<1>2. FlattenSeq(q) = F[Len(q)]
  BY FlattenIs
<1> HIDE DEF F
<1> QED BY <1>1, <1>2

(* A sequence longer by one: its last element comes behind the rest.        *)
LEMMA FlattenSnoc ==
  ASSUME NEW S, NEW q \in Seq(Seq(S)), NEW p \in Seq(Seq(S)), Len(q) = Len(p) + 1,
         \A i \in 1 .. Len(p) : p[i] = q[i]
  PROVE  FlattenSeq(q) = FlattenSeq(p) \o q[Len(q)]
<1> DEFINE n == Len(p)
<1>1. n \in Nat /\ Len(q) = n + 1 /\ q[n + 1] \in Seq(S)
  OBVIOUS
<1>2. PICK F : Flattens(F, q, n + 1) /\ FlattenSeq(q) = F[n + 1]
  <2>1. Len(q) \in Nat \ {0}
    BY <1>1
  <2>2. \E F : Flattens(F, q, Len(q)) /\ FlattenSeq(q) = F[Len(q)]
    BY <2>1, FlattenByFcn
  <2> QED BY <1>1, <2>2
<1>3. CASE n = 0
  <2>1. FlattenSeq(p) = <<>>
    BY <1>3 DEF FlattenSeq
  <2>2. FlattenSeq(q) = q[1]
    BY <1>2, <1>3 DEF Flattens
  <2> QED BY <1>1, <1>3, <2>1, <2>2
<1>4. CASE n # 0
  <2>1. PICK G : Flattens(G, p, n) /\ FlattenSeq(p) = G[n]
    BY <1>1, <1>4, FlattenByFcn
  <2> DEFINE T == {i \in 1 .. n : F[i] # G[i]}
  <2>2. T = {}
    <3> SUFFICES ASSUME T # {}
                 PROVE  FALSE
      OBVIOUS
    <3>1. PICK i \in T : \A y \in T : i <= y
      <4>1. T \subseteq Nat
        OBVIOUS
      <4> HIDE DEF T
      <4> QED BY <4>1, LeastOf
    <3>2. CASE i = 1
      BY <1>2, <2>1, <3>1, <3>2 DEF Flattens
    <3>3. CASE i # 1
      <4>1. i \in 1 .. n /\ i \in 2 .. n /\ i - 1 \in 1 .. n /\ F[i - 1] = G[i - 1]
        <5>1. i \in 1 .. n /\ i \in 2 .. n /\ i - 1 \in 1 .. n /\ ~(i <= i - 1)
          <6>1. i \in 1 .. n /\ n \in Nat
            BY <1>1, <3>1, Zenon
          <6> HIDE DEF n, T
          <6> QED BY <3>3, <6>1
        <5>2. i - 1 \notin T
          BY <3>1, <5>1
        <5> QED BY <5>1, <5>2
      <4>2. F[i] = F[i - 1] \o q[i]
        <5>1. i \in 1 .. n + 1 /\ i # 1
          BY <1>1, <4>1
        <5> QED BY <1>2, <5>1, Zenon DEF Flattens
      <4>3. G[i] = G[i - 1] \o p[i]
        <5>1. i \in 1 .. n /\ i # 1
          BY <1>1, <4>1
        <5> QED BY <2>1, <5>1, Zenon DEF Flattens
      <4> QED BY <3>1, <4>1, <4>2, <4>3
    <3> QED BY <3>2, <3>3
  <2>3. F[n] = G[n]
    <3>1. n \in 1 .. n
      BY <1>1, <1>4
    <3> QED BY <2>2, <3>1
  <2>4. F[n + 1] = F[n] \o q[n + 1]
    <3>1. n + 1 \in 1 .. n + 1 /\ n + 1 # 1 /\ n + 1 - 1 = n
      BY <1>1, <1>4
    <3> DEFINE i == n + 1
    <3>2. i \in 1 .. n + 1 /\ i # 1 /\ i - 1 = n
      BY <3>1
    <3> HIDE DEF i
    <3>3. F[i] = F[i - 1] \o q[i]
      BY <1>2, <3>2, Zenon DEF Flattens
    <3>4. F[i] = F[n] \o q[i]
      BY <3>2, <3>3
    <3> QED BY <3>4 DEF i
  <2> QED BY <1>1, <1>2, <2>1, <2>3, <2>4
<1> QED BY <1>3, <1>4

(* What the proofs below need of a record.                                  *)
RawRecord == [tag : Nat, value : Seq(Nat)]

Words(record) == <<record.tag, Len(record.value)>> \o record.value

(* The words of the first i records.                                        *)
First(r, i) == Flat(SubSeq(r, 1, i))

LEMMA FirstGrows ==
  ASSUME NEW r \in Seq(RawRecord), NEW i \in 1 .. Len(r)
  PROVE  First(r, i) = First(r, i - 1) \o Words(r[i])
<1> DEFINE a == SubSeq(r, 1, i - 1)
           b == SubSeq(r, 1, i)
           p == [k \in DOMAIN a |-> <<a[k].tag, Len(a[k].value)>> \o a[k].value]
           q == [k \in DOMAIN b |-> <<b[k].tag, Len(b[k].value)>> \o b[k].value]
<1>1. /\ a \in Seq(RawRecord) /\ Len(a) = i - 1
      /\ \A k \in 1 .. i - 1 : a[k] = r[k]
  OBVIOUS
<1>2. /\ b \in Seq(RawRecord) /\ Len(b) = i
      /\ \A k \in 1 .. i : b[k] = r[k]
  OBVIOUS
<1>3. DOMAIN a = 1 .. i - 1 /\ DOMAIN b = 1 .. i
  <2> HIDE DEF a, b
  <2> QED BY <1>1, <1>2
<1>4. \A k \in 1 .. i : Words(r[k]) \in Seq(Nat)
  <2> SUFFICES ASSUME NEW k \in 1 .. i
               PROVE  Words(r[k]) \in Seq(Nat)
    OBVIOUS
  <2>1. r[k] \in RawRecord
    OBVIOUS
  <2>2. r[k].tag \in Nat /\ r[k].value \in Seq(Nat)
    BY <2>1 DEF RawRecord
  <2> QED BY <2>2 DEF Words
<1>5. p = [k \in 1 .. i - 1 |-> Words(r[k])] /\ q = [k \in 1 .. i |-> Words(r[k])]
  <2> HIDE DEF a, b
  <2> QED BY <1>1, <1>2, <1>3 DEF Words
<1>6. p \in Seq(Seq(Nat)) /\ Len(p) = i - 1 /\ q \in Seq(Seq(Nat)) /\ Len(q) = i
  <2> HIDE DEF p, q
  <2> QED BY <1>4, <1>5
<1>7. \A k \in 1 .. Len(p) : p[k] = q[k]
  <2> HIDE DEF p, q
  <2> QED BY <1>5, <1>6
<1>8. FlattenSeq(q) = FlattenSeq(p) \o q[Len(q)]
  <2>1. Len(q) = Len(p) + 1
    <3> HIDE DEF p, q
    <3> QED BY <1>6
  <2> HIDE DEF p, q
  <2> QED BY <1>6, <1>7, <2>1, FlattenSnoc
<1>9. q[Len(q)] = Words(r[i])
  <2> HIDE DEF p, q
  <2> QED BY <1>5, <1>6
<1> QED BY <1>8, <1>9, Zenon DEF First, Flat

LEMMA FirstEnds ==
  ASSUME NEW r \in Seq(RawRecord)
  PROVE  First(r, 0) = <<>> /\ First(r, Len(r)) = Flat(r)
<1>1. SubSeq(r, 1, 0) = <<>> /\ SubSeq(r, 1, Len(r)) = r
  OBVIOUS
<1>2. Flat(<<>>) = <<>>
  BY DEF Flat, FlattenSeq
<1> QED BY <1>1, <1>2 DEF First

LEMMA WordsType ==
  ASSUME NEW r \in Seq(RawRecord), NEW i \in 1 .. Len(r)
  PROVE  /\ r[i].tag \in Nat /\ r[i].value \in Seq(Nat) /\ Words(r[i]) \in Seq(Nat)
         /\ Len(Words(r[i])) = Hdr + Len(r[i].value)
         /\ Words(r[i])[1] = r[i].tag /\ Words(r[i])[2] = Len(r[i].value)
         /\ r[i].value # <<>> => Words(r[i])[3] = r[i].value[1]
<1>1. r[i] \in RawRecord
  OBVIOUS
<1>2. r[i].tag \in Nat /\ r[i].value \in Seq(Nat)
  BY <1>1 DEF RawRecord
<1>3. \A v \in Seq(Nat) : v # <<>> => Len(v) > 0
  OBVIOUS
<1> QED BY <1>2, <1>3 DEF Words, Hdr

LEMMA FirstType ==
  ASSUME NEW r \in Seq(RawRecord), NEW i \in 0 .. Len(r)
  PROVE  First(r, i) \in Seq(Nat)
<1> DEFINE Typed(k) == First(r, k) \in Seq(Nat)
           T == {k \in 0 .. Len(r) : ~Typed(k)}
<1> SUFFICES ASSUME T # {}
             PROVE  FALSE
  OBVIOUS
<1>1. PICK k \in T : \A y \in T : k <= y
  <2>1. T \subseteq Nat
    OBVIOUS
  <2> HIDE DEF T
  <2> QED BY <2>1, LeastOf
<1>2. k \in 0 .. Len(r) /\ ~Typed(k) /\ \A y \in 0 .. Len(r) : y < k => Typed(y)
  <2> HIDE DEF Typed
  <2> QED BY <1>1
<1>3. Typed(0)
  <2>1. First(r, 0) = <<>> /\ <<>> \in Seq(Nat)
    BY FirstEnds
  <2> QED BY <2>1, Zenon
<1>4. k # 0
  <2> HIDE DEF Typed
  <2> QED BY <1>2, <1>3
<1>5. k \in 1 .. Len(r) /\ Typed(k - 1)
  <2>1. k \in 1 .. Len(r) /\ k - 1 \in 0 .. Len(r) /\ k - 1 < k
    BY <1>2, <1>4
  <2> HIDE DEF Typed
  <2> QED BY <1>2, <2>1
<1>6. Typed(k)
  <2>1. First(r, k) = First(r, k - 1) \o Words(r[k]) /\ Words(r[k]) \in Seq(Nat)
    BY <1>5, FirstGrows, WordsType
  <2>2. \A s, t \in Seq(Nat) : s \o t \in Seq(Nat)
    OBVIOUS
  <2> QED BY <1>5, <2>1, <2>2, Zenon
<1> QED BY <1>2, <1>6

(* What the earlier records put there stays there.                          *)
LEMMA FirstIsPrefix ==
  ASSUME NEW r \in Seq(RawRecord), NEW i \in 0 .. Len(r), NEW j \in 0 .. i
  PROVE  /\ Len(First(r, j)) <= Len(First(r, i))
         /\ \A w \in 1 .. Len(First(r, j)) : First(r, i)[w] = First(r, j)[w]
<1> DEFINE Kept(k) == /\ Len(First(r, j)) <= Len(First(r, k))
                      /\ \A w \in 1 .. Len(First(r, j)) : First(r, k)[w] = First(r, j)[w]
           T == {k \in j .. Len(r) : ~Kept(k)}
<1>1. Len(r) \in Nat /\ i \in j .. Len(r)
  OBVIOUS
<1> SUFFICES ASSUME T # {}
             PROVE  FALSE
  BY <1>1
<1>2. PICK k \in T : \A y \in T : k <= y
  <2>1. T \subseteq Nat
    OBVIOUS
  <2> HIDE DEF T
  <2> QED BY <2>1, LeastOf
<1>3. \A n \in 0 .. Len(r) : First(r, n) \in Seq(Nat)
  BY FirstType
<1>4. k # j
  BY <1>1, <1>2, <1>3
<1>5. k \in 1 .. Len(r) /\ k - 1 \in j .. Len(r) /\ k - 1 \notin T
  BY <1>1, <1>2, <1>4
<1>6. First(r, k) = First(r, k - 1) \o Words(r[k]) /\ Words(r[k]) \in Seq(Nat)
  BY <1>5, FirstGrows, WordsType
<1>7. Kept(k - 1)
  BY <1>5
<1>8. /\ First(r, k - 1) \in Seq(Nat) /\ First(r, j) \in Seq(Nat) /\ j \in Nat /\ j <= k - 1
  BY <1>3, <1>5
<1>9. Kept(k)
  <2>1. Len(First(r, k)) = Len(First(r, k - 1)) + Len(Words(r[k]))
    BY <1>6, <1>8
  <2>2. ASSUME NEW w \in 1 .. Len(First(r, j))
        PROVE  First(r, k)[w] = First(r, j)[w]
    <3>1. w \in 1 .. Len(First(r, k - 1))
      BY <1>7, <1>8
    <3>2. First(r, k)[w] = First(r, k - 1)[w]
      BY <1>6, <1>8, <3>1
    <3> QED BY <1>7, <3>2
  <2> QED BY <1>6, <1>7, <1>8, <2>1, <2>2
<1> QED BY <1>2, <1>9

(* Record i begins where those before it end: its tag, its length, its      *)
(* value.                                                                   *)
LEMMA Layout ==
  ASSUME NEW r \in Seq(RawRecord), NEW i \in 1 .. Len(r), NEW off, off = Len(First(r, i - 1))
  PROVE  /\ off \in Nat /\ Len(First(r, i)) = off + Hdr + Len(r[i].value)
         /\ Len(First(r, i)) <= Len(Flat(r)) /\ Len(r[i].value) \in Nat
         /\ Flat(r)[off + 1] = r[i].tag /\ Flat(r)[off + 2] = Len(r[i].value)
         /\ r[i].value # <<>> => Flat(r)[off + 3] = r[i].value[1]
<1> DEFINE a == First(r, i - 1)
           b == First(r, i)
           w == Words(r[i])
           n == Len(r[i].value)
<1>1. Len(r) \in Nat /\ i - 1 \in 0 .. Len(r) /\ i \in 0 .. Len(r) /\ Len(r) \in 0 .. Len(r)
  OBVIOUS
<1>2. a \in Seq(Nat) /\ b \in Seq(Nat)
  BY <1>1, FirstType
<1>3. b = a \o w
  BY FirstGrows
<1>4. /\ n \in Nat /\ w \in Seq(Nat) /\ Len(w) = Hdr + n /\ w[1] = r[i].tag /\ w[2] = n
      /\ r[i].value # <<>> => w[3] = r[i].value[1] /\ n >= 1
  <2>1. \A v \in Seq(Nat) : Len(v) \in Nat /\ (v # <<>> => Len(v) >= 1)
    OBVIOUS
  <2> QED BY <2>1, WordsType
<1>5. /\ Len(b) <= Len(Flat(r))
      /\ \A k \in 1 .. Len(b) : Flat(r)[k] = b[k]
  <2>1. First(r, Len(r)) = Flat(r)
    BY FirstEnds
  <2>2. /\ Len(b) <= Len(First(r, Len(r)))
        /\ \A k \in 1 .. Len(b) : First(r, Len(r))[k] = b[k]
    BY <1>1, FirstIsPrefix
  <2> QED BY <2>1, <2>2
<1>6. off = Len(a)
  OBVIOUS
<1> HIDE DEF a, b, w, n
<1>7. off \in Nat /\ Len(b) = off + Hdr + n /\ \A k \in 1 .. Hdr + n : b[off + k] = w[k]
  <2>1. \A s, t \in Seq(Nat) : /\ Len(s) \in Nat /\ Len(s \o t) = Len(s) + Len(t)
                               /\ \A k \in 1 .. Len(t) : (s \o t)[Len(s) + k] = t[k]
    OBVIOUS
  <2>2. /\ Len(a) \in Nat /\ Len(b) = Len(a) + Len(w)
        /\ \A k \in 1 .. Len(w) : b[Len(a) + k] = w[k]
    BY <1>2, <1>3, <1>4, <2>1, Zenon
  <2>3. \A k \in 1 .. Hdr + n : b[off + k] = w[k]
    BY <1>4, <1>6, <2>2, Zenon
  <2>4. off \in Nat /\ Len(b) = off + (Hdr + n)
    BY <1>4, <1>6, <2>2, Zenon
  <2>5. off + (Hdr + n) = off + Hdr + n
    BY <1>4, <2>4 DEF Hdr
  <2> QED BY <2>3, <2>4, <2>5, Zenon
<1>9. \A k \in 1 .. Hdr + n : Flat(r)[off + k] = w[k]
  <2> SUFFICES ASSUME NEW k \in 1 .. Hdr + n
               PROVE  Flat(r)[off + k] = w[k]
    OBVIOUS
  <2>1. off + k \in 1 .. Len(b)
    <3>1. off \in Nat /\ n \in Nat /\ Len(b) = off + Hdr + n
      BY <1>4, <1>7, Zenon
    <3> QED BY <3>1 DEF Hdr
  <2> QED BY <1>5, <1>7, <2>1
<1>10. /\ Flat(r)[off + 1] = r[i].tag /\ Flat(r)[off + 2] = n
       /\ r[i].value # <<>> => Flat(r)[off + 3] = r[i].value[1]
  <2>1. 1 \in 1 .. Hdr + n /\ 2 \in 1 .. Hdr + n /\ (n >= 1 => 3 \in 1 .. Hdr + n)
    BY <1>4 DEF Hdr
  <2> QED BY <1>4, <1>9, <2>1
<1> QED BY <1>4, <1>5, <1>7, <1>10 DEF b, n

(* The function tlv_find takes the value of, which exists because the       *)
(* walk moves on: a record that fits has a length other than zero.          *)
Walked(W, buf, room, tag) ==
    W = [off \in 0 .. room |->
            IF ~Fits(buf, room, off) THEN NULL
            ELSE IF buf[off + 1] = tag THEN off
            ELSE W[off + Hdr + buf[off + 2]]]

LEMMA WalkIs ==
  ASSUME NEW buf, NEW room, NEW tag
  PROVE  tlv_find(buf, room, tag) = (CHOOSE W : Walked(W, buf, room, tag))[0]
BY DEF tlv_find, Walked

LEMMA FitsInside ==
  ASSUME NEW room \in Nat, NEW buf \in Seq(Nat), room <= Len(buf),
         NEW off \in 0 .. room, Fits(buf, room, off)
  PROVE  /\ off + Hdr + buf[off + 2] \in off + 1 .. room
         /\ off + 3 <= room
<1>1. off + 2 \in 1 .. Len(buf) /\ buf[off + 2] # 0 /\ off + Hdr + buf[off + 2] <= room
  BY DEF Fits, Hdr
<1>2. buf[off + 2] \in Nat
  BY <1>1
<1> QED BY <1>1, <1>2 DEF Hdr

(* It extends downwards, from the end of the room to the first word.        *)
LEMMA WalkExists ==
  ASSUME NEW room \in Nat, NEW buf \in Seq(Nat), room <= Len(buf), NEW tag
  PROVE  \E W : Walked(W, buf, room, tag)
<1> DEFINE From(W, k) == W = [off \in k .. room |->
                                 IF ~Fits(buf, room, off) THEN NULL
                                 ELSE IF buf[off + 1] = tag THEN off
                                 ELSE W[off + Hdr + buf[off + 2]]]
           T == {k \in 0 .. room : ~\E W : From(W, room - k)}
<1>0. ASSUME T = {}
      PROVE  \E W : Walked(W, buf, room, tag)
  <2>1. room \in 0 .. room /\ room - room = 0
    OBVIOUS
  <2>2. \E W : From(W, 0)
    <3> HIDE DEF From
    <3> QED BY <1>0, <2>1
  <2> QED BY <2>2, Zenon DEF Walked
<1> SUFFICES ASSUME T # {}
             PROVE  FALSE
  BY <1>0
<1>1. PICK k \in T : \A y \in T : k <= y
  <2>1. T \subseteq Nat
    OBVIOUS
  <2> HIDE DEF T
  <2> QED BY <2>1, LeastOf
<1>2. PICK V : \A off \in room - k + 1 .. room :
                  V[off] = IF ~Fits(buf, room, off) THEN NULL
                           ELSE IF buf[off + 1] = tag THEN off
                           ELSE V[off + Hdr + buf[off + 2]]
  <2>1. CASE k = 0
    BY <2>1
  <2>2. CASE k # 0
    <3>1. k - 1 \in 0 .. room /\ ~(k <= k - 1) /\ room - (k - 1) = room - k + 1
      <4>1. k \in 0 .. room
        BY <1>1, Zenon
      <4> QED BY <2>2, <4>1
    <3>2. k - 1 \notin T
      <4> HIDE DEF T
      <4> QED BY <1>1, <3>1
    <3>3. PICK V : From(V, room - k + 1)
      <4> HIDE DEF From
      <4> QED BY <3>1, <3>2
    <3> QED BY <3>3
  <2> QED BY <2>1, <2>2
<1> DEFINE j == room - k
<1>3. j \in 0 .. room
  BY <1>1
<1> DEFINE G == [off \in j .. room |->
                    IF ~Fits(buf, room, off) THEN NULL
                    ELSE IF buf[off + 1] = tag THEN off
                    ELSE V[off + Hdr + buf[off + 2]]]
<1>4. \A off \in j + 1 .. room : G[off] = V[off]
  <2>1. j + 1 .. room \subseteq j .. room
    BY <1>3
  <2> HIDE DEF j
  <2> QED BY <1>2, <2>1 DEF j
<1>5. \A off \in j .. room : Fits(buf, room, off) => off + Hdr + buf[off + 2] \in j + 1 .. room
  <2> SUFFICES ASSUME NEW off \in j .. room, Fits(buf, room, off)
               PROVE  off + Hdr + buf[off + 2] \in j + 1 .. room
    OBVIOUS
  <2>1. off \in 0 .. room /\ off >= j
    BY <1>3
  <2>2. off + Hdr + buf[off + 2] \in off + 1 .. room
    BY <2>1, FitsInside
  <2> HIDE DEF j
  <2> QED BY <1>3, <2>1, <2>2
<1>6. From(G, j)
  <2> HIDE DEF j
  <2> QED BY <1>4, <1>5
<1> HIDE DEF G
<1> QED BY <1>1, <1>6

LEMMA WalkByFcn ==
  ASSUME NEW room \in Nat, NEW buf \in Seq(Nat), room <= Len(buf), NEW tag
  PROVE  \E W : /\ tlv_find(buf, room, tag) = W[0]
                /\ \A off \in 0 .. room :
                      /\ ~Fits(buf, room, off) => W[off] = NULL
                      /\ Fits(buf, room, off) /\ buf[off + 1] = tag => W[off] = off
                      /\ Fits(buf, room, off) /\ buf[off + 1] # tag
                           => W[off] = W[off + Hdr + buf[off + 2]]
<1> DEFINE W == CHOOSE W : Walked(W, buf, room, tag)
<1>1. Walked(W, buf, room, tag)
  BY WalkExists
<1>2. tlv_find(buf, room, tag) = W[0]
  BY WalkIs
<1> HIDE DEF W
<1>3. \A off \in 0 .. room :
         W[off] = IF ~Fits(buf, room, off) THEN NULL
                  ELSE IF buf[off + 1] = tag THEN off
                  ELSE W[off + Hdr + buf[off + 2]]
  BY <1>1, Zenon DEF Walked
<1> QED BY <1>2, <1>3

(* The buffer holds the first room words of the records.                    *)
Holds(buf, room, r) ==
    /\ buf \in Seq(Nat) /\ room \in 0 .. Len(buf) /\ room <= Len(Flat(r))
    /\ \A k \in 1 .. room : buf[k] = Flat(r)[k]

(* Where a record begins, the walk sees it if it is whole and not empty,    *)
(* and stops if it is not.                                                  *)
LEMMA HeaderAt ==
  ASSUME NEW r \in Seq(RawRecord), NEW buf, NEW room, Holds(buf, room, r),
         NEW i \in 1 .. Len(r), NEW off, off = Len(First(r, i - 1)), off <= room
  PROVE  /\ off \in 0 .. room
         /\ Fits(buf, room, off) <=> r[i].value # <<>> /\ Len(First(r, i)) <= room
         /\ Fits(buf, room, off) =>
               /\ buf[off + 1] = r[i].tag /\ buf[off + 2] = Len(r[i].value)
               /\ buf[off + 3] = r[i].value[1]
               /\ off + Hdr + buf[off + 2] = Len(First(r, i))
<1> DEFINE len == Len(r[i].value)
           end == Len(First(r, i))
<1>1. /\ off \in Nat /\ end = off + Hdr + len /\ len \in Nat
      /\ Flat(r)[off + 1] = r[i].tag /\ Flat(r)[off + 2] = len
      /\ r[i].value # <<>> => Flat(r)[off + 3] = r[i].value[1]
  BY Layout
<1>2. /\ room \in Nat
      /\ \A k \in 1 .. room : buf[k] = Flat(r)[k]
  BY DEF Holds
<1>3. r[i].value # <<>> <=> len # 0
  <2>1. r[i].value \in Seq(Nat)
    BY WordsType
  <2>2. \A v \in Seq(Nat) : v # <<>> <=> Len(v) # 0
    OBVIOUS
  <2> QED BY <2>1, <2>2, Zenon
<1> HIDE DEF len, end
<1>4. off \in 0 .. room
  BY <1>1, <1>2
<1>5. off + Hdr <= room => /\ buf[off + 1] = Flat(r)[off + 1]
                           /\ buf[off + 2] = Flat(r)[off + 2]
  <2> SUFFICES ASSUME off + 2 <= room
               PROVE  /\ buf[off + 1] = Flat(r)[off + 1]
                      /\ buf[off + 2] = Flat(r)[off + 2]
    BY DEF Hdr
  <2>1. off + 1 \in 1 .. room /\ off + 2 \in 1 .. room
    BY <1>1, <1>2
  <2> QED BY <1>2, <2>1
<1>6. off + 3 <= room => buf[off + 3] = Flat(r)[off + 3]
  <2> SUFFICES ASSUME off + 3 <= room
               PROVE  buf[off + 3] = Flat(r)[off + 3]
    OBVIOUS
  <2>1. off + 3 \in 1 .. room
    BY <1>1, <1>2
  <2> QED BY <1>2, <2>1
<1>7. Fits(buf, room, off) <=> len # 0 /\ end <= room
  BY <1>1, <1>2, <1>5 DEF Fits, Hdr
<1>8. Fits(buf, room, off) =>
         /\ buf[off + 1] = r[i].tag /\ buf[off + 2] = len
         /\ buf[off + 3] = r[i].value[1]
         /\ off + Hdr + buf[off + 2] = end
  <2> SUFFICES ASSUME Fits(buf, room, off)
               PROVE  /\ buf[off + 1] = r[i].tag /\ buf[off + 2] = len
                      /\ buf[off + 3] = r[i].value[1]
                      /\ off + Hdr + buf[off + 2] = end
    OBVIOUS
  <2>1. len # 0 /\ end <= room
    BY <1>7
  <2>2. off + Hdr <= room /\ off + 3 <= room
    BY <1>1, <1>2, <2>1 DEF Hdr
  <2> QED BY <1>1, <1>3, <1>5, <1>6, <2>1, <2>2
<1> QED BY <1>3, <1>4, <1>7, <1>8 DEF len, end

LEMMA HeaderRead ==
  ASSUME NEW r \in Seq(RawRecord), NEW buf, NEW room, Holds(buf, room, r),
         NEW i \in 1 .. Len(r), NEW off, off = Len(First(r, i - 1)), off <= room,
         Fits(buf, room, off)
  PROVE  /\ buf[off + 1] = r[i].tag /\ buf[off + 2] = Len(r[i].value)
         /\ buf[off + 3] = r[i].value[1]
         /\ off + Hdr + buf[off + 2] = Len(First(r, i))
BY HeaderAt

(* What the walk does at each word.                                         *)
WalksOn(W, buf, room, tag) ==
    \A off \in 0 .. room :
       /\ ~Fits(buf, room, off) => W[off] = NULL
       /\ Fits(buf, room, off) /\ buf[off + 1] = tag => W[off] = off
       /\ Fits(buf, room, off) /\ buf[off + 1] # tag
            => W[off] = W[off + Hdr + buf[off + 2]]

(* Record i and those before it are in the first room words, none of them   *)
(* empty.                                                                   *)
Within(r, room, i) ==
    /\ Len(First(r, i)) <= room
    /\ \A j \in 1 .. i : r[j].value # <<>>

LEMMA WithinBefore ==
  ASSUME NEW r \in Seq(RawRecord), NEW room \in Nat, NEW i \in 0 .. Len(r), Within(r, room, i),
         NEW j \in 0 .. i
  PROVE  Within(r, room, j) /\ Len(First(r, j)) \in 0 .. room
<1>1. Len(First(r, j)) <= Len(First(r, i))
  BY FirstIsPrefix
<1>2. Len(r) \in Nat /\ j \in 0 .. Len(r)
  OBVIOUS
<1>3. First(r, j) \in Seq(Nat) /\ First(r, i) \in Seq(Nat)
  BY <1>2, FirstType
<1>4. Len(First(r, j)) \in Nat /\ Len(First(r, i)) \in Nat
  <2>1. \A s \in Seq(Nat) : Len(s) \in Nat
    OBVIOUS
  <2> QED BY <1>3, <2>1, Zenon
<1>5. Len(First(r, i)) <= room
  BY DEF Within
<1> QED BY <1>1, <1>4, <1>5 DEF Within

(* The walk comes by every record that is within the room, if it finds no   *)
(* tag before.                                                              *)
LEMMA WalkReaches ==
  ASSUME NEW r \in Seq(RawRecord), NEW buf, NEW room, Holds(buf, room, r), NEW tag, NEW W,
         WalksOn(W, buf, room, tag), NEW i \in 0 .. Len(r), Within(r, room, i),
         \A j \in 1 .. i : r[j].tag # tag
  PROVE  W[0] = W[Len(First(r, i))]
<1> DEFINE At(k) == Len(First(r, k))
           T == {k \in 0 .. i : W[0] # W[At(k)]}
<1>1. Len(r) \in Nat /\ i \in Nat /\ i <= Len(r) /\ room \in Nat
  BY DEF Holds
<1> SUFFICES ASSUME T # {}
             PROVE  FALSE
  BY <1>1
<1>2. PICK k \in T : \A y \in T : k <= y
  <2>1. T \subseteq Nat
    BY <1>1
  <2> HIDE DEF T
  <2> QED BY <2>1, LeastOf
<1>3. k \in 0 .. i /\ W[0] # W[At(k)] /\ \A y \in 0 .. i : y < k => W[0] = W[At(y)]
  <2> HIDE DEF At
  <2> QED BY <1>1, <1>2
<1>4. At(0) = 0
  BY FirstEnds
<1>5. k # 0
  <2> HIDE DEF At
  <2> QED BY <1>3, <1>4
<1>6. k \in 1 .. i /\ k \in 1 .. Len(r) /\ k - 1 \in 0 .. i /\ k - 1 < k
  BY <1>1, <1>3, <1>5
<1>7. W[0] = W[At(k - 1)]
  <2> HIDE DEF At
  <2> QED BY <1>3, <1>6
<1>8. Within(r, room, k) /\ At(k) <= room /\ At(k - 1) \in 0 .. room /\ At(k - 1) <= room
  <2>1. k \in 0 .. i
    BY <1>6
  <2> QED BY <1>1, <1>6, <2>1, WithinBefore
<1>9. r[k].value # <<>>
  BY <1>6 DEF Within
<1>10. /\ Fits(buf, room, At(k - 1)) /\ buf[At(k - 1) + 1] = r[k].tag
       /\ At(k - 1) + Hdr + buf[At(k - 1) + 2] = At(k)
  <2> DEFINE off == At(k - 1)
  <2>1. off = Len(First(r, k - 1)) /\ off <= room /\ Len(First(r, k)) <= room
    BY <1>8
  <2> SUFFICES /\ Fits(buf, room, off) /\ buf[off + 1] = r[k].tag
               /\ off + Hdr + buf[off + 2] = Len(First(r, k))
    OBVIOUS
  <2> HIDE DEF off
  <2>2. Fits(buf, room, off) <=> r[k].value # <<>> /\ Len(First(r, k)) <= room
    BY <1>6, <2>1, HeaderAt
  <2>3. Fits(buf, room, off)
    BY <1>9, <2>1, <2>2
  <2>4. buf[off + 1] = r[k].tag /\ off + Hdr + buf[off + 2] = Len(First(r, k))
    BY <1>6, <2>1, <2>3, HeaderRead
  <2> QED BY <2>3, <2>4
<1>11. r[k].tag # tag
  BY <1>6
<1>12. W[At(k - 1)] = W[At(k)]
  <2> HIDE DEF At
  <2> QED BY <1>8, <1>10, <1>11 DEF WalksOn
<1> QED BY <1>3, <1>7, <1>12

(* The first record of a tag, if it is within the room.                     *)
Firsts(r, room, tag) ==
    {i \in 1 .. Len(r) : Within(r, room, i) /\ r[i].tag = tag
                         /\ \A j \in 1 .. i - 1 : r[j].tag # tag}

(* tlv_find is right: it finds the first record of the tag and reads its    *)
(* length and first word,                                                   *)
LEMMA FindsFirst ==
  ASSUME NEW r \in Seq(RawRecord), NEW buf, NEW room, Holds(buf, room, r), NEW tag,
         NEW m \in Firsts(r, room, tag), NEW at, at = tlv_find(buf, room, tag)
  PROVE  at \in Nat /\ buf[at + 2] = Len(r[m].value) /\ buf[at + 3] = r[m].value[1]
<1>1. room \in Nat /\ buf \in Seq(Nat) /\ room <= Len(buf)
  BY DEF Holds
<1>2. PICK W : at = W[0] /\ WalksOn(W, buf, room, tag)
  BY <1>1, WalkByFcn DEF WalksOn
<1>3. /\ m \in 1 .. Len(r) /\ Within(r, room, m) /\ r[m].tag = tag
      /\ \A j \in 1 .. m - 1 : r[j].tag # tag
  BY DEF Firsts
<1>4. m \in 0 .. Len(r) /\ m - 1 \in 0 .. m /\ m - 1 \in 0 .. Len(r) /\ m \in 1 .. m
  BY <1>3
<1> DEFINE off == Len(First(r, m - 1))
<1>5. Within(r, room, m - 1) /\ off \in 0 .. room
  BY <1>1, <1>3, <1>4, WithinBefore
<1>6. W[0] = W[off]
  BY <1>2, <1>3, <1>4, <1>5, WalkReaches
<1>7. off = Len(First(r, m - 1)) /\ off <= room /\ off \in Nat
  BY <1>1, <1>5
<1>8. Len(First(r, m)) <= room /\ r[m].value # <<>>
  BY <1>3, <1>4 DEF Within
<1> HIDE DEF off
<1>9. Fits(buf, room, off) <=> r[m].value # <<>> /\ Len(First(r, m)) <= room
  BY <1>3, <1>7, HeaderAt
<1>10. Fits(buf, room, off)
  BY <1>8, <1>9
<1>11. /\ buf[off + 1] = r[m].tag /\ buf[off + 2] = Len(r[m].value)
       /\ buf[off + 3] = r[m].value[1]
  BY <1>3, <1>7, <1>10, HeaderRead
<1>12. W[off] = off
  BY <1>2, <1>3, <1>5, <1>10, <1>11 DEF WalksOn
<1> QED BY <1>2, <1>6, <1>7, <1>11, <1>12

(* and finds nothing when there is none that arrived whole.                 *)
LEMMA FindsNone ==
  ASSUME NEW r \in Seq(RawRecord), NEW buf, NEW room, Holds(buf, room, r), NEW tag,
         Firsts(r, room, tag) = {}, NEW at, at = tlv_find(buf, room, tag)
  PROVE  at = NULL
<1>1. /\ room \in Nat /\ buf \in Seq(Nat) /\ room <= Len(buf) /\ room <= Len(Flat(r))
      /\ Len(r) \in Nat
  BY DEF Holds
<1>2. PICK W : at = W[0] /\ WalksOn(W, buf, room, tag)
  BY <1>1, WalkByFcn DEF WalksOn
<1>3. ASSUME NEW i \in 0 .. Len(r), Within(r, room, i)
      PROVE  \A j \in 1 .. i : r[j].tag # tag
  <2> DEFINE T == {j \in 1 .. i : r[j].tag = tag}
  <2> SUFFICES ASSUME T # {}
               PROVE  FALSE
    OBVIOUS
  <2>1. PICK j \in T : \A y \in T : j <= y
    <3>1. T \subseteq Nat
      OBVIOUS
    <3> HIDE DEF T
    <3> QED BY <3>1, LeastOf
  <2>2. j \in 1 .. Len(r) /\ j \in 0 .. i /\ r[j].tag = tag
    BY <2>1
  <2>3. Within(r, room, j)
    BY <1>1, <1>3, <2>2, WithinBefore
  <2>4. ASSUME NEW y \in 1 .. j - 1
        PROVE  r[y].tag # tag
    <3>1. y \in 1 .. i /\ ~(j <= y)
      BY <2>1
    <3> QED BY <2>1, <3>1
  <2>5. j \in Firsts(r, room, tag)
    BY <2>2, <2>3, <2>4 DEF Firsts
  <2> QED BY <2>5
<1>4. Within(r, room, 0)
  BY <1>1, FirstEnds DEF Within
<1> DEFINE Stop(i) == Within(r, room, i) /\ (i = Len(r) \/ ~Within(r, room, i + 1))
<1>5. PICK n \in 0 .. Len(r) : Stop(n)
  <2> DEFINE T == {i \in 0 .. Len(r) : ~Within(r, room, i)}
  <2>1. CASE T = {}
    BY <1>1, <2>1
  <2>2. CASE T # {}
    <3>1. PICK i \in T : \A y \in T : i <= y
      <4>1. T \subseteq Nat
        OBVIOUS
      <4> HIDE DEF T
      <4> QED BY <2>2, <4>1, LeastOf
    <3>2. i \in 0 .. Len(r) /\ ~Within(r, room, i) /\ i # 0
      BY <1>4, <3>1
    <3>3. i - 1 \in 0 .. Len(r) /\ ~(i <= i - 1) /\ i - 1 + 1 = i
      BY <1>1, <3>2
    <3>4. Within(r, room, i - 1)
      BY <3>1, <3>3
    <3> QED BY <3>2, <3>3, <3>4
  <2> QED BY <2>1, <2>2
<1> DEFINE off == Len(First(r, n))
<1>6. Within(r, room, n) /\ off \in 0 .. room
  <2>1. n \in 0 .. n
    BY <1>1
  <2> QED BY <1>1, <1>5, <2>1, WithinBefore
<1>7. W[0] = W[off]
  BY <1>2, <1>3, <1>6, WalkReaches
<1>8. ~Fits(buf, room, off)
  <2>1. CASE n = Len(r)
    <3>1. off >= room
      BY <1>1, <2>1, FirstEnds
    <3> HIDE DEF off
    <3> QED BY <1>1, <1>6, <3>1 DEF Fits, Hdr
  <2>2. CASE n # Len(r) /\ ~Within(r, room, n + 1)
    <3>1. n + 1 \in 1 .. Len(r) /\ n + 1 - 1 = n
      BY <1>1, <2>2
    <3>2. off = Len(First(r, n + 1 - 1)) /\ off <= room
      BY <1>1, <1>6, <3>1
    <3> HIDE DEF off
    <3>3. Fits(buf, room, off) <=> r[n + 1].value # <<>> /\ Len(First(r, n + 1)) <= room
      BY <3>1, <3>2, HeaderAt
    <3>4. ~(r[n + 1].value # <<>> /\ Len(First(r, n + 1)) <= room)
      <4> SUFFICES ASSUME r[n + 1].value # <<>>, Len(First(r, n + 1)) <= room
                   PROVE  FALSE
        OBVIOUS
      <4>1. \A j \in 1 .. n + 1 : j = n + 1 \/ j \in 1 .. n
        BY <1>1
      <4> QED BY <1>6, <2>2, <4>1 DEF Within
    <3> QED BY <3>3, <3>4
  <2> QED BY <1>5, <2>1, <2>2
<1>9. W[off] = NULL
  <2> HIDE DEF off
  <2> QED BY <1>2, <1>6, <1>8 DEF WalksOn
<1> QED BY <1>2, <1>7, <1>9

(* report_raw_counters shows of any reading what the reading tells.         *)
LEMMA ReadingShown ==
  ASSUME rawChip \in Nat, NEW g \in Readings, g.cut <= Len(Flat(g.records))
  PROVE  report_raw_counters(Arrived(g) \o g.behind, Len(Arrived(g)) + StatusWord) = Told(g)
<1> DEFINE r == g.records
           whole == Flat(r)
           room == Len(Arrived(g))
           buf == Arrived(g) \o g.behind
           raw == tlv_find(buf, room, RAW)
           tx == tlv_find(buf, room, TxTotal)
<1>1. PICK r0 \in BoundedSeq(Record, MaxTlvs), c0 \in 0 .. 2, b0 \in {<<RAW, RawLen>>, <<0, 0>>} :
         g = [records |-> r0, cut |-> c0, behind |-> b0]
  BY DEF Readings
<1>2. r \in BoundedSeq(Record, MaxTlvs) /\ g.cut \in 0 .. 2
      /\ g.behind \in {<<RAW, RawLen>>, <<0, 0>>}
  BY <1>1
<1>3. r \in Seq(Record)
  <2>1. PICK m \in 0 .. MaxTlvs : r \in [1 .. m -> Record]
    BY <1>2, Zenon DEF BoundedSeq, SeqOf
  <2>2. m \in Nat
    BY RawBounds
  <2> HIDE DEF r
  <2> QED BY <2>1, <2>2
<1>4. \A x \in Record : /\ x \in RawRecord /\ x.tag \in {RAW, TxTotal}
                        /\ x.value # <<>> => x.value[1] = rawChip
  <2> SUFFICES ASSUME NEW x \in Record
               PROVE  /\ x \in RawRecord /\ x.tag \in {RAW, TxTotal}
                      /\ x.value # <<>> => x.value[1] = rawChip
    OBVIOUS
  <2>1. PICK t \in {RAW, TxTotal},
             v \in UNION {[1 .. n -> {rawChip}] : n \in {0, 1, RawLen, RawLen + 1}} :
           x = [tag |-> t, value |-> v]
    BY DEF Record
  <2>2. PICK n \in {0, 1, RawLen, RawLen + 1} : v \in [1 .. n -> {rawChip}]
    BY <2>1
  <2>3. n \in Nat
    BY <2>2, RawBounds
  <2>4. v \in Seq(Nat) /\ (v # <<>> => v[1] = rawChip)
    BY <2>2, <2>3
  <2> QED BY <2>1, <2>4 DEF RawRecord, RAW, TxTotal
<1>5. r \in Seq(RawRecord) /\ \A i \in 1 .. Len(r) : r[i].value # <<>> => r[i].value[1] = rawChip
  BY <1>3, <1>4
<1>6. whole \in Seq(Nat)
  <2>1. Len(r) \in 0 .. Len(r) /\ First(r, Len(r)) = whole
    BY <1>5, FirstEnds
  <2> QED BY <1>5, <2>1, FirstType
<1>7. /\ Arrived(g) \in Seq(Nat) /\ room \in Nat /\ room <= Len(whole)
      /\ \A k \in 1 .. room : Arrived(g)[k] = whole[k]
  <2>1. Len(whole) - g.cut \in 0 .. Len(whole)
    BY <1>2, <1>6
  <2>2. Arrived(g) = SubSeq(whole, 1, Len(whole) - g.cut)
    BY DEF Arrived
  <2> HIDE DEF whole
  <2> QED BY <1>6, <2>1, <2>2
<1>8. g.behind \in Seq(Nat)
  <2>1. <<RAW, RawLen>> \in Seq(Nat) /\ <<0, 0>> \in Seq(Nat)
    BY RawBounds DEF RAW
  <2> QED BY <1>2, <2>1, Zenon
<1>9. Holds(buf, room, r)
  <2> HIDE DEF r
  <2> QED BY <1>7, <1>8 DEF Holds
<1>10. \A i \in 1 .. Len(r) : Whole(g, i) <=> Within(r, room, i)
  BY Zenon DEF Whole, Within, First
<1>11. \A tag : FirstWhole(g, tag) = Firsts(r, room, tag)
  <2> SUFFICES ASSUME NEW tag
               PROVE  FirstWhole(g, tag) = Firsts(r, room, tag)
    OBVIOUS
  <2>1. DOMAIN r = 1 .. Len(r)
    BY <1>5
  <2>2. FirstWhole(g, tag) = {i \in 1 .. Len(r) : Whole(g, i) /\ r[i].tag = tag
                                                /\ \A j \in 1 .. i - 1 : r[j].tag # tag}
    BY <2>1, Zenon DEF FirstWhole
  <2> HIDE DEF r, room
  <2> QED BY <1>10, <2>2 DEF Firsts
<1>12. Room(room + StatusWord) = room
  <2> HIDE DEF room
  <2> QED BY <1>7 DEF Room, StatusWord
<1> DEFINE Shown == IF raw = NULL THEN Nothing
                    ELSE IF buf[raw + 2] # RawLen THEN Nothing
                    ELSE [ok |-> TRUE, count |-> buf[raw + 3],
                          tx |-> IF tx = NULL THEN 0 ELSE buf[tx + 3]]
<1>13. report_raw_counters(buf, room + StatusWord) = Shown
  BY <1>12, Zenon DEF report_raw_counters
<1>14. /\ raw = tlv_find(buf, room, RAW) /\ tx = tlv_find(buf, room, TxTotal)
  OBVIOUS
<1>15. \A m \in FirstWhole(g, RAW) : m \in 1 .. Len(r) /\ r[m].value # <<>>
  <2> HIDE DEF r, room
  <2> QED BY <1>11 DEF Firsts, Within
<1>16. \A m \in FirstWhole(g, TxTotal) : m \in 1 .. Len(r) /\ r[m].value # <<>>
  <2> HIDE DEF r, room
  <2> QED BY <1>11 DEF Firsts, Within
<1>17. /\ \A m \in FirstWhole(g, RAW) : /\ raw \in Nat /\ buf[raw + 2] = Len(r[m].value)
                                        /\ buf[raw + 3] = rawChip
       /\ FirstWhole(g, RAW) = {} => raw = NULL
  <2> HIDE DEF raw, tx, buf, room, r
  <2>1. ASSUME NEW m \in FirstWhole(g, RAW)
        PROVE  raw \in Nat /\ buf[raw + 2] = Len(r[m].value) /\ buf[raw + 3] = rawChip
    <3>1. m \in Firsts(r, room, RAW) /\ r[m].value[1] = rawChip
      BY <1>5, <1>11, <1>15
    <3> QED BY <1>5, <1>9, <1>14, <3>1, FindsFirst
  <2>2. ASSUME FirstWhole(g, RAW) = {}
        PROVE  raw = NULL
    <3>1. Firsts(r, room, RAW) = {}
      BY <1>11, <2>2, Zenon
    <3> QED BY <1>5, <1>9, <1>14, <3>1, FindsNone
  <2> QED BY <2>1, <2>2
<1>18. /\ \A m \in FirstWhole(g, TxTotal) : tx \in Nat /\ buf[tx + 3] = rawChip
       /\ FirstWhole(g, TxTotal) = {} => tx = NULL
  <2> HIDE DEF raw, tx, buf, room, r
  <2>1. ASSUME NEW m \in FirstWhole(g, TxTotal)
        PROVE  tx \in Nat /\ buf[tx + 3] = rawChip
    <3>1. m \in Firsts(r, room, TxTotal) /\ r[m].value[1] = rawChip
      BY <1>5, <1>11, <1>16
    <3> QED BY <1>5, <1>9, <1>14, <3>1, FindsFirst
  <2>2. ASSUME FirstWhole(g, TxTotal) = {}
        PROVE  tx = NULL
    <3>1. Firsts(r, room, TxTotal) = {}
      BY <1>11, <2>2, Zenon
    <3> QED BY <1>5, <1>9, <1>14, <3>1, FindsNone
  <2> QED BY <2>1, <2>2
<1>19. Told(g) = IF \E i \in FirstWhole(g, RAW) : Len(r[i].value) = RawLen
                 THEN [ok |-> TRUE, count |-> rawChip,
                       tx |-> IF FirstWhole(g, TxTotal) # {} THEN rawChip ELSE 0]
                 ELSE Nothing
  BY Zenon DEF Told
<1>20. NULL \notin Nat
  BY DEF NULL
<1>21. Shown = Told(g)
  <2> HIDE DEF raw, tx, buf, room, r
  <2>1. CASE FirstWhole(g, RAW) = {}
    BY <1>17, <1>19, <2>1
  <2>2. CASE FirstWhole(g, RAW) # {}
    <3>1. PICK m \in FirstWhole(g, RAW) : raw # NULL /\ buf[raw + 2] = Len(r[m].value)
      BY <1>17, <1>20, <2>2
    <3>2. (\E i \in FirstWhole(g, RAW) : Len(r[i].value) = RawLen) <=> buf[raw + 2] = RawLen
      BY <1>17, <3>1
    <3>3. buf[raw + 3] = rawChip
      BY <1>17
    <3>4. (IF tx = NULL THEN 0 ELSE buf[tx + 3])
             = IF FirstWhole(g, TxTotal) # {} THEN rawChip ELSE 0
      BY <1>18, <1>20
    <3> QED BY <1>19, <3>1, <3>2, <3>3, <3>4
  <2> QED BY <2>1, <2>2
<1> HIDE DEF Shown
<1> QED BY <1>13, <1>21

LEMMA ToldType ==
  ASSUME rawChip \in 0 .. MaxArms, NEW g
  PROVE  Told(g) \in [ok : BOOLEAN, count : 0 .. MaxArms, tx : 0 .. MaxArms]
         /\ (Told(g).ok => Told(g).count = rawChip)
BY RawBounds DEF Told, Nothing

(* What holds besides: outside a window nothing is counted for one, and     *)
(* what the chip counts since the window was opened the engine did since.   *)
RawInv ==
    /\ RawTypeOK
    /\ rawShown = rawTold
    /\ rawPc \in {"start", "configure", "open"} => rawWindow = 0
    /\ rawPc # "parked" => rawLog = <<>>
    /\ rawPc = "measure" => rawChip <= rawSince
    /\ rawWindow > 0 /\ rawShown.ok => rawShown.count <= rawSince

LEMMA ReadShows ==
  ASSUME RawTypeOK, NEW reset \in BOOLEAN, Read(reset)
  PROVE  /\ rawShown' = rawTold'
         /\ rawShown' \in [ok : BOOLEAN, count : 0 .. MaxArms, tx : 0 .. MaxArms]
         /\ rawShown'.ok => rawShown'.count = rawChip
         /\ rawChip' = IF reset THEN 0 ELSE rawChip
<1>1. rawChip \in 0 .. MaxArms /\ rawChip \in Nat
  BY RawBounds DEF RawTypeOK
<1>2. rawChip' = IF reset THEN 0 ELSE rawChip
  BY Zenon DEF Read
<1>3. CASE \E g \in Readings : /\ g.cut <= Len(Flat(g.records)) /\ rawTold' = Told(g)
                               /\ rawShown' = report_raw_counters(Arrived(g) \o g.behind,
                                                                  Len(Arrived(g)) + StatusWord)
  <2>1. PICK g \in Readings : /\ g.cut <= Len(Flat(g.records)) /\ rawTold' = Told(g)
                              /\ rawShown' = report_raw_counters(Arrived(g) \o g.behind,
                                                                 Len(Arrived(g)) + StatusWord)
    BY <1>3
  <2>2. rawShown' = Told(g)
    BY <1>1, <2>1, ReadingShown, Zenon
  <2>3. /\ Told(g) \in [ok : BOOLEAN, count : 0 .. MaxArms, tx : 0 .. MaxArms]
        /\ Told(g).ok => Told(g).count = rawChip
    BY <1>1, ToldType
  <2> QED BY <1>2, <2>1, <2>2, <2>3
<1>4. CASE rawTold' = Nothing /\ rawShown' = Nothing
  BY <1>2, <1>4, RawBounds DEF Nothing
<1> QED BY <1>3, <1>4 DEF Read

LEMMA RawInvInit == RawInit => RawInv
BY RawBounds DEF RawInit, RawInv, RawTypeOK, Nothing

LEMMA RawInvNext ==
  ASSUME RawInv, [RawNext]_rawVars
  PROVE  RawInv'
<1> USE RawBounds DEF RawInv, RawTypeOK
<1>1. CASE rps_encoder_selftest
  BY <1>1 DEF rps_encoder_selftest
<1>2. CASE \E ok \in BOOLEAN : Configure(ok)
  BY <1>2 DEF Configure
<1>3. CASE EngineArms
  BY <1>3 DEF EngineArms
<1>4. CASE ChipRestart
  BY <1>4 DEF ChipRestart
<1>5. CASE OpenWindow
  <2>1. /\ rawShown' = rawTold'
        /\ rawShown' \in [ok : BOOLEAN, count : 0 .. MaxArms, tx : 0 .. MaxArms]
        /\ rawChip' = 0
    BY <1>5, ReadShows DEF OpenWindow
  <2> QED BY <1>5, <2>1 DEF OpenWindow
<1>6. CASE Measure
  <2>1. CASE rawWindow = Windows
    BY <1>6, <2>1 DEF Measure
  <2>2. CASE rawWindow # Windows
    <3>1. Read(FALSE) /\ rawWindow' = rawWindow + 1 /\ UNCHANGED <<rawPc, rawSince, rawLog>>
          /\ rawPc = "measure"
      BY <1>6, <2>2 DEF Measure
    <3>2. /\ rawShown' = rawTold'
          /\ rawShown' \in [ok : BOOLEAN, count : 0 .. MaxArms, tx : 0 .. MaxArms]
          /\ rawShown'.ok => rawShown'.count = rawChip
          /\ rawChip' = rawChip
      BY <3>1, ReadShows
    <3> QED BY <2>2, <3>1, <3>2
  <2> QED BY <2>1, <2>2
<1>7. CASE UNCHANGED rawVars
  BY <1>7 DEF rawVars
<1> QED BY <1>1, <1>2, <1>3, <1>4, <1>5, <1>6, <1>7 DEF RawNext

(* What test-raw-rps prints is what the chip told: each counter from the    *)
(* first record of its tag, if it arrived whole and has the expected        *)
(* length, never from the memory behind the payload, and a window's         *)
(* counter never exceeds what the engine did in it (report_raw_counters,    *)
(* tlv_find).  For readings of any number of records, cut anywhere in the   *)
(* last two words.                                                          *)
THEOREM RawShown == RawSpec => [](RawTypeOK /\ RawShownIsTold)
<1>1. RawInit => RawInv
  BY RawInvInit
<1>2. RawInv /\ [RawNext]_rawVars => RawInv'
  BY RawInvNext
<1>3. RawInv => RawTypeOK /\ RawShownIsTold
  BY DEF RawInv, RawShownIsTold
<1> QED BY <1>1, <1>2, <1>3, PTL DEF RawSpec

=============================================================================
