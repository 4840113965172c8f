-------------------------- MODULE RestartFixtures --------------------------
(***************************************************************************)
(* The two fixtures that force a chip restart and score what came back:     *)
(* test-mesh-hwrestart (alone, or with an AP beside the mesh) and the       *)
(* restart arm of test-mesh-ap-gate.  Four tasks meet: the fixture, the     *)
(* umac event loop that runs the queued restart, the AP's status callback,  *)
(* and the train of group frames the off-air scorer reads.                  *)
(***************************************************************************)
EXTENDS Integers, Sequences

CONSTANTS Arms,      \* the builds under test
          Pings, \* PING_COUNT
          MaxMoves   \* bound: times the peer or the client comes or goes, and frames sent

ASSUME RestartBounds == Pings \in Nat \ {0} /\ MaxMoves \in Nat

VARIABLES arm,    \* the build: "mesh", "mesh+ap" (TEST_AP_VIF) or "gate" (TEST_HW_RESTART)
          rfPc,   \* where the fixture is
          tracked,\* the peer (the client) is in the host's table: peer_count, s_sta_n
          linked, \* it is really there
          moves,  \* comings and goings so far
          auth,   \* s_auth_events
          umac,   \* the event loop: a restart queued, hw_restart_counter, and what it restored
          got,    \* s_ping_ok
          read,   \* the fixture's locals
          train,  \* bcast_task: s_bcast_post, the payload and length it picked, short frames sent
          rfLog,  \* RESULT lines
          rfTruth \* history: restart ran, replies since, client came back, short frames since

fixture == <<rfPc, read, rfLog>>
world == <<tracked, linked, moves, auth>>
restartVars == <<arm, rfPc, tracked, linked, moves, auth, umac, got, read, train, rfLog, rfTruth>>

Gate == arm = "gate"

RestartInit ==
    /\ arm \in Arms
    /\ rfPc = "start" /\ tracked = FALSE /\ linked = FALSE /\ moves = 0 /\ auth = 0
    /\ umac = [queued |-> FALSE, counter |-> 0, intact |-> TRUE]
    /\ got = 0
    /\ read = [rst0 |-> 0, rst1 |-> 0, auth0 |-> 0, auth1 |-> 0, before |-> 0, after |-> 0]
    /\ train = [on |-> FALSE, post |-> FALSE, at |-> "pick", payload |-> "pre", len |-> "pre",
                sent |-> 0]
    /\ rfLog = <<>>
    /\ rfTruth = [ran |-> FALSE, replies |-> 0, returned |-> "no", short |-> 0, triggered |-> FALSE]

Result(v) == rfLog' = Append(rfLog, v) /\ rfPc' = "done"

-----------------------------------------------------------------------------
(* The world.                                                               *)

\* A peer is established; on the AP it is ap_sta_status_cb with AUTHORIZED: tracked if it
\* was not, and counted whether or not it was.
Arrives ==
    /\ rfPc # "start" /\ ~linked /\ moves < MaxMoves
    /\ linked' = TRUE /\ tracked' = TRUE /\ moves' = moves + 1
    /\ auth' = IF Gate THEN auth + 1 ELSE auth
    /\ rfTruth' = IF rfTruth.triggered /\ rfTruth.returned = "no"
                  THEN [rfTruth EXCEPT !.returned =
                            IF rfPc \in {"churn", "verdict", "done"} THEN "late" ELSE "in-time"]
                  ELSE rfTruth
    /\ UNCHANGED <<arm, fixture, umac, got, train>>

\* The client deauthenticates (ap_sta_status_cb with UNKNOWN: it is forgotten), the mesh
\* peer falls silent: mesh_peers[] keeps it.
Leaves ==
    /\ linked /\ moves < MaxMoves
    /\ linked' = FALSE /\ moves' = moves + 1
    /\ tracked' = (tracked /\ ~Gate)
    /\ UNCHANGED <<arm, fixture, auth, umac, got, train, rfTruth>>

\* Slip: the handled event stays queued.
MutHandleRestartRepeats(intact) ==
    /\ umac.queued
    /\ umac' = [umac EXCEPT !.counter = @ + 1, !.intact = intact]
    /\ rfTruth' = [rfTruth EXCEPT !.ran = TRUE]
    /\ UNCHANGED <<arm, fixture, world, got, train>>

\* The event loop runs the queued restart: deinit and init, the counter, then the restore,
\* which brings the datapath back or does not.
HandleRestart(intact) ==
    /\ umac.queued
    /\ umac' = [queued |-> FALSE, counter |-> umac.counter + 1, intact |-> intact]
    /\ rfTruth' = [rfTruth EXCEPT !.ran = TRUE]
    /\ UNCHANGED <<arm, fixture, world, got, train>>

-----------------------------------------------------------------------------
(* The fixture.                                                             *)

\* mmwlan_mesh_start, then mmwlan_ap_enable when the build has an AP.
StartMesh(ok) ==
    /\ rfPc = "start" /\ ~Gate
    /\ IF ok THEN rfPc' = "wait" /\ UNCHANGED rfLog ELSE Result("INCONCLUSIVE")
    /\ UNCHANGED <<arm, world, umac, got, read, train, rfTruth>>

\* The gate's app_main returns without a line when one of them fails; else it wires the AP
\* netif and starts the arm's task, which starts the train.
StartGate(ok) ==
    /\ rfPc = "start" /\ Gate
    /\ rfPc' = IF ok THEN "wait" ELSE "done"
    /\ train' = [train EXCEPT !.on = ok]
    /\ UNCHANGED <<arm, world, umac, got, read, rfLog, rfTruth>>

PeerFound ==
    /\ rfPc = "wait" /\ tracked
    /\ rfPc' = "ping"
    /\ UNCHANGED <<arm, world, umac, got, read, train, rfLog, rfTruth>>

\* Slip: the wait for a peer has no deadline.
MutPeerWaitEndless == rfPc = "wait" /\ ~tracked /\ UNCHANGED restartVars

PeerWaitEnds ==
    /\ rfPc = "wait" /\ ~tracked
    /\ Result("INCONCLUSIVE")
    /\ UNCHANGED <<arm, world, umac, got, read, train, rfTruth>>

\* Slip: the counter of replies is not cleared between sessions.
MutPingStartsKeeps ==
    /\ rfPc \in {"ping", "ping-again"}
    /\ rfPc' = IF rfPc = "ping" THEN "pinging" ELSE "pinging-again"
    /\ UNCHANGED <<arm, world, umac, got, read, train, rfLog, rfTruth>>

\* ping_peer, ping_sta: the counter is cleared when the session exists.  No address of our
\* own, no peer any more or no session is zero replies.
PingStarts ==
    /\ rfPc \in {"ping", "ping-again"}
    /\ got' = 0
    /\ rfPc' = IF rfPc = "ping" THEN "pinging" ELSE "pinging-again"
    /\ UNCHANGED <<arm, world, umac, read, train, rfLog, rfTruth>>

PingNotStarted ==
    /\ rfPc \in {"ping", "ping-again"}
    /\ IF rfPc = "ping"
       THEN Result("INCONCLUSIVE") /\ UNCHANGED read
       ELSE rfPc' = "churn" /\ read' = [read EXCEPT !.after = 0] /\ UNCHANGED rfLog
    /\ UNCHANGED <<arm, world, umac, got, train, rfTruth>>

\* on_ping_success.
PingReply ==
    /\ rfPc \in {"pinging", "pinging-again"} /\ linked /\ umac.intact /\ got < Pings
    /\ got' = got + 1
    /\ rfTruth' = IF rfTruth.ran THEN [rfTruth EXCEPT !.replies = @ + 1] ELSE rfTruth
    /\ UNCHANGED <<arm, fixture, world, umac, train>>

\* The control: a rig that carried nothing before says nothing after.
PingBeforeEnds ==
    /\ rfPc = "pinging"
    /\ read' = [read EXCEPT !.before = got]
    /\ IF got = 0 THEN Result("INCONCLUSIVE") ELSE rfPc' = "settle" /\ UNCHANGED rfLog
    /\ UNCHANGED <<arm, world, umac, got, train, rfTruth>>

\* hw_restart_count: the counter, or -1 when the stats are unreadable.
Readable == {umac.counter, -1}

\* Slip: the train is not switched before the trigger.
MutReadBeforeNoSwitch ==
    /\ rfPc = "settle" /\ rfPc' = "trigger"
    /\ \E r \in Readable : read' = [read EXCEPT !.rst0 = r, !.auth0 = auth]
    /\ UNCHANGED <<arm, world, umac, got, train, rfLog, rfTruth>>

ReadBefore ==
    /\ rfPc = "settle" /\ rfPc' = "trigger"
    /\ \E r \in Readable : read' = [read EXCEPT !.rst0 = r, !.auth0 = auth]
    /\ train' = [train EXCEPT !.post = Gate]
    /\ UNCHANGED <<arm, world, umac, got, rfLog, rfTruth>>

\* mmwlan_force_hw_restart queues the event, or is refused.
Trigger(ok) ==
    /\ rfPc = "trigger"
    /\ IF ok THEN rfPc' = "recover" /\ UNCHANGED rfLog ELSE Result("INCONCLUSIVE")
    /\ umac' = [umac EXCEPT !.queued = ok]
    /\ rfTruth' = [rfTruth EXCEPT !.triggered = ok]
    /\ UNCHANGED <<arm, world, got, read, train>>

\* RECOVER_WAIT_S is over, whether or not the event loop has come to it.
ReadAfter ==
    /\ rfPc = "recover" /\ rfPc' = "ping-again"
    /\ \E r \in Readable : read' = [read EXCEPT !.rst1 = r]
    /\ UNCHANGED <<arm, world, umac, got, train, rfLog, rfTruth>>

PingAfterEnds ==
    /\ rfPc = "pinging-again" /\ rfPc' = "churn"
    /\ read' = [read EXCEPT !.after = got]
    /\ UNCHANGED <<arm, world, umac, got, train, rfLog, rfTruth>>

\* auth_after, read after the ping so that a client that came back during it is seen.
ReadChurn ==
    /\ rfPc = "churn" /\ rfPc' = "verdict"
    /\ read' = [read EXCEPT !.auth1 = auth]
    /\ UNCHANGED <<arm, world, umac, got, train, rfLog, rfTruth>>

Restarted == read.rst0 >= 0 /\ read.rst1 > read.rst0

MeshRestartVerdict ==
    IF ~Restarted THEN "INCONCLUSIVE" ELSE IF read.after = 0 THEN "FAIL" ELSE "PASS"

\* Slip: the verdict does not ask whether the client came back.
MutGateVerdictNoChurn ==
    IF ~Restarted \/ ~tracked
    THEN "INCONCLUSIVE" ELSE IF read.after = 0 THEN "FAIL" ELSE "PASS"

\* Slip: the verdict does not ask whether the client is still there.
MutGateVerdictNoTracked ==
    IF ~Restarted \/ read.auth1 > read.auth0
    THEN "INCONCLUSIVE" ELSE IF read.after = 0 THEN "FAIL" ELSE "PASS"

GateRestartVerdict ==
    IF ~Restarted \/ read.auth1 > read.auth0 \/ ~tracked
    THEN "INCONCLUSIVE" ELSE IF read.after = 0 THEN "FAIL" ELSE "PASS"

Judge ==
    /\ rfPc = "verdict"
    /\ Result(IF Gate THEN GateRestartVerdict ELSE MeshRestartVerdict)
    /\ UNCHANGED <<arm, world, umac, got, read, train, rfTruth>>

-----------------------------------------------------------------------------
(* bcast_task: the payload and its length are two reads of s_bcast_post,    *)
(* then sendto.                                                             *)

Phase == IF train.post THEN "post" ELSE "pre"

PickPayload ==
    /\ train.on /\ train.at = "pick" /\ train.sent < MaxMoves
    /\ train' = [train EXCEPT !.at = "length", !.payload = Phase]
    /\ UNCHANGED <<arm, fixture, world, umac, got, rfLog, rfTruth>>

PickLength ==
    /\ train.at = "length"
    /\ train' = [train EXCEPT !.at = "send", !.len = Phase]
    /\ UNCHANGED <<arm, fixture, world, umac, got, rfLog, rfTruth>>

SendGroupFrame ==
    /\ train.at = "send"
    /\ train' = [train EXCEPT !.at = "pick", !.sent = @ + 1]
    /\ rfTruth' = IF rfTruth.triggered /\ train.len = "pre" THEN [rfTruth EXCEPT !.short = @ + 1]
                  ELSE rfTruth
    /\ UNCHANGED <<arm, fixture, world, umac, got, rfLog>>

-----------------------------------------------------------------------------
Fixture ==
    \/ \E ok \in BOOLEAN : StartMesh(ok) \/ StartGate(ok) \/ Trigger(ok)
    \/ PeerFound \/ PeerWaitEnds \/ PingStarts \/ PingNotStarted \/ PingBeforeEnds
    \/ ReadBefore \/ ReadAfter \/ PingAfterEnds \/ ReadChurn \/ Judge

RestartNext ==
    \/ Fixture
    \/ Arrives \/ Leaves \/ PingReply
    \/ \E b \in BOOLEAN : HandleRestart(b)
    \/ PickPayload \/ PickLength \/ SendGroupFrame

\* Every wait of the fixture is a bounded loop of its own task.
RestartSpec == RestartInit /\ [][RestartNext]_restartVars /\ WF_restartVars(Fixture)

-----------------------------------------------------------------------------
(* Properties.                                                              *)

\* Type invariant.
RestartTypeOK ==
    /\ arm \in Arms /\ tracked \in BOOLEAN /\ linked \in BOOLEAN
    /\ moves \in 0 .. MaxMoves /\ auth \in 0 .. MaxMoves /\ got \in 0 .. Pings
    /\ rfPc \in {"start", "wait", "ping", "pinging", "settle", "trigger", "recover",
               "ping-again", "pinging-again", "churn", "verdict", "done"}
    /\ umac \in [queued : BOOLEAN, counter : 0 .. 1, intact : BOOLEAN]
    /\ read \in [rst0 : -1 .. 1, rst1 : -1 .. 1, auth0 : 0 .. MaxMoves, auth1 : 0 .. MaxMoves,
                 before : 0 .. Pings, after : 0 .. Pings]
    /\ train \in [on : BOOLEAN, post : BOOLEAN, at : {"pick", "length", "send"},
                  payload : {"pre", "post"}, len : {"pre", "post"}, sent : 0 .. MaxMoves]
    /\ rfLog \in Seq({"PASS", "FAIL", "INCONCLUSIVE"})
    /\ rfTruth \in [ran : BOOLEAN, replies : 0 .. Pings, returned : {"no", "in-time", "late"},
                  short : 0 .. MaxMoves, triggered : BOOLEAN]

\* A PASS is earned by this restart: the queued event ran and a reply arrived after it (never
\* one left over from the control ping); on the gate, from the association that the restore
\* re-pushed: the client did not come back between the trigger and its last reply.
RestartPassEarned ==
    rfLog = <<"PASS">> =>
        /\ rfTruth.ran /\ rfTruth.replies > 0
        /\ Gate => rfTruth.returned # "in-time"

\* A FAIL accuses the firmware: the rig carried traffic before, the restart ran, nothing came
\* back after it, and the gate still has the client on its books when it says so.
RestartFailFair ==
    [][rfLog' = <<"FAIL">> /\ rfLog = <<>> =>
         /\ read.before > 0 /\ rfTruth.ran /\ rfTruth.replies = 0
         /\ Gate => tracked]_restartVars

\* At most one group frame after the trigger has the length of the phase before it (the one
\* whose length was picked already): the capture finds the restart by length alone.  The two
\* picks tear one way only: never the payload of the later phase at the earlier length.
OneShortFrame ==
    /\ rfTruth.short <= 1
    /\ train.at = "send" /\ train.payload = "post" => train.len = "post"

\* What the fixture, on its console, and the scorer, off the air, take for a recovery is one:
\* the verdict rests on this restart, and the restart is found where it was.
RestartShown == RestartPassEarned /\ OneShortFrame

\* Every fixture ends: one RESULT line, none only from a gate that did not start.
RestartVerdictComes == <>[](rfPc = "done" /\ (Len(rfLog) = 1 \/ (Gate /\ ~train.on)))

=============================================================================
