----------------------------- MODULE SleepCycle -----------------------------
(***************************************************************************)
(* The deep-sleep tier: the leaf that sleeps and rejoins                    *)
(* (test-deepsleep-cycle), the C6 that drives its wake pin D5               *)
(* (test-c6-trigger), and dscycle.py, which commands the wakes over a       *)
(* serial handle that may die and counts the cycles over a console port     *)
(* that disappears in each sleep.                                           *)
(***************************************************************************)
EXTENDS Integers, Sequences

CONSTANTS Need,      \* cycles asked for
          MaxSleeps, \* bound: times the leaf says that it sleeps
          MaxMoves6, \* bound: re-enumerations of the C6's USB bridge
          MaxOrders  \* bound: commands typed at the C6 before the run

ASSUME SleepBounds == Need \in Nat \ {0} /\ {MaxSleeps, MaxMoves6, MaxOrders} \subseteq Nat

VARIABLES dsLeaf,   \* where the leaf is
          dsTruth,  \* history: what the leaf and the trigger really did, see below
          dsC6,     \* the trigger: mode, pin, pulse under way, commands received, what NVS holds
          dsHandle, \* the tier's serial handle on it, re-enumerations and orders so far
          dsPc,     \* where run() is
          dsTier,   \* run()'s and _capture()'s locals
          dsLines,  \* console lines the open port holds
          dsResult  \* the tier's results

dsBench == <<dsLeaf, dsTruth, dsLines>>
dsTrigger == <<dsC6, dsHandle>>
dsRun == <<dsPc, dsTier, dsResult>>
dsVars == <<dsBench, dsTrigger, dsRun>>

Resting == {"high", "low", "hiz"}
Awake == {"hold", "window", "connect", "up", "said"}
Port == dsLeaf \in Awake

\* said: times the leaf said that it sleeps; told: once since it last joined; joins: its joins
\* that followed such a line, once each; unsent: a wake was due and could not be commanded.
SleepInit ==
    /\ dsLeaf = "other"
    /\ dsTruth = [said |-> 0, told |-> FALSE, joins |-> 0, unsent |-> FALSE]
    /\ dsC6 = [mode |-> "trigger", pin |-> "hiz", pulse |-> "no", rx |-> <<>>, nvs |-> "empty"]
    /\ dsHandle = [at |-> "closed", moves |-> 0, orders |-> 0]
    /\ dsPc = "idle"
    /\ dsTier = [c6 |-> FALSE, had |-> FALSE, wake |-> FALSE, lost |-> FALSE,
                 warned |-> FALSE, ser |-> "none", gone |-> FALSE, slept |-> FALSE,
                 marker |-> FALSE, pending |-> FALSE, cycles |-> 0, recons |-> 0]
    /\ dsLines = <<>> /\ dsResult = <<>>

-----------------------------------------------------------------------------
(* The trigger.                                                             *)

PinOf(mode) == CASE mode \in {"high", "toggle"} -> "high" [] mode = "low" -> "low" [] OTHER -> "hiz"

\* app_main: the mode NVS holds, else the compiled one.
Booted(c) ==
    LET mode == IF c.nvs = "empty" THEN "trigger" ELSE c.nvs
    IN  [c EXCEPT !.mode = mode, !.pin = PinOf(mode), !.pulse = "no", !.rx = <<>>]

\* handle_line: a pulse keeps the loop busy, and the commands behind it wait in the UART.
handle_line ==
    /\ dsC6.rx # <<>> /\ dsC6.pulse = "no"
    /\ LET cmd == Head(dsC6.rx)
           c == [dsC6 EXCEPT !.rx = Tail(@)]
       IN  dsC6' = CASE cmd = "pulse"   -> [c EXCEPT !.pin = "low", !.pulse = "commanded"]
                     [] cmd = "save"    -> [c EXCEPT !.nvs = c.mode]
                     [] cmd = "default" -> [c EXCEPT !.nvs = "empty"]
                     [] OTHER           -> [c EXCEPT !.mode = cmd, !.pin = PinOf(cmd)]
    /\ UNCHANGED <<dsBench, dsHandle, dsRun>>

\* service_mode: the free-running pulse of trigger, the square wave of toggle.
service_mode ==
    /\ dsC6.pulse = "no"
    /\ \/ /\ dsC6.mode = "trigger"
          /\ dsC6' = [dsC6 EXCEPT !.pin = "low", !.pulse = "serviced"]
       \/ /\ dsC6.mode = "toggle"
          /\ dsC6' = [dsC6 EXCEPT !.pin = IF @ = "high" THEN "low" ELSE "high"]
    /\ UNCHANGED <<dsBench, dsHandle, dsRun>>

\* pulse_low ends at rest; a free-running trigger goes on, a commanded one does not.
pulse_low ==
    /\ dsC6.pulse # "no"
    /\ dsC6' = [dsC6 EXCEPT !.pin = "hiz", !.pulse = "no",
                            !.mode = IF dsC6.pulse = "commanded" THEN "hiz" ELSE "trigger"]
    /\ UNCHANGED <<dsBench, dsHandle, dsRun>>

\* External: someone types at its console before the run.
Order(cmd) ==
    /\ dsPc = "idle" /\ dsC6.rx = <<>> /\ dsHandle.orders < MaxOrders
    /\ dsC6' = [dsC6 EXCEPT !.rx = <<cmd>>]
    /\ dsHandle' = [dsHandle EXCEPT !.orders = @ + 1]
    /\ UNCHANGED <<dsBench, dsRun>>

\* External: its USB bridge re-enumerates, and the open handle is dead.
UsbMoves ==
    /\ dsHandle.at = "live" /\ dsHandle.moves < MaxMoves6
    /\ dsHandle' = [dsHandle EXCEPT !.at = "dead", !.moves = @ + 1]
    /\ UNCHANGED <<dsBench, dsC6, dsRun>>

-----------------------------------------------------------------------------
(* The leaf.                                                                *)

\* A line reaches the tier when the port is open on this enumeration.
Says(line) == dsLines' = IF dsTier.ser = "open" THEN Append(dsLines, line) ELSE dsLines

\* The port goes away with the leaf: an open handle is stale from then on.
PortLost(slept) ==
    dsTier' = [dsTier EXCEPT !.slept = slept, !.ser = IF @ = "open" THEN "stale" ELSE @]

\* app_main after a power-on: the guard on D5, and the flash window.
FreshBoot ==
    /\ dsLeaf = "dark"
    /\ dsLeaf' = IF dsC6.pin = "high" THEN "hold" ELSE "window"
    /\ UNCHANGED <<dsTruth, dsLines, dsTrigger, dsRun>>

WindowOver ==
    /\ dsLeaf = "window" /\ dsLeaf' = "connect"
    /\ UNCHANGED <<dsTruth, dsLines, dsTrigger, dsRun>>

\* mmhalow_connect within thirty seconds, or not.
Connect(joined) ==
    /\ dsLeaf = "connect" /\ dsLeaf' = "up"
    /\ IF joined
       THEN /\ Says("RECONNECTED")
            /\ dsTruth' = [dsTruth EXCEPT !.told = FALSE,
                                          !.joins = IF dsTruth.told THEN @ + 1 ELSE @]
       ELSE UNCHANGED <<dsTruth, dsLines>>
    /\ UNCHANGED <<dsTrigger, dsRun>>

\* enter_deep_sleep says so, flushes the log and arms its wakes, the pulled-up D5 and the
\* timer; only then does it sleep.
SaySleep ==
    /\ dsLeaf = "up" /\ dsTruth.said < MaxSleeps
    /\ dsLeaf' = "said" /\ Says("DEEP-SLEEP")
    /\ dsTruth' = [dsTruth EXCEPT !.said = @ + 1, !.told = TRUE]
    /\ UNCHANGED <<dsTrigger, dsRun>>

enter_deep_sleep ==
    /\ dsLeaf = "said" /\ dsLeaf' = "asleep"
    /\ PortLost(TRUE)
    /\ UNCHANGED <<dsTruth, dsLines, dsTrigger, dsPc, dsResult>>

\* EXT1 on a low D5, or the backup timer: a boot that knows it comes from deep sleep.
Wake(cause) ==
    /\ dsLeaf = "asleep"
    /\ cause = "ext1" => dsC6.pin = "low"
    /\ dsLeaf' = "connect"
    /\ UNCHANGED <<dsTruth, dsLines, dsTrigger, dsRun>>

\* External: the rail wobbles, or the port is opened, and the leaf boots afresh.
RailWobbles ==
    /\ dsLeaf \in (Awake \cup {"asleep"}) \ {"window", "hold"}
    /\ dsLeaf' = "dark"
    /\ PortLost(dsTier.slept)
    /\ UNCHANGED <<dsTruth, dsLines, dsTrigger, dsPc, dsResult>>

-----------------------------------------------------------------------------
(* The tier.                                                                *)

Note(v) == dsResult' = Append(dsResult, v)

\* _ensure_holder, the AP's port; _open_c6, which may reset the C6.
TierStart(ready, c6, reset) ==
    /\ dsPc = "idle"
    /\ IF ready
       THEN /\ dsPc' = IF c6 THEN "rest" ELSE "ap"
            /\ dsTier' = [dsTier EXCEPT !.c6 = c6]
            /\ dsHandle' = [dsHandle EXCEPT !.at = IF c6 THEN "live" ELSE "closed"]
            /\ dsC6' = IF c6 /\ reset THEN Booted(dsC6) ELSE dsC6
            /\ UNCHANGED dsResult
       ELSE dsPc' = "over" /\ Note("SKIP") /\ UNCHANGED <<dsTier, dsTrigger>>
    /\ UNCHANGED dsBench

\* c6.hiz(): a handle that is dead already is dropped, and the run goes on without.
RestPin ==
    /\ dsPc = "rest" /\ dsPc' = "ap"
    /\ IF dsHandle.at = "live"
       THEN dsC6' = [dsC6 EXCEPT !.rx = Append(@, "hiz")]
            /\ dsTier' = [dsTier EXCEPT !.had = TRUE, !.wake = TRUE] /\ UNCHANGED dsHandle
       ELSE dsTier' = [dsTier EXCEPT !.c6 = FALSE]
            /\ dsHandle' = [dsHandle EXCEPT !.at = "closed"] /\ UNCHANGED dsC6
    /\ UNCHANGED <<dsBench, dsResult>>

FlashAp(ok) ==
    /\ dsPc = "ap"
    /\ IF ok THEN dsPc' = "flash" /\ UNCHANGED dsResult
             ELSE dsPc' = "teardown" /\ Note("INCONCLUSIVE")
    /\ UNCHANGED <<dsBench, dsTrigger, dsTier>>

FlashLeaf(ok) ==
    /\ dsPc = "flash"
    /\ IF ok THEN dsPc' = "capture" /\ dsLeaf' = "dark" /\ UNCHANGED dsResult
             ELSE dsPc' = "teardown" /\ Note("INCONCLUSIVE") /\ UNCHANGED dsLeaf
    /\ UNCHANGED <<dsTruth, dsLines, dsTrigger, dsTier>>

Watching == dsPc = "capture" /\ dsTier.cycles < Need

\* The port is absent, or its path is stale and does not open: the gap begins.
SeeGone ==
    /\ Watching /\ dsTier.ser = "none" /\ ~dsTier.gone
    /\ dsTier' = [dsTier EXCEPT !.gone = TRUE, !.slept = dsLeaf = "asleep"]
    /\ UNCHANGED <<dsBench, dsTrigger, dsPc, dsResult>>

\* c6.pulse(), once the leaf has been gone long enough, and again while it does not come
\* back.  A dead handle is reopened once, which may reset the C6; a handle that dies again,
\* or does not reopen, ends the commanded wakes and is the reason of a shortfall.
PulseWritten(c) ==
    /\ dsC6' = [c EXCEPT !.rx = Append(@, "pulse")]
    /\ dsHandle' = [dsHandle EXCEPT !.at = "live"]
    /\ UNCHANGED dsTier

\* Slip: a handle that died again leaves no reason.
PulseLostUnsaid ==
    /\ dsTier' = [dsTier EXCEPT !.wake = FALSE]
    /\ UNCHANGED dsTrigger

PulseLost ==
    /\ dsTier' = [dsTier EXCEPT !.wake = FALSE, !.lost = TRUE]
    /\ UNCHANGED dsTrigger

Pulse ==
    /\ Watching /\ dsTier.ser = "none" /\ dsTier.gone /\ dsTier.wake /\ ~Port
    /\ dsC6.rx = <<>>
    /\ \/ dsHandle.at = "live" /\ PulseWritten(dsC6)
       \/ dsHandle.at = "dead" /\ (PulseWritten(dsC6) \/ PulseWritten(Booted(dsC6)) \/ PulseLost)
    /\ dsTruth' = [dsTruth EXCEPT !.unsent = @ \/ dsHandle'.at = "dead"]
    /\ UNCHANGED <<dsLeaf, dsLines, dsPc, dsResult>>

\* Only an open proves the leaf back.  The sleep line before the gap, or a gap of three
\* seconds (long: external, only a sleep lasts so long), makes it a sleep.
OpenPort(long) ==
    /\ Watching /\ dsTier.ser = "none" /\ Port
    /\ long => dsTier.slept /\ dsTier.gone
    /\ dsTier' = [dsTier EXCEPT !.ser = "open", !.gone = FALSE,
                      !.pending = @ \/ (dsTier.gone /\ (dsTier.marker \/ long)),
                      !.marker = @ /\ ~dsTier.gone]
    /\ dsLines' = <<>>
    /\ UNCHANGED <<dsLeaf, dsTruth, dsTrigger, dsPc, dsResult>>

\* readline raises: the port vanished under the open handle.
Vanish ==
    /\ Watching /\ dsTier.ser = "stale"
    /\ dsTier' = [dsTier EXCEPT !.ser = "none", !.gone = TRUE, !.slept = dsLeaf = "asleep"]
    /\ dsLines' = <<>>
    /\ UNCHANGED <<dsLeaf, dsTruth, dsTrigger, dsPc, dsResult>>

\* Slip: a gap is proof for every reconnect after it.
ReadLineKeepsGap ==
    /\ Watching /\ dsLines # <<>>
    /\ dsLines' = Tail(dsLines)
    /\ dsTier' = CASE Head(dsLines) = "DEEP-SLEEP"  -> [dsTier EXCEPT !.marker = TRUE]
                   [] Head(dsLines) = "RECONNECTED" ->
                        [dsTier EXCEPT !.recons = 1,
                             !.cycles = IF dsTier.pending THEN @ + 1 ELSE @]
    /\ UNCHANGED <<dsLeaf, dsTruth, dsTrigger, dsPc, dsResult>>

ReadLine ==
    /\ Watching /\ dsLines # <<>>
    /\ dsLines' = Tail(dsLines)
    /\ dsTier' = CASE Head(dsLines) = "DEEP-SLEEP"  -> [dsTier EXCEPT !.marker = TRUE]
                   [] Head(dsLines) = "RECONNECTED" ->
                        [dsTier EXCEPT !.recons = 1, !.pending = FALSE,
                             !.cycles = IF dsTier.pending THEN @ + 1 ELSE @]
    /\ UNCHANGED <<dsLeaf, dsTruth, dsTrigger, dsPc, dsResult>>

\* The budget is spent, or the cycles are there.
Verdict ==
    /\ dsPc = "capture" /\ dsPc' = "teardown"
    /\ Note(IF dsTier.cycles >= Need THEN "PASS"
            ELSE IF dsTier.cycles >= 1 \/ dsTier.recons > 0 \/ dsTier.lost THEN "INCONCLUSIVE"
            ELSE "FAIL")
    /\ dsTier' = [dsTier EXCEPT !.ser = "none"] /\ dsLines' = <<>>
    /\ UNCHANGED <<dsLeaf, dsTruth, dsTrigger>>

\* The finally: the free-running trigger is restored, through a handle that is reopened once
\* if it is dead, or a warning says it is not; the leaf's board is recovered, or not.
RestoreTrigger(c) ==
    /\ dsC6' = [c EXCEPT !.rx = Append(@, "trigger")]
    /\ UNCHANGED dsTier

\* Slip: nothing is restored through a handle that died in the capture.
TeardownSkipsLost ==
    /\ dsPc = "teardown" /\ dsPc' = "over"
    /\ \/ ~dsTier.wake /\ UNCHANGED <<dsC6, dsTier>>
       \/ dsTier.wake /\ dsHandle.at = "live" /\ RestoreTrigger(dsC6)
    /\ dsHandle' = [dsHandle EXCEPT !.at = "closed"]
    /\ dsLeaf' \in {dsLeaf, "other"}
    /\ UNCHANGED <<dsTruth, dsLines, dsResult>>

Teardown ==
    /\ dsPc = "teardown" /\ dsPc' = "over"
    /\ \/ ~dsTier.c6 /\ UNCHANGED <<dsC6, dsTier>>
       \/ dsTier.c6 /\ dsHandle.at = "live" /\ RestoreTrigger(dsC6)
       \/ /\ dsTier.c6 /\ dsHandle.at = "dead"
          /\ \/ RestoreTrigger(dsC6) \/ RestoreTrigger(Booted(dsC6))
             \/ dsTier' = [dsTier EXCEPT !.warned = TRUE] /\ UNCHANGED dsC6
    /\ dsHandle' = [dsHandle EXCEPT !.at = "closed"]
    /\ dsLeaf' \in {dsLeaf, "other"}
    /\ UNCHANGED <<dsTruth, dsLines, dsResult>>

-----------------------------------------------------------------------------
SleepNext ==
    \/ handle_line \/ service_mode \/ pulse_low \/ UsbMoves
    \/ \E cmd \in {"high", "low", "hiz", "toggle", "trigger", "pulse", "save", "default"} : Order(cmd)
    \/ FreshBoot \/ WindowOver \/ SaySleep \/ enter_deep_sleep \/ RailWobbles
    \/ \E cause \in {"ext1", "timer"} : Wake(cause)
    \/ \E b \in BOOLEAN : Connect(b) \/ FlashAp(b) \/ FlashLeaf(b) \/ OpenPort(b)
    \/ \E ready, c6, reset \in BOOLEAN : TierStart(ready, c6, reset)
    \/ RestPin \/ SeeGone \/ Pulse \/ Vanish \/ ReadLine \/ Verdict \/ Teardown

SleepSpec == SleepInit /\ [][SleepNext]_dsVars

-----------------------------------------------------------------------------
(* Properties.                                                              *)

SleepTypeOK ==
    /\ dsLeaf \in Awake \cup {"other", "dark", "asleep"}
    /\ dsTruth \in [said : 0 .. MaxSleeps, told : BOOLEAN, joins : 0 .. MaxSleeps,
                    unsent : BOOLEAN]
    /\ dsC6.mode \in Resting \cup {"trigger", "toggle"} /\ dsC6.pin \in Resting
    /\ dsC6.pulse \in {"no", "commanded", "serviced"} /\ Len(dsC6.rx) <= 3
    /\ dsC6.nvs \in Resting \cup {"trigger", "toggle", "empty"}
    /\ dsHandle \in [at : {"closed", "live", "dead"}, moves : 0 .. MaxMoves6,
                     orders : 0 .. MaxOrders]
    /\ dsPc \in {"idle", "rest", "ap", "flash", "capture", "teardown", "over"}
    /\ dsTier \in [c6 : BOOLEAN, had : BOOLEAN, wake : BOOLEAN, lost : BOOLEAN, warned : BOOLEAN,
                   ser : {"none", "open", "stale"}, gone : BOOLEAN, slept : BOOLEAN,
                   marker : BOOLEAN, pending : BOOLEAN, cycles : 0 .. Need, recons : 0 .. 1]
    /\ Len(dsLines) <= 2 * MaxSleeps + 2
    /\ dsResult \in {<<>>} \cup {<<v>> : v \in {"PASS", "FAIL", "INCONCLUSIVE", "SKIP"}}

\* Each cycle counted is a join of its own, the first after the leaf said that it sleeps; it
\* may be that of a fresh boot, when a reset cut the sleep, or the going to sleep, short: the
\* tier cannot tell.  The boot after the flash is never one, and no join is counted twice,
\* however the port flaps and lines are lost with it.  And no FAIL is the verdict of a run in
\* which a wake was due and could not be commanded: that leaf has not failed.
SleepVerdictFair ==
    /\ dsTier.cycles <= dsTruth.joins
    /\ dsResult = <<"FAIL">> => ~dsTruth.unsent

\* The tier that had the trigger leaves it free-running for the next one, whatever died on
\* the way, or says that it does not.
TriggerRestored ==
    dsPc = "over" /\ dsTier.had /\ ~dsTier.warned =>
        \/ dsC6.rx = <<>> /\ dsC6.mode = "trigger"
        \/ dsC6.rx # <<>> /\ dsC6.rx[Len(dsC6.rx)] = "trigger"

=============================================================================
