------------------------------ MODULE PowerTier ------------------------------
(***************************************************************************)
(* The power tier: tp_power.py, which owns the supply of the board under    *)
(* test, brings an AP up, flashes the power-save ladder (test-power) and    *)
(* measures its tiers; and the ladder itself, which never sees a current.   *)
(* The two share a console: a tier's window of samples hangs on the host    *)
(* time at which its marker was read.  A window opens two seconds after     *)
(* the marker and shuts one second before the tier ends; a sample in it is  *)
(* kept as whether it was taken of what the tier is about.                  *)
(***************************************************************************)
EXTENDS Results

CONSTANTS MaxTpRuns,   \* bound: runs of the tier
          MaxRestarts  \* bound: restarts of the board inside a run

ASSUME PowerBounds == {MaxTpRuns, MaxRestarts} \subseteq Nat

VARIABLES pwPc,    \* where run() is
          pwRun,   \* its arguments, results and debts; whether it began
          pwTier,  \* _capture_ladder's locals, and the windows it leads to
          pwDut,   \* board2: its image, where that is, boots since its flash
          pwAp,    \* whether the run's AP, the board or the Linux node, is on the air
          pwBase   \* TP-latest.json

pwVars == <<pwPc, pwRun, pwTier, pwDut, pwAp, pwBase>>

Tiers == {"no-ps", "dyn-ps", "twt", "wnm-powerdown"}
After(tier) == CASE tier = "no-ps" -> "dyn-ps" [] tier = "dyn-ps" -> "twt"
                 [] tier = "twt" -> "wnm-powerdown"

Unmarked == [at |-> "unseen", by |-> {}]
NoCapture == [window |-> [k \in Tiers |-> Unmarked], associated |-> "unread", wnm |-> "unread",
              done |-> FALSE]

NoRun == [n |-> 0, ap |-> "esp", had |-> {}, seed |-> {}, results |-> {}, began |-> FALSE,
          owed |-> FALSE, failed |-> {}, killed |-> FALSE]

\* Whatever an earlier run, or another tier, left on the bench.
PowerInit ==
    /\ pwPc = "idle" /\ pwRun = NoRun /\ pwTier = NoCapture
    /\ pwDut \in [app : {"other", "test-power"}, at : {"off"}, said : {FALSE}, joined : {FALSE},
                  dozes : {FALSE}, boots : {0}]
    /\ pwAp \in BOOLEAN
    /\ pwBase = {}

-----------------------------------------------------------------------------
(* The results.                                                             *)

\* rep.add of each: a fresh result supersedes the seeded one of its name, and the file is
\* written.
Added(results) ==
    LET own == pwRun.results \cup results
        rest == {s \in pwRun.seed : \A r \in results : r.name # s.name}
    IN  /\ pwRun' = [pwRun EXCEPT !.results = own, !.seed = rest]
        /\ pwBase' = own \cup rest

TpResult(name, status) == [name |-> name, status |-> status, ap |-> pwRun.ap]
OfLadder(status) == {TpResult("ladder", status)}

\* A return out of the try block: a result, and the finally.
Leave(status) ==
    /\ pwPc' = "teardown" /\ Added(OfLadder(status))
    /\ UNCHANGED pwTier

\* An exception out of it: no result, and the finally.
Raises ==
    /\ pwPc' = "teardown"
    /\ UNCHANGED <<pwRun, pwTier, pwBase>>

-----------------------------------------------------------------------------
(* run, up to the capture.                                                  *)

\* Reporter, seed_from; without a PPK2 or its module the run ends before the try block.
PowerStart(ap, append, ppk2) ==
    LET seed == IF append THEN pwBase ELSE {}
        run == [NoRun EXCEPT !.n = pwRun.n + 1, !.ap = ap, !.had = seed]
        skip == [name |-> "ladder", status |-> SKIP, ap |-> ap]
        rest == {s \in seed : s.name # "ladder"}
    IN  /\ pwPc \in {"idle", "over"} /\ pwRun.n < MaxTpRuns
        /\ IF ppk2
           THEN /\ pwPc' = "rail" /\ pwRun' = [run EXCEPT !.seed = seed, !.began = TRUE]
                /\ UNCHANGED pwBase
           ELSE /\ pwPc' = "over" /\ pwRun' = [run EXCEPT !.seed = rest, !.results = {skip}]
                /\ pwBase' = {skip} \cup rest
        /\ pwTier' = NoCapture
        /\ UNCHANGED <<pwDut, pwAp>>

\* take_over, power_cycle, and the wait for board2 to enumerate.
OwnRail ==
    /\ pwPc = "rail"
    /\ \/ Raises
       \/ Leave(SKIP)
       \/ pwPc' = "ap" /\ UNCHANGED <<pwRun, pwTier, pwBase>>
    /\ UNCHANGED <<pwDut, pwAp>>

\* The ESP AP: absent; its flash fails, or make times out; its marker does not come, or the
\* capture raises; it is up, and only then is its teardown owed.
EspAp ==
    /\ pwPc = "ap" /\ pwRun.ap = "esp"
    /\ \/ Leave(SKIP) /\ UNCHANGED pwAp
       \/ pwAp' \in {pwAp, TRUE} /\ (Leave(INCONCLUSIVE) \/ Raises)
       \/ /\ pwAp' = TRUE
          /\ pwRun' = [pwRun EXCEPT !.owed = TRUE]
          /\ pwPc' = "flash"
          /\ UNCHANGED <<pwTier, pwBase>>
    /\ UNCHANGED pwDut

\* bring_up_ap: the node is out of reach; the AP does not come up in time, or ssh times out,
\* and it may yet; it is up.
LinuxAp ==
    /\ pwPc = "ap" /\ pwRun.ap = "linux"
    /\ \/ Leave(SKIP) /\ UNCHANGED pwAp
       \/ pwAp' \in BOOLEAN /\ (Leave(INCONCLUSIVE) \/ Raises)
       \/ /\ pwAp' = TRUE
          /\ pwRun' = [pwRun EXCEPT !.owed = TRUE]
          /\ pwPc' = "flash"
          /\ UNCHANGED <<pwTier, pwBase>>
    /\ UNCHANGED pwDut

\* The flash of test-power; a failed one may have written it.
FlashDut ==
    /\ pwPc = "flash"
    /\ \/ /\ pwDut' \in {pwDut, [pwDut EXCEPT !.app = "test-power"]}
          /\ Leave(INCONCLUSIVE) \/ Raises
       \/ /\ pwDut' = [pwDut EXCEPT !.app = "test-power", !.at = "boot", !.boots = 1]
          /\ pwPc' = "flashed"
          /\ UNCHANGED <<pwRun, pwTier, pwBase>>
    /\ UNCHANGED pwAp

\* sampler.start, and the console opened: the ladder may be anywhere by now.
OpenConsole ==
    /\ pwPc = "flashed"
    /\ \/ Raises
       \/ pwPc' = "capture" /\ UNCHANGED <<pwRun, pwTier, pwBase>>
    /\ UNCHANGED <<pwDut, pwAp>>

-----------------------------------------------------------------------------
(* test-power.  A line that is printed while the console is open is read.   *)

Runs == pwPc \in {"flashed", "capture"}
Reads == pwPc = "capture"

\* What a sample is of: that tier of a station that associated since its boot (a later loss of
\* the link shows nowhere), dozing in the deepest; or not.
OfTier(tier, d) == d.at = tier /\ d.joined /\ (tier = "wnm-powerdown" => d.dozes)

\* The open windows go on sampling, whatever the board does.
Sampled(windows, d) ==
    [k \in Tiers |-> IF windows[k].at = "open"
                     THEN [windows[k] EXCEPT !.by = @ \cup {OfTier(k, d)}] ELSE windows[k]]

Becomes(d) ==
    /\ pwDut' = d
    /\ pwTier' = [pwTier EXCEPT !.window = Sampled(@, d)]
    /\ UNCHANGED <<pwPc, pwRun, pwAp, pwBase>>

\* D5 high at boot: it idles for a reflash; else it begins to connect.
PowerBoot(high) ==
    /\ Runs /\ pwDut.at = "boot"
    /\ Becomes([pwDut EXCEPT !.at = IF high THEN "hold" ELSE "joining"])

\* The first line of each step counts (setdefault).
Joined(joins) ==
    /\ Runs /\ pwDut.at = "joining"
    /\ LET d == [pwDut EXCEPT !.at = "waiting", !.joined = joins]
       IN  /\ pwDut' = d
           /\ pwTier' = [pwTier EXCEPT !.window = Sampled(@, d),
                             !.associated = IF Reads /\ @ = "unread"
                                            THEN IF joins THEN PASS ELSE FAIL ELSE @]
    /\ UNCHANGED <<pwPc, pwRun, pwAp, pwBase>>

\* The first marker of each tier counts.
Marked(windows, tier) ==
    [k \in Tiers |-> IF k = tier /\ Reads /\ windows[k].at = "unseen"
                     THEN [windows[k] EXCEPT !.at = "marked"] ELSE windows[k]]

\* A tier's mode is set and then its marker printed.
\* A station that is not associated, or that the AP refuses, does not doze in the last.
Enters(tier, accepted) ==
    LET d == [pwDut EXCEPT !.at = tier, !.said = FALSE, !.dozes = accepted]
    IN  /\ accepted => tier = "wnm-powerdown" /\ pwDut.joined
        /\ pwDut' = d
        /\ pwTier' = [pwTier EXCEPT !.window = Marked(Sampled(@, d), tier)]
        /\ UNCHANGED <<pwPc, pwRun, pwAp, pwBase>>

\* wait_for_trigger: the C6 pulls D5 low and lets go.
Triggered == Runs /\ pwDut.at = "waiting" /\ Enters("no-ps", FALSE)

\* A tier lasts longer than its window, which opened at its own marker.
TierOver(tier) ==
    /\ Runs /\ pwDut.at = tier
    /\ Reads => pwTier.window[tier].at \notin {"marked", "open"}

NextTier(accepted) ==
    \E tier \in Tiers \ {"wnm-powerdown"} : TierOver(tier) /\ Enters(After(tier), accepted)

\* The line after the last marker: wnm-accepted.
SayWnm ==
    /\ Runs /\ pwDut.at = "wnm-powerdown" /\ ~pwDut.said
    /\ pwDut' = [pwDut EXCEPT !.said = TRUE]
    /\ pwTier' = [pwTier EXCEPT !.wnm = IF Reads /\ @ = "unread"
                                        THEN IF pwDut.dozes THEN PASS ELSE FAIL ELSE @]
    /\ UNCHANGED <<pwPc, pwRun, pwAp, pwBase>>

\* ladder-done ends the capture.
LadderDone ==
    /\ TierOver("wnm-powerdown") /\ pwDut.said
    /\ pwDut' = [pwDut EXCEPT !.at = "waiting", !.dozes = FALSE]
    /\ pwTier' = [pwTier EXCEPT !.done = Reads]
    /\ pwPc' = IF Reads THEN "judge" ELSE pwPc
    /\ UNCHANGED <<pwRun, pwAp, pwBase>>

\* External: the board restarts, and its console survives.
DutRestarts ==
    /\ Runs /\ pwDut.at \notin {"boot", "hold"} /\ pwDut.boots <= MaxRestarts
    /\ Becomes([pwDut EXCEPT !.at = "boot", !.joined = FALSE, !.dozes = FALSE, !.boots = @ + 1])

-----------------------------------------------------------------------------
(* The samples, and the verdict.                                            *)

\* Two seconds after the marker; the line behind the marker is out by then.
WindowOpensAtOnce(tier) ==
    /\ Reads /\ pwTier.window[tier].at = "marked"
    /\ pwTier' = [pwTier EXCEPT !.window[tier] = [at |-> "open", by |-> {OfTier(tier, pwDut)}]]
    /\ UNCHANGED <<pwPc, pwRun, pwDut, pwAp, pwBase>>

WindowOpens(tier) ==
    /\ Reads /\ pwTier.window[tier].at = "marked"
    /\ pwDut.at = "wnm-powerdown" => pwDut.said
    /\ pwTier' = [pwTier EXCEPT !.window[tier] = [at |-> "open", by |-> {OfTier(tier, pwDut)}]]
    /\ UNCHANGED <<pwPc, pwRun, pwDut, pwAp, pwBase>>

WindowShuts(tier) ==
    /\ Reads /\ pwTier.window[tier].at = "open"
    /\ pwTier' = [pwTier EXCEPT !.window[tier].at = "shut"]
    /\ UNCHANGED <<pwPc, pwRun, pwDut, pwAp, pwBase>>

\* The budget is spent, and the sampler stops; or readline raises.
CaptureEnds ==
    /\ Reads
    /\ \/ Raises
       \/ pwPc' = "judge" /\ UNCHANGED <<pwRun, pwTier, pwBase>>
    /\ UNCHANGED <<pwDut, pwAp>>

\* Slip: association is not asked for.
ValidUnasked(anchor) == pwTier.window["no-ps"].by # {} /\ anchor

\* The measurement is trustworthy: associated, and the anchor's median in its window.
Valid(anchor) ==
    /\ pwTier.associated = PASS
    /\ pwTier.window["no-ps"].by # {} /\ anchor

\* A low current whose structural step failed is not a PASS; a step that was not read is
\* taken to have passed.
StepOk(tier) == tier = "wnm-powerdown" => pwTier.wnm # FAIL

\* Where a tier's median falls in the bands of this AP and variant.
TierStatus(tier, anchor, level) ==
    IF pwTier.window[tier].by = {} THEN INCONCLUSIVE
    ELSE IF tier = "twt" THEN PASS
    ELSE IF ~Valid(anchor) THEN INCONCLUSIVE
    ELSE IF tier = "no-ps" THEN PASS
    ELSE IF level = "high" THEN FAIL
    ELSE IF level = "low" /\ StepOk(tier) THEN PASS ELSE INCONCLUSIVE

\* No first marker: the trigger never fired.  Else _score, and the unfinished ladder.
Score(anchor, level) ==
    /\ pwPc = "judge" /\ pwPc' = "teardown"
    /\ IF pwTier.window["no-ps"].at = "unseen"
       THEN Added(OfLadder(INCONCLUSIVE))
       ELSE Added({TpResult(k, TierStatus(k, anchor, level[k])) : k \in Tiers}
                  \cup IF pwTier.done THEN {} ELSE {TpResult("ladder-complete", INCONCLUSIVE)})
    /\ UNCHANGED <<pwTier, pwDut, pwAp>>

-----------------------------------------------------------------------------
(* The finally.                                                             *)

\* go_radio_silent of board2, whose outcome is not looked at; make may time out, and then
\* nothing after it happens.
SilenceDut ==
    /\ pwPc = "teardown"
    /\ \/ pwDut' = [pwDut EXCEPT !.app = "idle", !.at = "off"] /\ pwPc' = "ap-down" /\ UNCHANGED pwRun
       \/ /\ pwRun' = [pwRun EXCEPT !.failed = {"dut"}]
          /\ pwPc' = "ap-down" /\ UNCHANGED pwDut
       \/ /\ pwRun' = [pwRun EXCEPT !.failed = {"dut", "ap"}]
          /\ pwPc' = "over" /\ UNCHANGED pwDut
    /\ UNCHANGED <<pwTier, pwAp, pwBase>>

\* Slip: the AP is taken down only when the board was silenced.
ApDownIfSilenced ==
    /\ pwPc = "ap-down" /\ pwPc' = "over"
    /\ pwAp' = IF pwRun.owed /\ pwRun.failed = {} THEN FALSE ELSE pwAp
    /\ UNCHANGED <<pwRun, pwTier, pwDut, pwBase>>

\* ap_teardown, if it is owed: the AP board to idle, or the node's radio down; its failure
\* and its exception are swallowed.
ApDown ==
    /\ pwPc = "ap-down" /\ pwPc' = "over"
    /\ \/ ~pwRun.owed /\ UNCHANGED <<pwRun, pwAp>>
       \/ pwRun.owed /\ pwAp' = FALSE /\ UNCHANGED pwRun
       \/ /\ pwRun.owed /\ UNCHANGED pwAp
          /\ pwRun' = [pwRun EXCEPT !.failed = @ \cup {"ap"}]
    /\ UNCHANGED <<pwTier, pwDut, pwBase>>

\* External: the environment reaps the process.
PowerKill ==
    /\ pwPc \notin {"idle", "over"} /\ pwPc' = "over"
    /\ pwRun' = [pwRun EXCEPT !.killed = TRUE]
    /\ UNCHANGED <<pwTier, pwDut, pwAp, pwBase>>

-----------------------------------------------------------------------------
PowerNext ==
    \/ \E ap \in {"esp", "linux"}, append, ppk2 \in BOOLEAN : PowerStart(ap, append, ppk2)
    \/ OwnRail \/ EspAp \/ LinuxAp \/ FlashDut \/ OpenConsole
    \/ \E b \in BOOLEAN : PowerBoot(b) \/ Joined(b) \/ NextTier(b)
    \/ Triggered \/ SayWnm \/ LadderDone \/ DutRestarts
    \/ \E k \in Tiers : WindowOpens(k) \/ WindowShuts(k)
    \/ CaptureEnds
    \/ \E anchor \in BOOLEAN, level \in [Tiers -> {"low", "grey", "high"}] : Score(anchor, level)
    \/ SilenceDut \/ ApDown \/ PowerKill

PowerSpec == PowerInit /\ [][PowerNext]_pwVars

-----------------------------------------------------------------------------
(* Properties.                                                              *)

Statuses == {PASS, FAIL, SKIP, INCONCLUSIVE}
TpResults == [name : Tiers \cup {"ladder", "ladder-complete"}, status : Statuses,
              ap : {"esp", "linux"}]

PowerTypeOK ==
    /\ pwPc \in {"idle", "rail", "ap", "flash", "flashed", "capture", "judge", "teardown",
                 "ap-down", "over"}
    /\ pwRun.n \in 0 .. MaxTpRuns /\ pwRun.ap \in {"esp", "linux"}
    /\ {pwRun.began, pwRun.owed, pwRun.killed} \subseteq BOOLEAN
    /\ pwRun.failed \subseteq {"dut", "ap"}
    /\ pwRun.had \cup pwRun.seed \cup pwRun.results \cup pwBase \subseteq TpResults
    /\ \A k \in Tiers : pwTier.window[k].at \in {"unseen", "marked", "open", "shut"}
    /\ {pwTier.associated, pwTier.wnm} \subseteq {"unread", PASS, FAIL} /\ pwTier.done \in BOOLEAN
    /\ pwDut.app \in {"other", "test-power", "idle"}
    /\ pwDut.at \in Tiers \cup {"off", "boot", "hold", "joining", "waiting"}
    /\ {pwDut.said, pwDut.joined, pwDut.dozes} \subseteq BOOLEAN
    /\ pwDut.boots \in 0 .. MaxRestarts + 1
    /\ pwAp \in BOOLEAN

\* A tier that passes was measured: the console said that the station associated, and, when
\* the board did not restart in the run, every sample behind the verdict is of that very tier,
\* of a station that associated, and in the deepest one of a chip that dozes.  Neither a capture
\* cut short between two lines, nor a ladder that began before the console was open, nor a
\* second ladder can lend a tier another's samples or another's word.
PowerPassEarned ==
    \A r \in pwRun.results :
        r.status = PASS /\ r.name \in Tiers \ {"twt"} =>
            /\ pwTier.associated = PASS
            /\ pwDut.boots = 1 => pwTier.window[r.name].by = {TRUE}

\* A run that ends by itself leaves the board under test idle and the AP it had up down,
\* however it left the try block, unless silencing that very one failed (make's time-out on
\* the first takes the second with it).
PowerLeftQuiet ==
    pwPc = "over" /\ pwRun.began /\ ~pwRun.killed =>
        /\ pwDut.app = "test-power" => "dut" \in pwRun.failed
        /\ pwRun.owed => "ap" \in pwRun.failed \/ ~pwAp

\* "accumulate onto the existing TP baseline (e.g. run both AP paths)": the FAIL that the
\* ladder over one AP recorded is still in the baseline after an appended run over the other.
AppendKeepsBoth ==
    pwPc = "over" => \A r \in pwRun.had : r.status = FAIL /\ r.ap # pwRun.ap => r \in pwBase

=============================================================================
