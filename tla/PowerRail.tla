------------------------------ MODULE PowerRail ------------------------------
(***************************************************************************)
(* Who drives the supply of board2: ppk2_hold.py, which holds it and leaves *)
(* its PID in a file; the deep-sleep tier (dscycle.py), which starts a      *)
(* holder when there is none, frees the supply to power-cycle the board and *)
(* starts one again; and the power tier, whose take_over kills the holders  *)
(* by name.  Holders come, go and die meanwhile, and a PID that the file    *)
(* still names may be somebody else's by the next run.                      *)
(***************************************************************************)
EXTENDS Naturals, FiniteSets

CONSTANTS Pids,        \* process numbers other than the tier's
          NoPid,       \* no file
          MaxRailRuns  \* bound: runs of a tier

ASSUME RailBounds == NoPid \notin Pids /\ IsFiniteSet(Pids) /\ MaxRailRuns \in Nat

VARIABLES prProc,  \* what runs under each PID
          prFile,  \* /tmp/ppk2_hold.pid
          prRail,  \* whether the supply is on: it stays as it was left when nobody drives it
          prTier   \* the tier that runs: where, in which phase of dscycle, its own handle on
                   \* the PPK2, the processes it is to kill; history: whether something else
                   \* than the tier accounts for a missing holder

prVars == <<prProc, prFile, prRail, prTier>>

Holders == {"starting", "holding", "deaf"}
Idle == prTier.at \in {"idle", "over"}

RailInit ==
    /\ prProc = [p \in Pids |-> "none"] /\ prFile = NoPid /\ prRail \in BOOLEAN
    /\ prTier = [at |-> "idle", phase |-> "none", n |-> 0, fd |-> FALSE, targets |-> {},
                 excused |-> FALSE]

Go(place) == prTier' = [prTier EXCEPT !.at = place]
Excused == prTier' = [prTier EXCEPT !.excused = TRUE]

-----------------------------------------------------------------------------
(* ppk2_hold.py.                                                            *)

\* main: the control port is opened, the supply switched on and the file written, if it can
\* be; or the port is not there, or a call raises.
HolderOpens(p) ==
    /\ prProc[p] = "starting"
    /\ \/ /\ prProc' = [prProc EXCEPT ![p] = "holding"]
          /\ prRail' = TRUE /\ prFile' \in {p, prFile} /\ UNCHANGED prTier
       \/ prProc' = [prProc EXCEPT ![p] = "none"] /\ Excused /\ UNCHANGED <<prFile, prRail>>

\* _remove_pidfile: only its own.
_remove_pidfile(p) == prFile' = IF prFile = p THEN NoPid ELSE prFile

\* SIGTERM or Ctrl-C by hand.
HolderQuits(p) ==
    /\ prProc[p] \in {"holding", "deaf"}
    /\ prProc' = [prProc EXCEPT ![p] = "none"] /\ _remove_pidfile(p)
    /\ Excused
    /\ UNCHANGED prRail

\* External: a holder is killed, and its file stays.
HolderDies(p) ==
    /\ prProc[p] \in Holders
    /\ prProc' = [prProc EXCEPT ![p] = "none"] /\ Excused
    /\ UNCHANGED <<prFile, prRail>>

\* External: the PPK2 is plugged out and in.  Every handle on it is dead and the supply is
\* off, but the holder sleeps on.
Replug ==
    /\ prProc' = [p \in Pids |-> IF prProc[p] = "holding" THEN "deaf" ELSE prProc[p]]
    /\ prRail' = FALSE
    /\ prTier' = [prTier EXCEPT !.fd = FALSE, !.excused = TRUE]
    /\ UNCHANGED prFile

\* External: between two runs a holder is started or the supply switched off by hand, or a
\* PID goes to another process; within a run none is given out again.
ByHand(p) ==
    /\ Idle /\ prTier.n < MaxRailRuns /\ prProc[p] = "none"
    /\ \/ prProc' = [prProc EXCEPT ![p] = "starting"] /\ UNCHANGED prRail
       \/ prProc' = [prProc EXCEPT ![p] = "other"] /\ UNCHANGED prRail
       \/ prRail' = FALSE /\ UNCHANGED prProc
    /\ UNCHANGED <<prFile, prTier>>

-----------------------------------------------------------------------------
(* The power tier.                                                          *)

\* Every holder is killed by its name, and the file stays.
take_over ==
    /\ Idle /\ prTier.n < MaxRailRuns
    /\ prProc' = [p \in Pids |-> IF prProc[p] \in Holders THEN "none" ELSE prProc[p]]
    /\ prTier' = [prTier EXCEPT !.at = "measure", !.phase = "none", !.n = @ + 1, !.fd = TRUE]
    /\ UNCHANGED <<prFile, prRail>>

\* power_cycle, the ladder, close: the supply stays on, and no holder is started.
MeasureRail ==
    /\ prTier.at = "measure"
    /\ prTier' = [prTier EXCEPT !.at = "over", !.fd = FALSE]
    /\ prRail' = (prTier.fd \/ prRail)
    /\ UNCHANGED <<prProc, prFile>>

-----------------------------------------------------------------------------
(* The deep-sleep tier.                                                     *)

_pids_holding == {p \in Pids : prProc[p] = "holding"}

\* Slip: the file is believed.
PidfileBelieved == IF prFile = NoPid THEN {} ELSE {prFile}

\* A live process of that number, whatever it is.
_pidfile_holder == {p \in Pids : p = prFile /\ prProc[p] # "none"}

_holder_running == _pids_holding \cup _pidfile_holder # {}

\* Popen; or there is nothing to start, or it raises.
_start_holder(place, phase) ==
    LET tier == [prTier EXCEPT !.at = place, !.phase = phase]
    IN  \/ \E p \in Pids : /\ prProc[p] = "none" /\ p # prFile
                           /\ prProc' = [prProc EXCEPT ![p] = "starting"] /\ prTier' = tier
        \/ UNCHANGED prProc /\ prTier' = [tier EXCEPT !.excused = TRUE]

CycleStart ==
    /\ Idle /\ prTier.n < MaxRailRuns
    /\ prTier' = [prTier EXCEPT !.at = "ensure", !.phase = "ensure", !.n = @ + 1]
    /\ UNCHANGED <<prProc, prFile, prRail>>

\* Board2 is there, which takes a supply.  Or it is not: the PPK2 is missing and the run is
\* over; no holder runs, and one is started; one does, and the board is wedged.
_ensure_holder ==
    /\ prTier.at = "ensure"
    /\ \/ prRail /\ _holder_running /\ Go("tests") /\ UNCHANGED prProc
       \/ prRail /\ ~_holder_running /\ _start_holder("tests", "ensure")
       \/ Go("over") /\ UNCHANGED prProc
       \/ ~_holder_running /\ _start_holder("await", "ensure")
       \/ _holder_running /\ Go("free") /\ UNCHANGED prProc
    /\ UNCHANGED <<prFile, prRail>>

\* After the first start the board is recovered, after the second the run is over.
_await_board2 ==
    /\ prTier.at = "await"
    /\ \/ prRail /\ Go("tests")
       \/ Go(IF prTier.phase = "ensure" THEN "free" ELSE "over")
    /\ UNCHANGED <<prProc, prFile, prRail>>

\* The board of the AP is missing and the run is over; or the body of the try, whatever
\* comes of it, and the finally begins.
CycleBody ==
    /\ prTier.at = "tests"
    /\ \/ Go("over")
       \/ prTier' = [prTier EXCEPT !.at = "free", !.phase = "teardown"]
    /\ UNCHANGED <<prProc, prFile, prRail>>

\* Slip: only the process that the file names is looked for.
TargetsByFile == _pidfile_holder

Targets == _pids_holding \cup _pidfile_holder

\* A holder that was started has opened its port by now: a start is followed by two seconds
\* of sleep at least, and what the run does.
FreeScan ==
    /\ prTier.at = "free" /\ \A p \in Pids : prProc[p] # "starting"
    /\ prTier' = [prTier EXCEPT !.at = "signal", !.targets = Targets]
    /\ UNCHANGED <<prProc, prFile, prRail>>

\* SIGTERM, which a holder answers by removing its file, and a second later SIGKILL.
FreeSignal ==
    /\ prTier.at = "signal"
    /\ prFile' = IF \E p \in prTier.targets : p = prFile /\ prProc[p] \in Holders
                 THEN NoPid ELSE prFile
    /\ prProc' = [p \in Pids |-> IF p \in prTier.targets THEN "none" ELSE prProc[p]]
    /\ prTier' = [prTier EXCEPT !.at = "unlink", !.targets = {}, !.excused = FALSE]
    /\ UNCHANGED prRail

FreeUnlink ==
    /\ prTier.at = "unlink" /\ Go("cycle")
    /\ prFile' = IF _pidfile_holder = {} THEN NoPid ELSE prFile
    /\ UNCHANGED <<prProc, prRail>>

\* _recover_board2: the port is missing or a call raises; else the supply goes off, and on.
PowerOff ==
    /\ prTier.at = "cycle"
    /\ \/ Go("recovered") /\ UNCHANGED prRail
       \/ prTier' = [prTier EXCEPT !.at = "off", !.fd = TRUE] /\ prRail' = FALSE
    /\ UNCHANGED <<prProc, prFile>>

\* The idle app is flashed, or not; esptool's timeout is caught nowhere, and the run is over.
PowerOn ==
    /\ prTier.at = "off"
    /\ \E to \in {"recovered", "over"} :
        prTier' = [prTier EXCEPT !.at = to, !.fd = FALSE,
                                 !.excused = prTier.excused \/ to = "over"]
    /\ prRail' = prTier.fd
    /\ UNCHANGED <<prProc, prFile>>

\* Behind a recovery: _ensure_holder starts a holder and waits again; the finally starts one
\* when none runs.
Rehold ==
    /\ prTier.at = "recovered"
    /\ \/ prTier.phase = "ensure" /\ _start_holder("await", "again")
       \/ prTier.phase = "teardown" /\ _holder_running /\ Go("over") /\ UNCHANGED prProc
       \/ prTier.phase = "teardown" /\ ~_holder_running /\ _start_holder("over", "teardown")
    /\ UNCHANGED <<prFile, prRail>>

\* External: the environment reaps the tier.
RailKill ==
    /\ ~Idle
    /\ prTier' = [prTier EXCEPT !.at = "over", !.phase = "none", !.fd = FALSE, !.targets = {}]
    /\ UNCHANGED <<prProc, prFile, prRail>>

-----------------------------------------------------------------------------
RailNext ==
    \/ \E p \in Pids : HolderOpens(p) \/ HolderQuits(p) \/ HolderDies(p) \/ ByHand(p)
    \/ Replug
    \/ take_over \/ MeasureRail
    \/ CycleStart \/ _ensure_holder \/ _await_board2 \/ CycleBody
    \/ FreeScan \/ FreeSignal \/ FreeUnlink \/ PowerOff \/ PowerOn \/ Rehold
    \/ RailKill

RailSpec == RailInit /\ [][RailNext]_prVars

-----------------------------------------------------------------------------
(* Properties.                                                              *)

RailTypeOK ==
    /\ prProc \in [Pids -> {"none", "other"} \cup Holders]
    /\ prFile \in Pids \cup {NoPid} /\ prRail \in BOOLEAN
    /\ prTier \in [at : {"idle", "measure", "ensure", "await", "tests", "free", "signal",
                         "unlink", "cycle", "off", "recovered", "over"},
                   phase : {"none", "ensure", "again", "teardown"}, n : 0 .. MaxRailRuns,
                   fd : BOOLEAN, targets : SUBSET Pids, excused : BOOLEAN]

\* While a tier drives the supply, no holder does: what had the PPK2 open before, under a PID
\* the file names or not, was found and killed.
RailOwned == prTier.fd => _pids_holding = {}

\* "RESTARTS the holder so board2 is left powered": a run of the deep-sleep tier that comes to
\* the end of its teardown leaves a holder, whatever file and processes it found, unless
\* the holder it left could not be started, died, or lost its PPK2, or the flash of the idle
\* app hung, which leaves the finally in the middle.
RailLeftHeld ==
    prTier.at = "over" /\ prTier.phase = "teardown" /\ ~prTier.excused =>
        \E p \in Pids : prProc[p] \in Holders

\* The supply has one driver at a time, and one when the tier is done.
RailKept == RailOwned /\ RailLeftHeld

=============================================================================
