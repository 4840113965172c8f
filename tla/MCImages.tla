------------------------------ MODULE MCImages ------------------------------
(***************************************************************************)
(* One rig at a time: the reporters of the mesh, the restart fixtures, the  *)
(* chip-statistics fixture, the IBSS programs, the deep-sleep tier, the     *)
(* power tier, the supply of board2 that the last two take from each other, *)
(* and the files that a run of any tier leaves.  They share no state here;  *)
(* the rig chosen at the start runs, and the others stay as they are.       *)
(***************************************************************************)
EXTENDS MeshFixtures, RestartFixtures, RawStats, IbssNode, SleepCycle, PowerTier,
        PowerRail, Reporter

CONSTANTS n1, n2

VARIABLE running  \* the rig

AllArms == {"mesh", "mesh+ap", "gate"}

\* One octet is clamped, and one peer's address is ours.
ThreePeers == {1, 7, 255}
OurOctets == {0}

TwoOutcomes == {PASS, FAIL}

ThreePids == {1, 2, 3}

\* A rig that does not run has one initial state.
ImagesInit ==
    /\ running \in {"mesh", "restart", "raw", "ibss", "sleep", "power", "rail", "files"}
    /\ Init /\ RestartInit /\ RawInit /\ IbssInit /\ SleepInit
    /\ PowerInit /\ RailInit /\ ReporterInit
    /\ running # "mesh" => app = "mesh-leaf" /\ hop = "bridge"
    /\ running # "restart" => arm = "mesh"
    /\ running # "power" => pwDut.app = "other" /\ ~pwAp
    /\ running # "rail" => ~prRail

MeshRuns ==
    /\ running = "mesh" /\ Next
    /\ UNCHANGED <<running, restartVars, rawVars, ibVars, dsVars, pwVars, prVars, reporterVars>>

RestartRuns ==
    /\ running = "restart" /\ RestartNext
    /\ UNCHANGED <<running, vars, rawVars, ibVars, dsVars, pwVars, prVars, reporterVars>>

RawRuns ==
    /\ running = "raw" /\ RawNext
    /\ UNCHANGED <<running, vars, restartVars, ibVars, dsVars, pwVars, prVars, reporterVars>>

IbssRuns ==
    /\ running = "ibss" /\ IbssNext
    /\ UNCHANGED <<running, vars, restartVars, rawVars, dsVars, pwVars, prVars, reporterVars>>

SleepRuns ==
    /\ running = "sleep" /\ SleepNext
    /\ UNCHANGED <<running, vars, restartVars, rawVars, ibVars, pwVars, prVars, reporterVars>>

PowerRuns ==
    /\ running = "power" /\ PowerNext
    /\ UNCHANGED <<running, vars, restartVars, rawVars, ibVars, dsVars, prVars, reporterVars>>

RailRuns ==
    /\ running = "rail" /\ RailNext
    /\ UNCHANGED <<running, vars, restartVars, rawVars, ibVars, dsVars, pwVars, reporterVars>>

FilesRuns ==
    /\ running = "files" /\ ReporterNext
    /\ UNCHANGED <<running, vars, restartVars, rawVars, ibVars, dsVars, pwVars, prVars>>

ImagesNext ==
    MeshRuns \/ RestartRuns \/ RawRuns \/ IbssRuns \/ SleepRuns \/ PowerRuns \/ RailRuns
    \/ FilesRuns

imagesVars == <<running, vars, restartVars, rawVars, ibVars, dsVars, pwVars, prVars, reporterVars>>

\* The fairness of Spec and of RestartSpec, and of test-ibss's poll; nothing is asked of the
\* other rigs.
ImagesSpec ==
    /\ ImagesInit /\ [][ImagesNext]_imagesVars
    /\ WF_vars(running = "mesh" /\ Steps)
    /\ WF_restartVars(running = "restart" /\ Fixture)
    /\ WF_ibVars(running = "ibss" /\ PollEnds)

\* Type invariant of the eight.
ImagesTypeOK ==
    /\ FixturesTypeOK /\ RestartTypeOK /\ RawTypeOK /\ IbssTypeOK /\ SleepTypeOK
    /\ PowerTypeOK /\ RailTypeOK /\ ReporterTypeOK

\* Every reporter and every restart fixture ends with one RESULT line, whatever its rig does
\* (VerdictComes, RestartVerdictComes and CellVerdictComes, of the rig that runs): no wait is
\* endless, and no path prints two lines or none.
VerdictsCome ==
    /\ running = "mesh" => VerdictComes
    /\ running = "restart" => RestartVerdictComes
    /\ running = "ibss" => CellVerdictComes

=============================================================================
