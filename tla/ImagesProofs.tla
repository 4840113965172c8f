---------------------------- MODULE ImagesProofs ----------------------------
(***************************************************************************)
(* What is proved of each rig holds of the run that puts them together     *)
(* (module MCImages).  They share no state, and a step of that run is a    *)
(* step of one rig and leaves the others as they are; so each rig takes its*)
(* own steps or none, and its inductive invariant carries over.            *)
(***************************************************************************)
EXTENDS MCImages, FixtureProofs, TierProofs

RigsInv ==
  /\ MeshInv /\ RestartInv /\ RawInv /\ IbssInv
  /\ SleepInv /\ PowerInv /\ RailInv /\ ReporterInv

(* Whichever rig runs, every rig makes a step of its own or none.          *)
LEMMA EachRigSteps ==
  ASSUME [ImagesNext]_imagesVars
  PROVE  /\ [Next]_vars /\ [RestartNext]_restartVars /\ [RawNext]_rawVars
         /\ [IbssNext]_ibVars /\ [SleepNext]_dsVars /\ [PowerNext]_pwVars
         /\ [RailNext]_prVars /\ [ReporterNext]_reporterVars
<1>1. CASE MeshRuns
  BY <1>1 DEF MeshRuns
<1>2. CASE RestartRuns
  BY <1>2 DEF RestartRuns
<1>3. CASE RawRuns
  BY <1>3 DEF RawRuns
<1>4. CASE IbssRuns
  BY <1>4 DEF IbssRuns
<1>5. CASE SleepRuns
  BY <1>5 DEF SleepRuns
<1>6. CASE PowerRuns
  BY <1>6 DEF PowerRuns
<1>7. CASE RailRuns
  BY <1>7 DEF RailRuns
<1>8. CASE FilesRuns
  BY <1>8 DEF FilesRuns
<1>9. CASE UNCHANGED imagesVars
  BY <1>9 DEF imagesVars
<1> QED BY <1>1, <1>2, <1>3, <1>4, <1>5, <1>6, <1>7, <1>8, <1>9 DEF ImagesNext

LEMMA RigsInvInit == ImagesInit => RigsInv
<1> SUFFICES ASSUME ImagesInit
             PROVE  RigsInv
  OBVIOUS
<1>1. /\ Init /\ RestartInit /\ RawInit /\ IbssInit /\ SleepInit
      /\ PowerInit /\ RailInit /\ ReporterInit
  BY DEF ImagesInit
<1> QED BY <1>1, MeshInvInit, RestartInvInit, RawInvInit, IbssInvInit, SleepInvInit,
           PowerInvInit, RailInvInit, ReporterInvInit DEF RigsInv

LEMMA RigsInvStep == RigsInv /\ [ImagesNext]_imagesVars => RigsInv'
<1> SUFFICES ASSUME RigsInv, [ImagesNext]_imagesVars
             PROVE  RigsInv'
  OBVIOUS
<1>1. /\ [Next]_vars /\ [RestartNext]_restartVars /\ [RawNext]_rawVars
      /\ [IbssNext]_ibVars /\ [SleepNext]_dsVars /\ [PowerNext]_pwVars
      /\ [RailNext]_prVars /\ [ReporterNext]_reporterVars
  BY EachRigSteps
<1>2. MeshInv' /\ RestartInv' /\ RawInv' /\ IbssInv'
  BY <1>1, MeshStep, RestartStep, RawInvNext, IbssStep DEF RigsInv
<1>3. SleepInv' /\ PowerInv' /\ RailInv' /\ ReporterInv'
  BY <1>1, SleepStep, PowerStep, RailInvStep, ReporterStep DEF RigsInv
<1> QED BY <1>2, <1>3 DEF RigsInv

LEMMA RigsInvHolds == ImagesSpec => []RigsInv
BY RigsInvInit, RigsInvStep, PTL DEF ImagesSpec

-----------------------------------------------------------------------------
(* The variables of all rigs keep their types.                             *)
THEOREM ImagesTyped == ImagesSpec => []ImagesTypeOK
<1>1. RigsInv => ImagesTypeOK
  <2> SUFFICES ASSUME RigsInv
               PROVE  ImagesTypeOK
    OBVIOUS
  <2>1. FixturesTypeOK /\ RestartTypeOK
    BY MeshTyped, RestartTyped DEF RigsInv
  <2>2. RawTypeOK /\ IbssTypeOK
    BY DEF RigsInv, RawInv, IbssInv
  <2>3. SleepTypeOK /\ PowerTypeOK
    BY SleepTyped, TypedByRecords DEF RigsInv, PowerInv
  <2>4. RailTypeOK /\ ReporterTypeOK
    BY DEF RigsInv, RailInv, ReporterInv
  <2> QED BY <2>1, <2>2, <2>3, <2>4 DEF ImagesTypeOK
<1> QED BY <1>1, RigsInvHolds, PTL

(* The verdicts of all rigs are earned, the tiers leave the bench as they  *)
(* should and the files keep what was recorded, in the run that puts the   *)
(* rigs together as in the specification of each.                          *)
THEOREM RigsKeepWord ==
  ImagesSpec => [](/\ PassIsThrough /\ WindowJudged /\ RestartShown /\ RawShownIsTold
                   /\ EachPingedOnce /\ SleepVerdictFair /\ TriggerRestored
                   /\ PowerPassEarned /\ PowerLeftQuiet /\ RailKept /\ NothingLost)
<1> DEFINE Promised ==
             /\ PassIsThrough /\ WindowJudged /\ RestartShown /\ RawShownIsTold
             /\ EachPingedOnce /\ SleepVerdictFair /\ TriggerRestored
             /\ PowerPassEarned /\ PowerLeftQuiet /\ RailKept /\ NothingLost
<1>1. RigsInv => Promised
  <2> SUFFICES ASSUME RigsInv
               PROVE  Promised
    OBVIOUS
  <2>1. PassIsThrough /\ WindowJudged /\ RestartShown
    BY MeshTyped, RestartTyped DEF RigsInv
  <2>2. RawShownIsTold /\ EachPingedOnce
    BY DEF RigsInv, RawInv, RawShownIsTold, IbssInv
  <2>3. SleepVerdictFair /\ TriggerRestored
    BY SleepTyped DEF RigsInv
  <2>4. PowerPassEarned /\ PowerLeftQuiet
    BY DEF RigsInv, PowerInv
  <2>5. RailKept /\ NothingLost
    BY RailKeeps, KeepsEnough DEF RigsInv
  <2> QED BY <2>1, <2>2, <2>3, <2>4, <2>5
<1> QED BY <1>1, RigsInvHolds, PTL

(* A FAIL of the restart fixture is fair in that run too.                  *)
THEOREM RestartFailIsFairHere == ImagesSpec => RestartFailFair
<1>1. RigsInv /\ [ImagesNext]_imagesVars => [RestartNext]_restartVars /\ RestartInv
  BY EachRigSteps DEF RigsInv
<1> QED BY <1>1, RigsInvInit, RigsInvStep, FailStepFair, PTL DEF ImagesSpec, RestartFailFair

=============================================================================
