----------------------------- MODULE TierProofs -----------------------------
(***************************************************************************)
(* The harness's files and its two measuring tiers: what regtest's          *)
(* Reporter keeps (module Reporter), what the TP power ladder concludes     *)
(* from the current it sampled (PowerTier), what the dscycle tier concludes *)
(* from the lines of a leaf that sleeps (SleepCycle), and who drives the    *)
(* supply that both use (PowerRail); for any tests, runs, processes,        *)
(* restarts, sleeps and moves of the USB port.                              *)
(***************************************************************************)
EXTENDS Reporter, PowerTier, SleepCycle, PowerRail, FiniteSetTheorems, SequenceTheorems, TLAPS

-----------------------------------------------------------------------------
(* THE REPORTER.  Its file is rewritten after every result, its ledger      *)
(* appended to, and the process may be killed anywhere.  ReporterInv says   *)
(* what the two hold in the middle of that.                                 *)

(* A set of results in which no name has two.                              *)
OneEach(results) == \A r, s \in results : r.name = s.name => r = s

(* The result under way is one, of the run under way.                      *)
OneAdded ==
  /\ rep.pc # "off" => rep.run >= 1
  /\ rep.pc \in {"body", "line", "eol"} => \E r \in Entry : rep.add = {r}

(* What the run would write: the results that the baseline accumulates.    *)
MergeKeeps ==
  /\ OneEach(Merged(rep))
  /\ hist.seeded \subseteq Names(Merged(rep))

(* A baseline that parses is the merge of the run that wrote it; before    *)
(* the first result of a run that is an earlier one.                       *)
DiskIsMerge ==
  disk.state = "whole" =>
    /\ OneEach(disk.results)
    /\ rep.results # {} => disk.results = Merged(rep)
    /\ rep.results # {} /\ disk.complete => rep.complete

(* The torn line that a kill left costs one recorded result more: the one  *)
(* that continues it.                                                      *)
Owed == IF (rep.pc = "eol" /\ rep.glued) \/ (rep.pc # "eol" /\ ledger.torn) THEN 1 ELSE 0

LossPaid ==
  /\ IsFiniteSet(hist.returned)
  /\ Cardinality(hist.returned \ ledger.lines) + Owed <= hist.killed

ReporterInv == ReporterTypeOK /\ OneAdded /\ MergeKeeps /\ DiskIsMerge /\ LossPaid

-----------------------------------------------------------------------------
LEMMA ReporterInvInit == ReporterInit => ReporterInv
<1> SUFFICES ASSUME ReporterInit
             PROVE  ReporterInv
  OBVIOUS
<1>1. ReporterTypeOK
  BY RunBound DEF ReporterInit, ReporterTypeOK, Absent, File
<1>2. OneAdded /\ MergeKeeps /\ DiskIsMerge
  BY DEF ReporterInit, OneAdded, MergeKeeps, DiskIsMerge, OneEach, Merged, Absent, File
<1>3. LossPaid
  <2>1. hist.returned = {} /\ hist.returned \ ledger.lines = {} /\ Owed = 0 /\ hist.killed = 0
    BY DEF ReporterInit, Owed
  <2> QED BY <2>1, FS_EmptySet DEF LossPaid
<1> QED BY <1>1, <1>2, <1>3 DEF ReporterInv

LEMMA ReporterStarts ==
  ASSUME ReporterInv, NEW append \in BOOLEAN, ReporterStart(append)
  PROVE  ReporterInv'
<1> DEFINE seed == IF append /\ disk.state = "whole" THEN disk.results ELSE {}
<1> USE DEF ReporterInv
<1>1. /\ rep' = [pc |-> "ready", run |-> rep.run + 1, results |-> {}, seed |-> seed,
                 complete |-> FALSE, add |-> {}, glued |-> FALSE]
      /\ hist' = [hist EXCEPT !.seeded = Names(seed)]
      /\ rep.pc = "off" /\ rep.run < MaxRuns /\ UNCHANGED <<disk, ledger>>
  BY DEF ReporterStart
<1>2. seed \subseteq Entry /\ OneEach(seed)
  BY DEF ReporterTypeOK, DiskIsMerge, OneEach
<1> HIDE DEF seed
<1>3. /\ hist'.seeded = Names(seed) /\ hist'.returned = hist.returned
         /\ hist'.killed = hist.killed
      /\ hist' \in [seeded : SUBSET Name, returned : SUBSET Entry, killed : Nat]
  <2>1. Names(seed) \subseteq Name
    BY <1>2 DEF Names, Entry
  <2> QED BY <1>1, <2>1 DEF ReporterTypeOK
<1>4. ReporterTypeOK'
  <2>1. rep.run + 1 \in 0 .. MaxRuns
    BY <1>1, RunBound DEF ReporterTypeOK
  <2> QED BY <1>1, <1>2, <1>3, <2>1 DEF ReporterTypeOK
<1>5. OneAdded'
  BY <1>1 DEF OneAdded, ReporterTypeOK
<1>6. MergeKeeps' /\ DiskIsMerge'
  BY <1>1, <1>2 DEF MergeKeeps, DiskIsMerge, Merged
<1>7. LossPaid'
  BY <1>1 DEF LossPaid, Owed
<1> QED BY <1>4, <1>5, <1>6, <1>7

LEMMA ReporterAdds ==
  ASSUME ReporterInv, NEW name \in Name, NEW status \in Outcome, Add(name, status)
  PROVE  ReporterInv'
<1> DEFINE r == [name |-> name, status |-> status, run |-> rep.run]
<1> USE DEF ReporterInv
<1>1. /\ rep' = [rep EXCEPT !.pc = "body", !.results = @ \cup {r}, !.add = {r},
                            !.seed = Supersede(@, name)]
      /\ rep.pc = "ready" /\ name \notin Names(rep.results)
      /\ disk' = Torn /\ UNCHANGED <<ledger, hist>>
  BY DEF Add
<1>2. r \in Entry /\ r.name = name
  BY <1>1 DEF ReporterTypeOK, OneAdded, Entry
<1> HIDE DEF r
<1>3. /\ rep'.pc = "body" /\ rep'.results = rep.results \cup {r} /\ rep'.add = {r}
      /\ rep'.seed = Supersede(rep.seed, name) /\ rep'.run = rep.run
  BY <1>1
<1>4. ReporterTypeOK'
  <2>1. rep' \in [pc : {"off", "ready", "body", "line", "eol", "last"},
              run : 0 .. MaxRuns, results : SUBSET Entry, seed : SUBSET Entry,
              complete : BOOLEAN, add : SUBSET Entry, glued : BOOLEAN]
    BY <1>1, <1>2 DEF ReporterTypeOK, Supersede
  <2>2. disk' \in [state : {"absent", "torn", "whole"}, complete : BOOLEAN,
                   results : SUBSET Entry]
    BY <1>1 DEF Torn, File
  <2> QED BY <1>1, <2>1, <2>2 DEF ReporterTypeOK
<1>5. OneAdded'
  BY <1>1, <1>2 DEF OneAdded
<1>6. MergeKeeps'
  <2>1. OneEach(Merged(rep))'
    BY <1>1, <1>2 DEF MergeKeeps, Merged, OneEach, Names, Supersede
  <2>2. Names(Merged(rep)) \subseteq Names(Merged(rep))'
    BY <1>2, <1>3 DEF Merged, Names, Supersede
  <2> QED BY <1>1, <2>1, <2>2 DEF MergeKeeps
<1>7. DiskIsMerge'
  BY <1>1 DEF DiskIsMerge, Torn, File
<1>8. LossPaid'
  BY <1>1 DEF LossPaid, Owed
<1> QED BY <1>4, <1>5, <1>6, <1>7, <1>8

(* What is written is the merge, or does not parse.                        *)
LEMMA WritesMerge ==
  ASSUME ReporterInv, Written, rep'.results = rep.results, rep'.seed = rep.seed,
         rep'.complete = rep.complete, UNCHANGED hist
  PROVE  /\ disk' \in [state : {"absent", "torn", "whole"}, complete : BOOLEAN,
                       results : SUBSET Entry]
         /\ MergeKeeps' /\ DiskIsMerge'
<1>1. Merged(rep)' = Merged(rep) /\ Merged(rep) \subseteq Entry
  BY DEF Merged, ReporterInv, ReporterTypeOK
<1>2. CASE disk' = Torn
  BY <1>1, <1>2 DEF ReporterInv, MergeKeeps, DiskIsMerge, Torn, File
<1>3. CASE disk' = File("whole", rep.complete, Merged(rep))
  BY <1>1, <1>3 DEF ReporterInv, ReporterTypeOK, MergeKeeps, DiskIsMerge, File
<1> QED BY <1>2, <1>3 DEF Written

LEMMA ReporterBody ==
  ASSUME ReporterInv, Body
  PROVE  ReporterInv'
<1> USE DEF ReporterInv
<1>1. rep' = [rep EXCEPT !.pc = "line"] /\ rep.pc = "body" /\ Written /\ UNCHANGED <<ledger,
      hist>>
  BY DEF Body
<1>2. /\ rep'.pc = "line" /\ rep'.results = rep.results /\ rep'.seed = rep.seed
      /\ rep'.complete = rep.complete /\ rep'.add = rep.add /\ rep'.run = rep.run
      /\ rep'.glued = rep.glued
  BY <1>1
<1>3. disk' \in [state : {"absent", "torn", "whole"}, complete : BOOLEAN, results : SUBSET Entry]
      /\ MergeKeeps' /\ DiskIsMerge'
  BY <1>1, WritesMerge
<1>4. ReporterTypeOK'
  BY <1>1, <1>3 DEF ReporterTypeOK
<1>5. OneAdded'
  BY <1>1 DEF OneAdded
<1>6. LossPaid'
  BY <1>1 DEF LossPaid, Owed
<1> QED BY <1>3, <1>4, <1>5, <1>6

LEMMA ReporterLastWrite ==
  ASSUME ReporterInv, LastWrite
  PROVE  ReporterInv'
<1> USE DEF ReporterInv
<1>1. rep' = [rep EXCEPT !.pc = "off"] /\ rep.pc = "last" /\ Written /\ UNCHANGED <<ledger, hist>>
  BY DEF LastWrite
<1>2. /\ rep'.pc = "off" /\ rep'.results = rep.results /\ rep'.seed = rep.seed
      /\ rep'.complete = rep.complete /\ rep'.add = rep.add /\ rep'.run = rep.run
      /\ rep'.glued = rep.glued
  BY <1>1
<1>3. disk' \in [state : {"absent", "torn", "whole"}, complete : BOOLEAN, results : SUBSET Entry]
      /\ MergeKeeps' /\ DiskIsMerge'
  BY <1>1, WritesMerge
<1>4. ReporterTypeOK'
  BY <1>1, <1>3 DEF ReporterTypeOK
<1>5. OneAdded'
  BY <1>2 DEF OneAdded
<1>6. LossPaid'
  BY <1>1 DEF LossPaid, Owed
<1> QED BY <1>3, <1>4, <1>5, <1>6

(* The steps that write neither file: the run's place, and that it is     *)
(* complete.                                                               *)
LEMMA ReporterPlaces ==
  ASSUME ReporterInv, NoLine \/ Raise
  PROVE  ReporterInv'
<1> USE DEF ReporterInv
<1> DEFINE Place ==
             /\ rep.pc \in {"line", "ready"} /\ rep'.pc \in {"ready", "off"}
             /\ rep'.results = rep.results /\ rep'.seed = rep.seed
             /\ rep'.complete = rep.complete /\ rep'.run = rep.run
           Typed ==
             rep' \in [pc : {"off", "ready", "body", "line", "eol", "last"},
                      run : 0 .. MaxRuns, results : SUBSET Entry, seed : SUBSET Entry,
                      complete : BOOLEAN, add : SUBSET Entry, glued : BOOLEAN]
<1>0. rep \in [pc : {"off", "ready", "body", "line", "eol", "last"},
              run : 0 .. MaxRuns, results : SUBSET Entry, seed : SUBSET Entry,
              complete : BOOLEAN, add : SUBSET Entry, glued : BOOLEAN]
  BY DEF ReporterTypeOK
<1>1. Place /\ Typed /\ UNCHANGED <<disk, ledger, hist>>
  <2>1. CASE NoLine
    <3>1. rep' = [rep EXCEPT !.pc = "ready", !.add = {}] /\ rep.pc = "line"
      BY <2>1 DEF NoLine
    <3>2. Place
      BY <1>0, <3>1
    <3>3. Typed
      BY <1>0, <3>1
    <3> QED BY <2>1, <3>2, <3>3 DEF NoLine
  <2>2. CASE Raise
    <3>1. rep' = [rep EXCEPT !.pc = "off"] /\ rep.pc = "ready"
      BY <2>2 DEF Raise
    <3>2. Place
      BY <1>0, <3>1
    <3>3. Typed
      BY <1>0, <3>1
    <3> QED BY <2>2, <3>2, <3>3 DEF Raise
  <2> QED BY <2>1, <2>2
<1>2. ReporterTypeOK'
  BY <1>1 DEF ReporterTypeOK
<1>3. OneAdded'
  BY <1>1 DEF OneAdded
<1>4. MergeKeeps' /\ DiskIsMerge'
  BY <1>1 DEF MergeKeeps, DiskIsMerge, Merged
<1>5. LossPaid'
  BY <1>1 DEF LossPaid, Owed
<1> QED BY <1>2, <1>3, <1>4, <1>5

LEMMA ReporterFinalize ==
  ASSUME ReporterInv, Finalize
  PROVE  ReporterInv'
<1> USE DEF ReporterInv
<1>1. /\ rep.pc = "ready" /\ rep'.pc = "last"
      /\ rep'.results = rep.results /\ rep'.seed = rep.seed /\ rep'.run = rep.run
      /\ rep' \in [pc : {"off", "ready", "body", "line", "eol", "last"},
              run : 0 .. MaxRuns, results : SUBSET Entry, seed : SUBSET Entry,
              complete : BOOLEAN, add : SUBSET Entry, glued : BOOLEAN]
      /\ disk' = Torn /\ UNCHANGED <<ledger, hist>>
  BY DEF ReporterTypeOK, Finalize
<1>2. ReporterTypeOK'
  BY <1>1 DEF ReporterTypeOK, Torn, File
<1>3. OneAdded'
  BY <1>1 DEF OneAdded
<1>4. MergeKeeps' /\ DiskIsMerge'
  BY <1>1 DEF MergeKeeps, DiskIsMerge, Merged, Torn, File
<1>5. LossPaid'
  BY <1>1 DEF LossPaid, Owed
<1> QED BY <1>2, <1>3, <1>4, <1>5

(* A line begun is torn until its end; a kill in it is counted.            *)
LEMMA ReporterLine ==
  ASSUME ReporterInv, Line
  PROVE  ReporterInv'
<1> USE DEF ReporterInv
<1>1. /\ rep.pc = "line" /\ rep'.pc = "eol" /\ rep'.add = rep.add /\ rep'.glued = ledger.torn
      /\ rep'.results = rep.results /\ rep'.seed = rep.seed /\ rep'.run = rep.run
      /\ rep'.complete = rep.complete
      /\ rep' \in [pc : {"off", "ready", "body", "line", "eol", "last"},
              run : 0 .. MaxRuns, results : SUBSET Entry, seed : SUBSET Entry,
              complete : BOOLEAN, add : SUBSET Entry, glued : BOOLEAN]
      /\ ledger'.lines = ledger.lines /\ ledger' \in [lines : SUBSET Entry, torn : BOOLEAN]
      /\ UNCHANGED <<disk, hist>>
  BY DEF ReporterTypeOK, Line
<1>2. ReporterTypeOK'
  BY <1>1 DEF ReporterTypeOK
<1>3. OneAdded'
  BY <1>1 DEF OneAdded
<1>4. MergeKeeps' /\ DiskIsMerge'
  BY <1>1 DEF MergeKeeps, DiskIsMerge, Merged
<1>5. LossPaid'
  BY <1>1 DEF LossPaid, Owed
<1> QED BY <1>2, <1>3, <1>4, <1>5

LEMMA ReporterKill ==
  ASSUME ReporterInv, Kill
  PROVE  ReporterInv'
<1> USE DEF ReporterInv
<1>1. /\ rep'.pc = "off" /\ rep'.results = rep.results /\ rep'.seed = rep.seed
      /\ rep'.complete = rep.complete
      /\ rep' \in [pc : {"off", "ready", "body", "line", "eol", "last"},
              run : 0 .. MaxRuns, results : SUBSET Entry, seed : SUBSET Entry,
              complete : BOOLEAN, add : SUBSET Entry, glued : BOOLEAN]
      /\ hist'.seeded = hist.seeded /\ hist'.returned = hist.returned
      /\ hist'.killed = hist.killed + (IF rep.pc = "eol" THEN 1 ELSE 0)
      /\ hist' \in [seeded : SUBSET Name, returned : SUBSET Entry, killed : Nat]
      /\ UNCHANGED <<disk, ledger>>
  BY DEF ReporterTypeOK, Kill
<1>2. ReporterTypeOK'
  BY <1>1 DEF ReporterTypeOK
<1>3. OneAdded'
  BY <1>1 DEF OneAdded
<1>4. MergeKeeps' /\ DiskIsMerge'
  BY <1>1 DEF MergeKeeps, DiskIsMerge, Merged
<1>5. LossPaid'
  <2>1. Cardinality(hist.returned \ ledger.lines) \in Nat
    BY FS_Difference, FS_CardinalityType DEF LossPaid
  <2> QED BY <1>1, <2>1 DEF LossPaid, Owed, ReporterTypeOK
<1> QED BY <1>2, <1>3, <1>4, <1>5

(* At its end the line is read, unless it continues a torn one: then it    *)
(* and the result are lost, and what the kill owed is paid.                *)
LEMMA ReporterEol ==
  ASSUME ReporterInv, Eol
  PROVE  ReporterInv'
<1> USE DEF ReporterInv
<1>1. /\ rep.pc = "eol" /\ rep'.pc = "ready"
      /\ rep'.results = rep.results /\ rep'.seed = rep.seed /\ rep'.run = rep.run
      /\ rep'.complete = rep.complete
      /\ rep' \in [pc : {"off", "ready", "body", "line", "eol", "last"},
              run : 0 .. MaxRuns, results : SUBSET Entry, seed : SUBSET Entry,
              complete : BOOLEAN, add : SUBSET Entry, glued : BOOLEAN]
      /\ hist'.seeded = hist.seeded /\ hist'.killed = hist.killed
      /\ hist'.returned = hist.returned \cup rep.add
      /\ hist' \in [seeded : SUBSET Name, returned : SUBSET Entry, killed : Nat]
      /\ ledger' = [lines |-> History, torn |-> FALSE] /\ UNCHANGED disk
  BY DEF ReporterTypeOK, Eol
<1>2. ReporterTypeOK'
  BY <1>1 DEF ReporterTypeOK, History
<1>3. OneAdded'
  BY <1>1 DEF OneAdded
<1>4. MergeKeeps' /\ DiskIsMerge'
  BY <1>1 DEF MergeKeeps, DiskIsMerge, Merged
<1>5. LossPaid'
  <2> DEFINE lost == hist.returned \ ledger.lines
  <2>1. PICK r \in Entry : rep.add = {r}
    BY <1>1 DEF OneAdded
  <2>2. IsFiniteSet(lost) /\ IsFiniteSet(lost \cup {r}) /\ Cardinality(lost) \in Nat
    BY FS_Difference, FS_AddElement, FS_CardinalityType DEF LossPaid
  <2>3. IsFiniteSet(hist'.returned)
    BY <1>1, <2>1, FS_AddElement DEF LossPaid
  <2>4. Owed' = 0
    BY <1>1 DEF Owed
  <2>5. CASE rep.glued
    <3>1. (hist.returned \ ledger.lines)' \subseteq lost \cup {r}
      BY <1>1, <2>1 DEF History
    <3>2. Cardinality((hist.returned \ ledger.lines)') <= Cardinality(lost \cup {r})
          /\ Cardinality((hist.returned \ ledger.lines)') \in Nat
          /\ Cardinality(lost \cup {r}) \in Nat
      BY <2>2, <3>1, FS_Subset, FS_CardinalityType
    <3>3. Cardinality(lost \cup {r}) <= Cardinality(lost) + 1
      BY <2>2, FS_AddElement
    <3>4. Owed = 1
      BY <1>1, <2>5 DEF Owed
    <3> QED BY <1>1, <2>2, <2>3, <2>4, <3>2, <3>3, <3>4 DEF LossPaid
  <2>6. CASE ~rep.glued
    <3>1. (hist.returned \ ledger.lines)' \subseteq lost
      BY <1>1, <2>6 DEF History
    <3>2. Cardinality((hist.returned \ ledger.lines)') <= Cardinality(lost)
          /\ Cardinality((hist.returned \ ledger.lines)') \in Nat
      BY <2>2, <3>1, FS_Subset, FS_CardinalityType
    <3>3. Owed \in {0, 1}
      BY DEF Owed
    <3> QED BY <1>1, <2>2, <2>3, <2>4, <3>2, <3>3 DEF LossPaid
  <2> QED BY <2>5, <2>6
<1> QED BY <1>2, <1>3, <1>4, <1>5

LEMMA ReporterStep == ReporterInv /\ [ReporterNext]_reporterVars => ReporterInv'
<1> SUFFICES ASSUME ReporterInv, [ReporterNext]_reporterVars
             PROVE  ReporterInv'
  OBVIOUS
<1>1. CASE UNCHANGED reporterVars
  BY <1>1 DEF reporterVars, ReporterInv, ReporterTypeOK, OneAdded, MergeKeeps, DiskIsMerge,
     LossPaid, Owed
<1> QED
  BY <1>1, ReporterStarts, ReporterAdds, ReporterBody, ReporterLastWrite, ReporterPlaces,
     ReporterFinalize, ReporterLine, ReporterKill, ReporterEol DEF ReporterNext

LEMMA KeepsEnough == ReporterInv => NothingLost
<1> SUFFICES ASSUME ReporterInv
             PROVE  NothingLost
  OBVIOUS
<1>1. BaselineAccumulates
  BY DEF ReporterInv, MergeKeeps, DiskIsMerge, OneEach, BaselineAccumulates, Merged
<1>2. CompleteIsWhole
  BY DEF ReporterInv, DiskIsMerge, CompleteIsWhole
<1>3. LedgerKeeps
  <2>1. Cardinality(hist.returned \ ledger.lines) \in Nat
    BY FS_Difference, FS_CardinalityType DEF ReporterInv, LossPaid
  <2> QED BY <2>1 DEF ReporterInv, ReporterTypeOK, LossPaid, Owed, LedgerKeeps
<1> QED BY <1>1, <1>2, <1>3 DEF NothingLost

(* What was recorded stays: in the baseline until a result of the same      *)
(* name replaces it, in the history but for one result a kill within a      *)
(* line; and a baseline that calls itself complete is the whole of its      *)
(* run (Reporter.add, finalize and write of common.py), for any runs,       *)
(* results and kills.                                                       *)
THEOREM NothingIsLost == ReporterSpec => [](ReporterTypeOK /\ NothingLost)
<1>1. ReporterInv => ReporterTypeOK /\ NothingLost
  BY KeepsEnough DEF ReporterInv
<1> QED BY <1>1, ReporterInvInit, ReporterStep, PTL DEF ReporterSpec

-----------------------------------------------------------------------------
(* THE POWER LADDER.  The capture (tp_power.py) reads the lines of a board  *)
(* that goes through the tiers on its own (test-power) and may restart.     *)
(* PowerInv ties what was read to where the board is, as long as there was  *)
(* one boot: that is what makes a tier's window its own.                    *)

(* The records that PowerTypeOK types field by field.                      *)
TierWindows == [Tiers -> [at : {"unseen", "marked", "open", "shut"}, by : SUBSET BOOLEAN]]

RunRecord ==
  [n : 0 .. MaxTpRuns, ap : {"esp", "linux"}, had : SUBSET TpResults, seed : SUBSET TpResults,
   results : SUBSET TpResults, began : BOOLEAN, owed : BOOLEAN, failed : SUBSET {"dut", "ap"},
   killed : BOOLEAN]
TierRecord ==
  [window : TierWindows, associated : {"unread", PASS, FAIL}, wnm : {"unread", PASS, FAIL},
   done : BOOLEAN]
DutRecord ==
  [app : {"other", "test-power", "idle"},
   at : Tiers \cup {"off", "boot", "hold", "joining", "waiting"},
   said : BOOLEAN, joined : BOOLEAN, dozes : BOOLEAN, boots : 0 .. MaxRestarts + 1]

PowerRecords ==
  /\ pwPc \in {"idle", "rail", "ap", "flash", "flashed", "capture", "judge", "teardown",
               "ap-down", "over"}
  /\ pwRun \in RunRecord /\ pwTier \in TierRecord /\ pwDut \in DutRecord
  /\ pwAp \in BOOLEAN /\ pwBase \subseteq TpResults

NothingRead ==
  /\ \A k \in Tiers : pwTier.window[k] = Unmarked
  /\ pwTier.associated = "unread" /\ pwTier.wnm = "unread"

(* Nothing is recorded before the try block is left, and nothing is read   *)
(* before the console is open; the board was flashed by then.              *)
BeforeVerdict ==
  /\ pwPc \in {"idle", "rail", "ap", "flash", "flashed", "capture", "judge"} => pwRun.results = {}
  /\ pwPc \in {"rail", "ap", "flash", "flashed"} => NothingRead
  /\ pwPc \in {"flashed", "capture", "judge"} => pwDut.boots >= 1

(* One boot of the board under an open console: the ladder is climbed      *)
(* once, in step with the lines that are read.                             *)
OneBoot == pwPc \in {"capture", "judge"} /\ pwDut.boots = 1
OneClimb == pwPc = "capture" /\ pwDut.boots = 1

Booting == {"boot", "hold", "joining"}

\* Before it joins nothing is measured, and what it says of the association holds from then on.
JoinedOnce ==
  OneBoot =>
    /\ pwDut.at \in Booting =>
         pwTier.associated = "unread" /\ \A k \in Tiers : pwTier.window[k] = Unmarked
    /\ pwTier.associated = PASS => pwDut.joined

\* A window that is to be sampled is the one of the tier the board is in.
WindowInTier ==
  OneClimb => \A k \in Tiers : pwTier.window[k].at \in {"marked", "open"} => pwDut.at = k

\* The word on the last tier is read in it, and is true of it when its window is sampled.
WordInTier ==
  OneClimb =>
    /\ pwTier.wnm # "unread" => pwDut.at = "wnm-powerdown" /\ pwDut.said
    /\ pwDut.said /\ pwTier.window["wnm-powerdown"].at \in {"marked", "open"} =>
         pwTier.wnm = IF pwDut.dozes THEN PASS ELSE FAIL

\* A sample that is not of its tier is of a board that never joined, or that said it is awake.
SamplesTold ==
  OneBoot =>
    \A k \in Tiers :
      FALSE \in pwTier.window[k].by => ~pwDut.joined \/ (k = "wnm-powerdown" /\ pwTier.wnm = FAIL)

\* Once the board is seen to, it is idle or known not to be.
DutSilenced == pwPc = "ap-down" /\ pwDut.app = "test-power" => "dut" \in pwRun.failed

PowerInv ==
  /\ PowerRecords /\ BeforeVerdict /\ JoinedOnce /\ WindowInTier /\ WordInTier /\ SamplesTold
  /\ DutSilenced /\ PowerPassEarned /\ PowerLeftQuiet

-----------------------------------------------------------------------------
LEMMA TypedByRecords == PowerRecords => PowerTypeOK
BY DEF PowerRecords, PowerTypeOK, RunRecord, TierRecord, DutRecord, TierWindows

LEMMA PowerInvInit == PowerInit => PowerInv
<1> SUFFICES ASSUME PowerInit
             PROVE  PowerInv
  OBVIOUS
<1>1. pwPc = "idle" /\ pwRun = NoRun /\ pwTier = NoCapture /\ pwBase = {} /\ pwAp \in BOOLEAN
      /\ pwDut \in [app : {"other", "test-power"}, at : {"off"}, said : {FALSE}, joined : {FALSE},
                    dozes : {FALSE}, boots : {0}]
  BY DEF PowerInit
<1>2. pwRun \in RunRecord
  BY <1>1, PowerBounds DEF RunRecord, NoRun
<1>3. pwTier \in TierRecord
  BY <1>1 DEF TierRecord, NoCapture, TierWindows, Unmarked
<1>4. pwDut \in DutRecord
  <2>1. 0 \in 0 .. MaxRestarts + 1
    BY PowerBounds
  <2> QED BY <1>1, <2>1 DEF DutRecord
<1>5. PowerRecords
  BY <1>1, <1>2, <1>3, <1>4 DEF PowerRecords
<1>6. BeforeVerdict /\ DutSilenced /\ PowerPassEarned /\ PowerLeftQuiet
  BY <1>1 DEF BeforeVerdict, DutSilenced, PowerPassEarned, PowerLeftQuiet, NoRun
<1>7. JoinedOnce /\ WindowInTier /\ WordInTier /\ SamplesTold
  BY <1>1 DEF JoinedOnce, WindowInTier, WordInTier, SamplesTold, OneBoot, OneClimb
<1> QED BY <1>5, <1>6, <1>7 DEF PowerInv

-----------------------------------------------------------------------------
(* The results.                                                            *)
LEMMA AddedResults ==
  ASSUME PowerRecords, NEW results \in SUBSET TpResults, Added(results)
  PROVE  /\ pwRun' \in RunRecord /\ pwBase' \subseteq TpResults
         /\ pwRun'.results = pwRun.results \cup results
<1>1. pwRun' = [pwRun EXCEPT !.results = pwRun.results \cup results,
                             !.seed = {s \in pwRun.seed : \A r \in results : r.name # s.name}]
      /\ pwBase' = pwRun.results \cup results \cup {s \in pwRun.seed : \A r \in results : r.name # s.name}
  BY DEF Added
<1> QED BY <1>1 DEF PowerRecords, RunRecord

LEMMA LadderResult ==
  ASSUME PowerRecords, NEW status \in Statuses
  PROVE  OfLadder(status) \in SUBSET TpResults
BY DEF OfLadder, TpResult, TpResults, PowerRecords, RunRecord

(* Out of the try block without a verdict on a tier.                       *)
LEMMA LeavesTry ==
  ASSUME PowerInv, pwRun.results = {}, pwAp' \in BOOLEAN, pwDut' \in DutRecord,
         Raises \/ \E status \in {SKIP, INCONCLUSIVE} : Leave(status)
  PROVE  PowerInv'
<1>1. CASE Raises
  <2>1. pwPc' = "teardown" /\ UNCHANGED <<pwRun, pwTier, pwBase>>
    BY <1>1 DEF Raises
  <2> QED BY <2>1 DEF PowerInv, PowerRecords, BeforeVerdict, JoinedOnce, WindowInTier, WordInTier,
             SamplesTold, OneBoot, OneClimb, DutSilenced, PowerPassEarned, PowerLeftQuiet
<1>2. ASSUME NEW status \in {SKIP, INCONCLUSIVE}, Leave(status)
      PROVE  PowerInv'
  <2>1. pwPc' = "teardown" /\ Added(OfLadder(status)) /\ UNCHANGED pwTier
    BY <1>2 DEF Leave
  <2>2. /\ pwRun' \in RunRecord /\ pwBase' \subseteq TpResults
        /\ pwRun'.results = pwRun.results \cup OfLadder(status)
    BY <2>1, AddedResults, LadderResult DEF PowerInv, Statuses
  <2>3. \A r \in pwRun'.results : r.status # PASS
    BY <2>2 DEF OfLadder, TpResult, PASS, SKIP, INCONCLUSIVE
  <2>4. PowerRecords'
    BY <2>1, <2>2 DEF PowerInv, PowerRecords
  <2>5. PowerPassEarned'
    BY <2>3 DEF PowerPassEarned
  <2> QED BY <2>1, <2>4, <2>5 DEF PowerInv, BeforeVerdict, JoinedOnce, WindowInTier, WordInTier,
             SamplesTold, OneBoot, OneClimb, DutSilenced, PowerLeftQuiet
<1> QED BY <1>1, <1>2

(* A step of run() before the capture that goes on.                        *)
LEMMA GoesOn ==
  ASSUME PowerInv, pwPc \in {"rail", "ap"}, pwPc' \in {"ap", "flash"}, pwRun' \in RunRecord,
         pwRun'.results = pwRun.results, pwAp' \in BOOLEAN, UNCHANGED <<pwTier, pwDut, pwBase>>
  PROVE  PowerInv'
<1>1. PowerRecords' /\ BeforeVerdict'
  BY DEF PowerInv, PowerRecords, BeforeVerdict, NothingRead
<1>2. JoinedOnce' /\ WindowInTier' /\ WordInTier' /\ SamplesTold' /\ DutSilenced'
  BY DEF JoinedOnce, WindowInTier, WordInTier, SamplesTold, OneBoot, OneClimb, DutSilenced
<1>3. PowerPassEarned' /\ PowerLeftQuiet'
  BY DEF PowerInv, BeforeVerdict, PowerPassEarned, PowerLeftQuiet
<1> QED BY <1>1, <1>2, <1>3 DEF PowerInv

LEMMA PowerStarts ==
  ASSUME PowerInv, NEW ap \in {"esp", "linux"}, NEW append \in BOOLEAN, NEW ppk2 \in BOOLEAN,
         PowerStart(ap, append, ppk2)
  PROVE  PowerInv'
<1> DEFINE seed == IF append THEN pwBase ELSE {}
           run == [NoRun EXCEPT !.n = pwRun.n + 1, !.ap = ap, !.had = seed]
           skip == [name |-> "ladder", status |-> SKIP, ap |-> ap]
           rest == {s \in seed : s.name # "ladder"}
<1>1. seed \subseteq TpResults /\ rest \subseteq TpResults /\ {skip} \subseteq TpResults
  BY DEF PowerInv, PowerRecords, TpResults, Statuses
<1>2. run \in [n : {pwRun.n + 1}, ap : {ap}, had : {seed}, seed : {{}}, results : {{}},
               began : {FALSE},
               owed : {FALSE}, failed : {{}}, killed : {FALSE}]
  BY DEF NoRun
<1>3. pwRun.n + 1 \in 0 .. MaxTpRuns
  BY PowerBounds DEF PowerInv, PowerRecords, RunRecord, PowerStart
<1>4. pwTier' = NoCapture /\ pwTier' \in TierRecord /\ UNCHANGED <<pwDut, pwAp>>
  BY DEF PowerStart, TierRecord, NoCapture, TierWindows, Unmarked
<1>5. CASE ppk2
  <2>1. pwPc' = "rail" /\ pwRun' = [run EXCEPT !.seed = seed, !.began = TRUE] /\ UNCHANGED pwBase
    BY <1>5 DEF PowerStart
  <2> HIDE DEF seed, run
  <2>2. pwRun' \in RunRecord /\ pwRun'.results = {}
    BY <1>1, <1>2, <1>3, <2>1 DEF RunRecord
  <2>3. PowerRecords' /\ BeforeVerdict'
    BY <1>4, <2>1, <2>2 DEF PowerInv, PowerRecords, BeforeVerdict, NothingRead, NoCapture
  <2> QED BY <2>1, <2>2, <2>3 DEF PowerInv, JoinedOnce, WindowInTier, WordInTier, SamplesTold,
             OneBoot, OneClimb, DutSilenced, PowerPassEarned, PowerLeftQuiet
<1>6. CASE ~ppk2
  <2>1. pwPc' = "over" /\ pwRun' = [run EXCEPT !.seed = rest, !.results = {skip}]
        /\ pwBase' = {skip} \cup rest
    BY <1>6 DEF PowerStart
  <2>2. skip.status # PASS
    BY DEF PASS, SKIP
  <2> HIDE DEF seed, run, skip, rest
  <2>3. pwRun' \in RunRecord /\ pwRun'.results = {skip} /\ pwRun'.began = FALSE
    BY <1>1, <1>2, <1>3, <2>1 DEF RunRecord
  <2>4. PowerRecords' /\ BeforeVerdict'
    BY <1>1, <1>4, <2>1, <2>3 DEF PowerInv, PowerRecords, BeforeVerdict
  <2> QED BY <2>1, <2>2, <2>3, <2>4 DEF PowerInv, JoinedOnce, WindowInTier, WordInTier,
       SamplesTold,
             OneBoot, OneClimb, DutSilenced, PowerPassEarned, PowerLeftQuiet
<1> QED BY <1>5, <1>6

LEMMA PowerBringsUp ==
  ASSUME PowerInv, OwnRail \/ EspAp \/ LinuxAp
  PROVE  PowerInv'
<1>1. pwPc \in {"rail", "ap"} /\ pwRun.results = {} /\ pwDut' = pwDut
      /\ pwDut \in DutRecord /\ pwAp \in BOOLEAN /\ pwRun \in RunRecord
  BY DEF OwnRail, EspAp, LinuxAp, PowerInv, BeforeVerdict, PowerRecords
<1>2. \/ Raises /\ pwAp' \in BOOLEAN
      \/ (\E status \in {SKIP, INCONCLUSIVE} : Leave(status)) /\ pwAp' \in BOOLEAN
      \/ pwPc' = "ap" /\ UNCHANGED <<pwRun, pwTier, pwBase, pwAp>>
      \/ /\ pwAp' = TRUE
         /\ pwRun' = [pwRun EXCEPT !.owed = TRUE]
         /\ pwPc' = "flash" /\ UNCHANGED <<pwTier, pwBase>>
  BY <1>1 DEF OwnRail, EspAp, LinuxAp
<1>3. CASE pwPc' = "ap" /\ UNCHANGED <<pwRun, pwTier, pwBase, pwAp>>
  BY <1>1, <1>3, GoesOn
<1>4. CASE /\ pwAp' = TRUE
           /\ pwRun' = [pwRun EXCEPT !.owed = TRUE]
           /\ pwPc' = "flash" /\ UNCHANGED <<pwTier, pwBase>>
  <2>1. pwRun' \in RunRecord /\ pwRun'.results = pwRun.results
    BY <1>1, <1>4 DEF RunRecord
  <2> QED BY <1>1, <1>4, <2>1, GoesOn
<1> QED BY <1>1, <1>2, <1>3, <1>4, LeavesTry

(* The flash begins the count of boots; the console opens on a ladder that *)
(* may be anywhere, with nothing read.                                     *)
LEMMA PowerFlashes ==
  ASSUME PowerInv, FlashDut \/ OpenConsole
  PROVE  PowerInv'
<1>1. pwPc \in {"flash", "flashed"} /\ pwRun.results = {} /\ NothingRead /\ pwAp' = pwAp
      /\ pwDut \in DutRecord /\ pwAp \in BOOLEAN
  BY DEF FlashDut, OpenConsole, PowerInv, BeforeVerdict, PowerRecords
<1>2. CASE FlashDut
  <2>1. CASE /\ pwDut' \in {pwDut, [pwDut EXCEPT !.app = "test-power"]}
             /\ Leave(INCONCLUSIVE) \/ Raises
    <3>1. pwDut' \in DutRecord
      BY <1>1, <2>1 DEF DutRecord
    <3> QED BY <1>1, <2>1, <3>1, LeavesTry
  <2>2. CASE /\ pwDut' = [pwDut EXCEPT !.app = "test-power", !.at = "boot", !.boots = 1]
             /\ pwPc' = "flashed" /\ UNCHANGED <<pwRun, pwTier, pwBase>>
    <3>1. pwDut' \in DutRecord
      <4>1. 1 \in 0 .. MaxRestarts + 1
        BY PowerBounds
      <4> QED BY <1>1, <2>2, <4>1 DEF DutRecord
    <3>2. PowerRecords' /\ BeforeVerdict'
      BY <1>1, <2>2, <3>1 DEF PowerInv, PowerRecords, BeforeVerdict, NothingRead, DutRecord
    <3> QED BY <1>1, <2>2, <3>2 DEF PowerInv, JoinedOnce, WindowInTier, WordInTier, SamplesTold,
               OneBoot, OneClimb, DutSilenced, PowerPassEarned, PowerLeftQuiet
  <2> QED BY <1>2, <2>1, <2>2 DEF FlashDut
<1>3. CASE OpenConsole
  <2>1. CASE Raises
    BY <1>1, <1>3, <2>1, LeavesTry DEF OpenConsole
  <2>2. CASE pwPc' = "capture" /\ UNCHANGED <<pwRun, pwTier, pwBase>>
    <3>1. UNCHANGED <<pwDut, pwAp>>
      BY <1>3 DEF OpenConsole
    <3>2. \A k \in Tiers : pwTier.window[k] = Unmarked
      BY <1>1 DEF NothingRead
    <3>3. pwTier.associated = "unread" /\ pwTier.wnm = "unread" /\ "unread" # PASS
      BY <1>1 DEF NothingRead, PASS
    <3>4. PowerRecords' /\ BeforeVerdict'
      BY <1>1, <1>3, <2>2, <3>1 DEF PowerInv, PowerRecords, BeforeVerdict, OpenConsole
    <3>5. JoinedOnce' /\ WindowInTier' /\ WordInTier' /\ SamplesTold'
      <4>1. JoinedOnce'
        BY <2>2, <3>1, <3>2, <3>3 DEF JoinedOnce
      <4>2. \A k \in Tiers : pwTier.window[k].at = "unseen" /\ pwTier.window[k].by = {}
        BY <3>2 DEF Unmarked
      <4>3. WindowInTier' /\ SamplesTold'
        BY <2>2, <4>2 DEF WindowInTier, SamplesTold
      <4>4. WordInTier'
        BY <2>2, <3>3, <4>2 DEF WordInTier, Tiers
      <4> QED BY <4>1, <4>3, <4>4
    <3> QED BY <1>1, <2>2, <3>4, <3>5 DEF PowerInv, DutSilenced, PowerPassEarned, PowerLeftQuiet
  <2> QED BY <1>3, <2>1, <2>2 DEF OpenConsole
<1> QED BY <1>2, <1>3

-----------------------------------------------------------------------------
(* Sampling touches open windows only.                                     *)
LEMMA WindowsKeep ==
  ASSUME pwTier \in TierRecord, NEW d \in DutRecord
  PROVE  /\ Sampled(pwTier.window, d) \in TierWindows
         /\ \A k \in Tiers :
              /\ Sampled(pwTier.window, d)[k].at = pwTier.window[k].at
              /\ pwTier.window[k].at # "open" =>
                   Sampled(pwTier.window, d)[k] = pwTier.window[k]
<1>1. \A k \in Tiers : OfTier(k, d) \in BOOLEAN
  BY DEF OfTier, DutRecord
<1>2. \A k \in Tiers : pwTier.window[k] \in [at : {"unseen", "marked", "open", "shut"},
                                             by : SUBSET BOOLEAN]
  BY DEF TierRecord, TierWindows
<1>3. ASSUME NEW k \in Tiers
      PROVE  /\ Sampled(pwTier.window, d)[k] \in [at : {"unseen", "marked", "open", "shut"},
                                                  by : SUBSET BOOLEAN]
             /\ Sampled(pwTier.window, d)[k].at = pwTier.window[k].at
             /\ pwTier.window[k].at # "open" => Sampled(pwTier.window, d)[k] = pwTier.window[k]
  BY <1>1, <1>2 DEF Sampled
<1>4. Sampled(pwTier.window, d) \in TierWindows
  BY <1>3 DEF Sampled, TierWindows
<1> QED BY <1>3, <1>4

LadderTold == JoinedOnce /\ WindowInTier /\ WordInTier /\ SamplesTold

(* A step of the ladder or of its console leaves the run as it is.         *)
LEMMA LadderKeeps ==
  ASSUME PowerInv, pwPc \in {"flashed", "capture"}, pwPc' \in {"flashed", "capture", "judge"},
         UNCHANGED <<pwRun, pwAp, pwBase>>, pwDut' \in DutRecord, pwTier' \in TierRecord,
         pwPc' = "flashed" => NothingRead', pwDut'.boots >= 1, LadderTold'
  PROVE  PowerInv'
<1>1. PowerRecords' /\ BeforeVerdict'
  BY DEF PowerInv, PowerRecords, BeforeVerdict
<1>2. DutSilenced' /\ PowerPassEarned' /\ PowerLeftQuiet'
  BY DEF PowerInv, BeforeVerdict, DutSilenced, PowerPassEarned, PowerLeftQuiet
<1> QED BY <1>1, <1>2 DEF PowerInv, LadderTold

(* What LadderTold asks is asked of one boot under an open console.              *)
LEMMA Unasked ==
  ASSUME pwPc' = "flashed" \/ pwDut'.boots # 1
  PROVE  LadderTold'
BY DEF LadderTold, JoinedOnce, WindowInTier, WordInTier, SamplesTold, OneBoot, OneClimb

LEMMA PowerBoots ==
  ASSUME PowerInv, NEW high \in BOOLEAN, PowerBoot(high)
  PROVE  PowerInv'
<1> DEFINE d == [pwDut EXCEPT !.at = IF high THEN "hold" ELSE "joining"]
<1>1. /\ pwPc \in {"flashed", "capture"} /\ pwDut.at = "boot" /\ pwDut' = d
      /\ pwTier' = [pwTier EXCEPT !.window = Sampled(pwTier.window, d)]
      /\ UNCHANGED <<pwPc, pwRun, pwAp, pwBase>>
  BY DEF PowerBoot, Runs, Becomes
<1>2. d \in DutRecord /\ d.at \in {"hold", "joining"} /\ d.boots = pwDut.boots
  BY DEF PowerInv, PowerRecords, DutRecord
<1> HIDE DEF d
<1>3. /\ pwTier' \in TierRecord /\ pwTier'.associated = pwTier.associated
         /\ pwTier'.wnm = pwTier.wnm
      /\ \A k \in Tiers : pwTier.window[k] = Unmarked => pwTier'.window[k] = Unmarked
  <2>1. pwTier'.window = Sampled(pwTier.window, d) /\ pwTier \in TierRecord
    BY <1>1 DEF PowerInv, PowerRecords, TierRecord
  <2>2. pwTier' \in TierRecord
    BY <1>1, <1>2, <2>1, WindowsKeep DEF TierRecord
  <2>3. pwTier'.associated = pwTier.associated /\ pwTier'.wnm = pwTier.wnm
    BY <1>1, <2>1 DEF TierRecord
  <2> QED BY <1>2, <2>1, <2>2, <2>3, WindowsKeep DEF Unmarked
<1>4. pwPc' = "flashed" => NothingRead'
  BY <1>1, <1>3 DEF PowerInv, BeforeVerdict, NothingRead
<1>5. LadderTold'
  <2>1. CASE pwPc' = "flashed" \/ pwDut'.boots # 1
    BY <2>1, Unasked
  <2>2. CASE pwPc' = "capture" /\ pwDut'.boots = 1
    <3>1. /\ \A k \in Tiers : pwTier'.window[k].at = "unseen" /\ pwTier'.window[k].by = {}
          /\ \A k \in Tiers : pwTier'.window[k] = Unmarked
          /\ pwTier.associated = "unread" /\ pwTier.wnm = "unread"
      BY <1>1, <1>2, <1>3, <2>2 DEF PowerInv, JoinedOnce, WordInTier, OneBoot, OneClimb, Booting,
        Unmarked
    <3>2. JoinedOnce'
      BY <1>3, <3>1 DEF JoinedOnce, PASS
    <3>3. WindowInTier' /\ SamplesTold'
      BY <3>1 DEF WindowInTier, SamplesTold
    <3>4. WordInTier'
      BY <1>3, <3>1 DEF WordInTier, Tiers
    <3> QED BY <3>2, <3>3, <3>4 DEF LadderTold
  <2> QED BY <1>1, <2>1, <2>2
<1> QED BY <1>1, <1>2, <1>3, <1>4, <1>5, LadderKeeps DEF PowerInv, BeforeVerdict

LEMMA PowerRestarts ==
  ASSUME PowerInv, DutRestarts
  PROVE  PowerInv'
<1> DEFINE d == [pwDut EXCEPT !.at = "boot", !.joined = FALSE, !.dozes = FALSE, !.boots = @ + 1]
<1>1. /\ pwPc \in {"flashed", "capture"} /\ pwDut.boots <= MaxRestarts /\ pwDut' = d
      /\ pwTier' = [pwTier EXCEPT !.window = Sampled(pwTier.window, d)]
      /\ UNCHANGED <<pwPc, pwRun, pwAp, pwBase>>
  BY DEF DutRestarts, Runs, Becomes
<1>2. d \in DutRecord /\ d.boots = pwDut.boots + 1 /\ pwDut.boots \in Nat
  <2>1. pwDut.boots + 1 \in 0 .. MaxRestarts + 1 /\ pwDut.boots \in Nat
    BY <1>1, PowerBounds DEF PowerInv, PowerRecords, DutRecord
  <2> QED BY <2>1 DEF PowerInv, PowerRecords, DutRecord
<1> HIDE DEF d
<1>3. /\ pwTier' \in TierRecord /\ pwTier'.associated = pwTier.associated
         /\ pwTier'.wnm = pwTier.wnm
      /\ \A k \in Tiers : pwTier.window[k] = Unmarked => pwTier'.window[k] = Unmarked
  <2>1. pwTier'.window = Sampled(pwTier.window, d) /\ pwTier \in TierRecord
    BY <1>1 DEF PowerInv, PowerRecords, TierRecord
  <2>2. pwTier' \in TierRecord
    BY <1>1, <1>2, <2>1, WindowsKeep DEF TierRecord
  <2>3. pwTier'.associated = pwTier.associated /\ pwTier'.wnm = pwTier.wnm
    BY <1>1, <2>1 DEF TierRecord
  <2> QED BY <1>2, <2>1, <2>2, <2>3, WindowsKeep DEF Unmarked
<1>4. pwPc' = "flashed" => NothingRead'
  BY <1>1, <1>3 DEF PowerInv, BeforeVerdict, NothingRead
<1>5. pwDut'.boots >= 1 /\ pwDut'.boots # 1
  BY <1>1, <1>2 DEF PowerInv, BeforeVerdict
<1> QED BY <1>1, <1>2, <1>3, <1>4, <1>5, Unasked, LadderKeeps

LEMMA PowerJoins ==
  ASSUME PowerInv, NEW joins \in BOOLEAN, Joined(joins)
  PROVE  PowerInv'
<1> DEFINE d == [pwDut EXCEPT !.at = "waiting", !.joined = joins]
<1>1. /\ pwPc \in {"flashed", "capture"} /\ pwDut.at = "joining" /\ pwDut' = d
      /\ pwTier' = [pwTier EXCEPT !.window = Sampled(pwTier.window, d),
                        !.associated = IF Reads /\ pwTier.associated = "unread"
                                       THEN IF joins THEN PASS ELSE FAIL ELSE pwTier.associated]
      /\ UNCHANGED <<pwPc, pwRun, pwAp, pwBase>>
  BY DEF Joined, Runs
<1>2. d \in DutRecord /\ d.at = "waiting" /\ d.boots = pwDut.boots /\ d.joined = joins
  BY DEF PowerInv, PowerRecords, DutRecord
<1> HIDE DEF d
<1>3. /\ pwTier' \in TierRecord /\ pwTier'.wnm = pwTier.wnm
      /\ pwTier'.associated = IF Reads /\ pwTier.associated = "unread"
                              THEN IF joins THEN PASS ELSE FAIL ELSE pwTier.associated
      /\ \A k \in Tiers : pwTier.window[k] = Unmarked => pwTier'.window[k] = Unmarked
  <2>1. pwTier'.window = Sampled(pwTier.window, d) /\ pwTier \in TierRecord
    BY <1>1 DEF PowerInv, PowerRecords, TierRecord
  <2>2. pwTier' \in TierRecord
    BY <1>1, <1>2, <2>1, WindowsKeep DEF TierRecord
  <2>3. pwTier'.wnm = pwTier.wnm /\
        pwTier'.associated = IF Reads /\ pwTier.associated = "unread"
                              THEN IF joins THEN PASS ELSE FAIL ELSE pwTier.associated
    BY <1>1, <2>1 DEF TierRecord
  <2> QED BY <1>2, <2>1, <2>2, <2>3, WindowsKeep DEF Unmarked
<1>4. pwPc' = "flashed" => NothingRead'
  BY <1>1, <1>3 DEF PowerInv, BeforeVerdict, NothingRead, Reads
<1>5. LadderTold'
  <2>1. CASE pwPc' = "flashed" \/ pwDut'.boots # 1
    BY <2>1, Unasked
  <2>2. CASE pwPc' = "capture" /\ pwDut'.boots = 1
    <3>1. /\ \A k \in Tiers : pwTier'.window[k].at = "unseen" /\ pwTier'.window[k].by = {}
          /\ pwTier.associated = "unread" /\ pwTier.wnm = "unread"
      BY <1>1, <1>2, <1>3, <2>2 DEF PowerInv, JoinedOnce, WordInTier, OneBoot, OneClimb, Booting,
        Unmarked
    <3>2. JoinedOnce'
      BY <1>1, <1>2, <1>3, <3>1 DEF JoinedOnce, Booting, PASS, FAIL
    <3>3. WindowInTier' /\ SamplesTold'
      BY <3>1 DEF WindowInTier, SamplesTold
    <3>4. WordInTier'
      BY <1>3, <3>1 DEF WordInTier, Tiers
    <3> QED BY <3>2, <3>3, <3>4 DEF LadderTold
  <2> QED BY <1>1, <2>1, <2>2
<1> QED BY <1>1, <1>2, <1>3, <1>4, <1>5, LadderKeeps DEF PowerInv, BeforeVerdict

(* The next tier is entered when no window is to be sampled.               *)
LEMMA TierEntered ==
  ASSUME PowerInv, NEW tier \in Tiers, NEW accepted \in BOOLEAN, Enters(tier, accepted), Runs,
         OneClimb => /\ \A k \in Tiers : pwTier.window[k].at \notin {"marked", "open"}
                     /\ pwTier.wnm = "unread"
  PROVE  PowerInv'
<1> DEFINE sampled == Sampled(pwTier.window, pwDut')
<1>1. /\ pwPc \in {"flashed", "capture"}
      /\ pwDut' = [pwDut EXCEPT !.at = tier, !.said = FALSE, !.dozes = accepted]
      /\ UNCHANGED <<pwPc, pwRun, pwAp, pwBase>>
  BY DEF Enters, Runs
<1>2. /\ pwDut' \in DutRecord /\ pwDut'.at = tier /\ pwDut'.boots = pwDut.boots
      /\ pwDut'.joined = pwDut.joined /\ ~pwDut'.said
  BY <1>1 DEF PowerInv, PowerRecords, DutRecord
<1>3. pwTier' = [pwTier EXCEPT !.window = Marked(sampled, tier)]
  BY DEF Enters
<1>4. /\ sampled \in TierWindows
      /\ \A k \in Tiers :
           /\ sampled[k].at = pwTier.window[k].at
           /\ pwTier.window[k].at # "open" => sampled[k] = pwTier.window[k]
  BY <1>2, WindowsKeep DEF PowerInv, PowerRecords
<1> HIDE DEF sampled
<1>4a. /\ Marked(sampled, tier) \in TierWindows
      /\ \A k \in Tiers :
           /\ Marked(sampled, tier)[k].by = sampled[k].by
           /\ k # tier \/ ~Reads => Marked(sampled, tier)[k] = sampled[k]
  BY <1>4 DEF Marked, TierWindows
<1>5. /\ pwTier' \in TierRecord /\ pwTier'.associated = pwTier.associated
         /\ pwTier'.wnm = pwTier.wnm
      /\ \A k \in Tiers : pwTier.window[k].at # "open"
         => pwTier'.window[k].by = pwTier.window[k].by
      /\ \A k \in Tiers \ {tier} : pwTier'.window[k].at = pwTier.window[k].at
      /\ ~Reads => \A k \in Tiers : pwTier.window[k].at # "open"
         => pwTier'.window[k] = pwTier.window[k]
  <2>1. pwTier' \in TierRecord /\ pwTier'.window = Marked(sampled, tier)
    BY <1>3, <1>4a DEF PowerInv, PowerRecords, TierRecord
  <2>2. pwTier'.associated = pwTier.associated /\ pwTier'.wnm = pwTier.wnm
    BY <1>3 DEF PowerInv, PowerRecords, TierRecord
  <2> QED BY <1>4, <1>4a, <2>1, <2>2
<1>6. pwPc' = "flashed" => NothingRead'
  BY <1>1, <1>5 DEF PowerInv, BeforeVerdict, NothingRead, Reads, Unmarked
<1>7. LadderTold'
  <2>1. CASE pwPc' = "flashed" \/ pwDut'.boots # 1
    BY <2>1, Unasked
  <2>2. CASE pwPc' = "capture" /\ pwDut'.boots = 1
    <3>1. /\ \A k \in Tiers : pwTier.window[k].at \notin {"marked", "open"}
          /\ pwTier.wnm = "unread" /\ OneClimb /\ OneBoot
      BY <1>1, <1>2, <2>2 DEF OneClimb, OneBoot
    <3>2. JoinedOnce'
      BY <1>1, <1>2, <1>5, <3>1 DEF PowerInv, JoinedOnce, Booting, Tiers
    <3>3. WindowInTier'
      BY <1>1, <1>2, <1>5, <3>1 DEF WindowInTier
    <3>4. WordInTier'
      BY <1>1, <1>2, <1>5, <3>1 DEF WordInTier
    <3>5. SamplesTold'
      BY <1>1, <1>2, <1>5, <3>1 DEF PowerInv, SamplesTold
    <3> QED BY <3>2, <3>3, <3>4, <3>5 DEF LadderTold
  <2> QED BY <1>1, <2>1, <2>2
<1> QED BY <1>1, <1>2, <1>5, <1>6, <1>7, LadderKeeps DEF PowerInv, BeforeVerdict

LEMMA PowerEnters ==
  ASSUME PowerInv, NEW accepted \in BOOLEAN, Triggered \/ NextTier(accepted)
  PROVE  PowerInv'
<1>1. CASE Triggered
  <2>1. /\ Runs /\ pwDut.at = "waiting" /\ Enters("no-ps", FALSE)
    BY <1>1 DEF Triggered
  <2>2. OneClimb => /\ \A k \in Tiers : pwTier.window[k].at \notin {"marked", "open"}
                    /\ pwTier.wnm = "unread"
    BY <2>1 DEF PowerInv, WindowInTier, WordInTier, Tiers
  <2> QED BY <2>1, <2>2, TierEntered DEF Tiers
<1>2. CASE NextTier(accepted)
  <2>1. PICK tier \in Tiers \ {"wnm-powerdown"} : TierOver(tier) /\ Enters(After(tier), accepted)
    BY <1>2 DEF NextTier
  <2>2. /\ Runs /\ pwDut.at = tier
        /\ pwPc = "capture" => pwTier.window[tier].at \notin {"marked", "open"}
    BY <2>1 DEF TierOver, Reads
  <2>3. OneClimb => /\ \A k \in Tiers : pwTier.window[k].at \notin {"marked", "open"}
                    /\ pwTier.wnm = "unread"
    BY <2>1, <2>2 DEF PowerInv, WindowInTier, WordInTier, OneClimb
  <2>4. After(tier) \in Tiers
    BY <2>1 DEF After, Tiers
  <2> QED BY <2>1, <2>2, <2>3, <2>4, TierEntered
<1> QED BY <1>1, <1>2

LEMMA PowerSays ==
  ASSUME PowerInv, SayWnm
  PROVE  PowerInv'
<1>1. /\ pwPc \in {"flashed", "capture"} /\ pwDut.at = "wnm-powerdown" /\ ~pwDut.said
      /\ pwDut' = [pwDut EXCEPT !.said = TRUE]
      /\ UNCHANGED <<pwPc, pwRun, pwAp, pwBase>>
  BY DEF SayWnm, Runs
<1>2. /\ pwDut' \in DutRecord /\ pwDut'.at = "wnm-powerdown" /\ pwDut'.boots = pwDut.boots
      /\ pwDut'.joined = pwDut.joined /\ pwDut'.said /\ pwDut'.dozes = pwDut.dozes
  BY <1>1 DEF PowerInv, PowerRecords, DutRecord
<1>3. /\ pwTier' \in TierRecord /\ pwTier'.associated = pwTier.associated
      /\ pwTier'.window = pwTier.window
      /\ pwTier'.wnm = IF pwPc = "capture" /\ pwTier.wnm = "unread"
                       THEN IF pwDut.dozes THEN PASS ELSE FAIL ELSE pwTier.wnm
  BY DEF SayWnm, Reads, PowerInv, PowerRecords, TierRecord
<1>4. pwPc' = "flashed" => NothingRead'
  BY <1>1, <1>3 DEF PowerInv, BeforeVerdict, NothingRead
<1>5. LadderTold'
  <2>1. CASE pwPc' = "flashed" \/ pwDut'.boots # 1
    BY <2>1, Unasked
  <2>2. CASE pwPc' = "capture" /\ pwDut'.boots = 1
    <3>1. OneClimb /\ OneBoot /\ pwTier.wnm = "unread"
      BY <1>1, <1>2, <2>2 DEF OneClimb, OneBoot, PowerInv, WordInTier
    <3>2. JoinedOnce'
      BY <1>1, <1>2, <1>3, <3>1 DEF PowerInv, JoinedOnce, Booting
    <3>3. WindowInTier'
      BY <1>1, <1>2, <1>3, <3>1 DEF PowerInv, WindowInTier
    <3>4. WordInTier'
      BY <1>1, <1>2, <1>3, <2>2, <3>1 DEF WordInTier
    <3>5. SamplesTold'
      BY <1>2, <1>3, <3>1, "unread" # FAIL DEF PowerInv, SamplesTold, FAIL
    <3> QED BY <3>2, <3>3, <3>4, <3>5 DEF LadderTold
  <2> QED BY <1>1, <2>1, <2>2
<1> QED BY <1>1, <1>2, <1>3, <1>4, <1>5, LadderKeeps DEF PowerInv, BeforeVerdict

LEMMA PowerLadderDone ==
  ASSUME PowerInv, LadderDone
  PROVE  PowerInv'
<1>1. /\ pwPc \in {"flashed", "capture"} /\ pwDut.at = "wnm-powerdown"
      /\ pwDut' = [pwDut EXCEPT !.at = "waiting", !.dozes = FALSE]
      /\ pwTier' = [pwTier EXCEPT !.done = Reads]
      /\ pwPc' = IF pwPc = "capture" THEN "judge" ELSE pwPc
      /\ UNCHANGED <<pwRun, pwAp, pwBase>>
  BY DEF LadderDone, TierOver, Runs, Reads
<1>2. /\ pwDut' \in DutRecord /\ pwDut'.at = "waiting" /\ pwDut'.boots = pwDut.boots
      /\ pwDut'.joined = pwDut.joined
  BY <1>1 DEF PowerInv, PowerRecords, DutRecord
<1>3. /\ pwTier' \in TierRecord /\ pwTier'.associated = pwTier.associated
      /\ pwTier'.window = pwTier.window /\ pwTier'.wnm = pwTier.wnm
  BY <1>1 DEF Reads, PowerInv, PowerRecords, TierRecord
<1>4. pwPc' = "flashed" => NothingRead'
  BY <1>1, <1>3 DEF PowerInv, BeforeVerdict, NothingRead
<1>5. LadderTold'
  <2>1. CASE pwPc' = "flashed" \/ pwDut'.boots # 1
    BY <2>1, Unasked
  <2>2. CASE pwPc' = "judge" /\ pwDut'.boots = 1
    <3>1. OneBoot
      BY <1>1, <1>2, <2>2 DEF OneBoot
    <3>2. JoinedOnce'
      BY <1>2, <1>3, <3>1 DEF PowerInv, JoinedOnce, Booting
    <3>3. WindowInTier' /\ WordInTier'
      BY <2>2 DEF WindowInTier, WordInTier, OneClimb
    <3>4. SamplesTold'
      BY <1>2, <1>3, <3>1 DEF PowerInv, SamplesTold
    <3> QED BY <3>2, <3>3, <3>4 DEF LadderTold
  <2> QED BY <1>1, <2>1, <2>2
<1> QED BY <1>1, <1>2, <1>3, <1>4, <1>5, LadderKeeps DEF PowerInv, BeforeVerdict

-----------------------------------------------------------------------------
(* The samples, and the verdict.                                           *)
LEMMA PowerSamples ==
  ASSUME PowerInv, NEW tier \in Tiers, WindowOpens(tier) \/ WindowShuts(tier)
  PROVE  PowerInv'
<1>1. /\ pwPc = "capture" /\ pwTier.window[tier].at \in {"marked", "open"}
      /\ UNCHANGED <<pwPc, pwRun, pwDut, pwAp, pwBase>>
  BY DEF WindowOpens, WindowShuts, Reads
<1>2. /\ pwTier \in TierRecord /\ pwDut \in DutRecord /\ OfTier(tier, pwDut) \in BOOLEAN
      /\ pwTier.window[tier] \in [at : {"unseen", "marked", "open", "shut"}, by : SUBSET BOOLEAN]
  BY DEF PowerInv, PowerRecords, TierRecord, DutRecord, TierWindows, OfTier
<1>3. /\ pwTier' \in TierRecord /\ pwTier'.associated = pwTier.associated
      /\ pwTier'.wnm = pwTier.wnm
      /\ \A k \in Tiers \ {tier} : pwTier'.window[k] = pwTier.window[k]
      /\ \/ /\ pwTier'.window[tier].at = "shut"
            /\ pwTier'.window[tier].by = pwTier.window[tier].by
         \/ /\ pwTier'.window[tier].at = "open"
            /\ pwTier'.window[tier].by = {OfTier(tier, pwDut)}
            /\ pwTier.window[tier].at = "marked"
            /\ pwDut.at = "wnm-powerdown" => pwDut.said
  <2>1. CASE WindowOpens(tier)
    <3> DEFINE w == [at |-> "open", by |-> {OfTier(tier, pwDut)}]
    <3>1. w \in [at : {"unseen", "marked", "open", "shut"}, by : SUBSET BOOLEAN]
          /\ w.at = "open" /\ w.by = {OfTier(tier, pwDut)}
      BY <1>2
    <3>2. pwTier' = [pwTier EXCEPT !.window[tier] = w] /\ pwTier.window[tier].at = "marked"
          /\ (pwDut.at = "wnm-powerdown" => pwDut.said)
      BY <2>1 DEF WindowOpens
    <3> HIDE DEF w
    <3>3. pwTier'.window = [pwTier.window EXCEPT ![tier] = w] /\ pwTier.window \in TierWindows
      BY <1>2, <3>2 DEF TierRecord
    <3>4. pwTier'.window \in TierWindows
      BY <3>1, <3>3 DEF TierWindows
    <3>5. pwTier' \in TierRecord /\ pwTier'.associated = pwTier.associated
          /\ pwTier'.wnm = pwTier.wnm
      BY <1>2, <3>2, <3>3, <3>4 DEF TierRecord
    <3>6. pwTier'.window[tier] = w
          /\ \A k \in Tiers \ {tier} : pwTier'.window[k] = pwTier.window[k]
      BY <3>3 DEF TierWindows
    <3> QED BY <3>1, <3>2, <3>5, <3>6
  <2>2. CASE WindowShuts(tier)
    <3>1. pwTier' = [pwTier EXCEPT !.window[tier].at = "shut"]
      BY <2>2 DEF WindowShuts
    <3>2. pwTier' = [pwTier EXCEPT !.window = [pwTier.window EXCEPT ![tier] =
                                                 [pwTier.window[tier] EXCEPT !.at = "shut"]]]
      BY <3>1
    <3> DEFINE w == [pwTier.window[tier] EXCEPT !.at = "shut"]
    <3>3. w \in [at : {"unseen", "marked", "open", "shut"}, by : SUBSET BOOLEAN]
          /\ w.at = "shut" /\ w.by = pwTier.window[tier].by
      BY <1>2
    <3>4. pwTier' = [pwTier EXCEPT !.window = [pwTier.window EXCEPT ![tier] = w]]
      BY <3>2
    <3> HIDE DEF w
    <3>5. pwTier'.window = [pwTier.window EXCEPT ![tier] = w] /\ pwTier.window \in TierWindows
      BY <1>2, <3>4 DEF TierRecord
    <3>6. pwTier'.window \in TierWindows
      BY <3>3, <3>5 DEF TierWindows
    <3>7. pwTier' \in TierRecord /\ pwTier'.associated = pwTier.associated
          /\ pwTier'.wnm = pwTier.wnm
      BY <1>2, <3>4, <3>5, <3>6 DEF TierRecord
    <3>8. pwTier'.window[tier] = w
          /\ \A k \in Tiers \ {tier} : pwTier'.window[k] = pwTier.window[k]
      BY <3>5 DEF TierWindows
    <3> QED BY <3>3, <3>7, <3>8
  <2> QED BY <2>1, <2>2
<1>4. LadderTold'
  <2>1. CASE pwDut'.boots # 1
    BY <2>1, Unasked
  <2>2. CASE pwDut'.boots = 1
    <3>1. OneClimb /\ OneBoot /\ pwDut.at = tier
      BY <1>1, <2>2 DEF OneClimb, OneBoot, PowerInv, WindowInTier
    <3>3. JoinedOnce'
      BY <1>1, <1>3, <3>1 DEF PowerInv, JoinedOnce, Booting, Tiers
    <3>4. WindowInTier'
      BY <1>1, <1>3, <3>1 DEF PowerInv, WindowInTier
    <3>5. WordInTier'
      <4>1. pwTier'.window["wnm-powerdown"].at \in {"marked", "open"} =>
              pwTier.window["wnm-powerdown"].at \in {"marked", "open"}
        BY <1>1, <1>3 DEF Tiers
      <4> QED BY <1>1, <1>3, <3>1, <4>1 DEF PowerInv, WordInTier
    <3>6. SamplesTold'
      <4>1. ASSUME FALSE \in pwTier'.window[tier].by
            PROVE  ~pwDut.joined \/ (tier = "wnm-powerdown" /\ pwTier.wnm = FAIL)
        BY <1>1, <1>3, <3>1, <4>1 DEF PowerInv, SamplesTold, WordInTier, OfTier, Tiers
      <4> QED BY <1>1, <1>3, <3>1, <4>1 DEF PowerInv, SamplesTold
    <3> QED BY <3>3, <3>4, <3>5, <3>6 DEF LadderTold
  <2> QED BY <2>1, <2>2
<1> QED BY <1>1, <1>3, <1>4, LadderKeeps DEF PowerInv, BeforeVerdict, PowerRecords

LEMMA PowerCaptureEnds ==
  ASSUME PowerInv, CaptureEnds
  PROVE  PowerInv'
<1>1. /\ pwPc = "capture" /\ UNCHANGED <<pwDut, pwAp>> /\ pwRun.results = {}
      /\ pwDut \in DutRecord /\ pwAp \in BOOLEAN /\ pwTier \in TierRecord /\ pwDut.boots >= 1
  BY DEF CaptureEnds, Reads, PowerInv, BeforeVerdict, PowerRecords
<1>2. CASE pwPc' = "judge" /\ UNCHANGED <<pwRun, pwTier, pwBase>>
  <2>1. LadderTold'
    BY <1>1, <1>2 DEF PowerInv, LadderTold, JoinedOnce, WindowInTier, WordInTier, SamplesTold,
      OneBoot,
       OneClimb
  <2> QED BY <1>1, <1>2, <2>1, LadderKeeps
<1> QED BY <1>1, <1>2, LeavesTry DEF CaptureEnds

(* A tier that passes has an anchor, and no sample that is not of it.      *)
LEMMA TierEarned ==
  ASSUME PowerInv, pwPc = "judge", NEW tier \in Tiers \ {"twt"}, NEW anchor \in BOOLEAN,
         NEW level \in {"low", "grey", "high"}, TierStatus(tier, anchor, level) = PASS
  PROVE  /\ pwTier.associated = PASS
         /\ pwDut.boots = 1 => pwTier.window[tier].by = {TRUE}
<1>1. pwTier.window[tier].by # {} /\ Valid(anchor) /\ StepOk(tier)
  <2>1. pwTier.window[tier].by # {}
    BY DEF TierStatus, PASS, INCONCLUSIVE
  <2>2. Valid(anchor)
    BY <2>1 DEF TierStatus, PASS, INCONCLUSIVE
  <2>3. tier = "no-ps" \/ StepOk(tier)
    BY <2>1, <2>2 DEF TierStatus, PASS, FAIL, INCONCLUSIVE
  <2> QED BY <2>1, <2>2, <2>3 DEF StepOk
<1>2. pwTier.window[tier].by \subseteq BOOLEAN
  BY DEF PowerInv, PowerRecords, TierRecord, TierWindows
<1>3. ASSUME pwDut.boots = 1
      PROVE  FALSE \notin pwTier.window[tier].by
  BY <1>1, <1>3 DEF PowerInv, JoinedOnce, SamplesTold, OneBoot, Valid, StepOk
<1> QED BY <1>1, <1>2, <1>3 DEF Valid

LEMMA PowerScores ==
  ASSUME PowerInv, NEW anchor \in BOOLEAN, NEW level \in [Tiers -> {"low", "grey", "high"}],
         Score(anchor, level)
  PROVE  PowerInv'
<1> DEFINE scored == {TpResult(k, TierStatus(k, anchor, level[k])) : k \in Tiers}
           short == IF pwTier.done THEN {} ELSE {TpResult("ladder-complete", INCONCLUSIVE)}
<1>1. /\ pwPc = "judge" /\ pwPc' = "teardown" /\ UNCHANGED <<pwTier, pwDut, pwAp>>
      /\ pwRun.results = {}
  BY DEF Score, PowerInv, BeforeVerdict
<1>2. PICK results : Added(results)
           /\ (results = OfLadder(INCONCLUSIVE) \/ results = scored \cup short)
  BY DEF Score
<1>3. \A k \in Tiers : TierStatus(k, anchor, level[k]) \in Statuses
  BY DEF TierStatus, Statuses
<1>4. results \in SUBSET TpResults
  <2>1. pwRun.ap \in {"esp", "linux"} /\ INCONCLUSIVE \in Statuses
    BY DEF PowerInv, PowerRecords, RunRecord, Statuses
  <2>2. scored \subseteq TpResults /\ short \subseteq TpResults
    BY <1>3, <2>1 DEF TpResults, TpResult
  <2> QED BY <1>2, <2>1, <2>2, LadderResult DEF PowerInv
<1>5. \A r \in results : r.status = PASS /\ r.name \in Tiers \ {"twt"} =>
        TierStatus(r.name, anchor, level[r.name]) = PASS
  BY <1>2 DEF OfLadder, TpResult, PASS, INCONCLUSIVE
<1>6. /\ pwRun' \in RunRecord /\ pwBase' \subseteq TpResults
      /\ pwRun'.results = pwRun.results \cup results
  BY <1>2, <1>4, AddedResults DEF PowerInv
<1>7. PowerPassEarned'
  <2> SUFFICES ASSUME NEW r \in results, r.status = PASS, r.name \in Tiers \ {"twt"}
               PROVE  /\ pwTier.associated = PASS
                      /\ pwDut.boots = 1 => pwTier.window[r.name].by = {TRUE}
    BY <1>1, <1>6 DEF PowerPassEarned
  <2>1. level[r.name] \in {"low", "grey", "high"}
    OBVIOUS
  <2> QED BY <1>1, <1>5, <2>1, TierEarned
<1>8. PowerRecords' /\ BeforeVerdict'
  BY <1>1, <1>6 DEF PowerInv, PowerRecords, BeforeVerdict
<1> QED BY <1>1, <1>7, <1>8 DEF PowerInv, JoinedOnce, WindowInTier, WordInTier, SamplesTold,
     OneBoot,
           OneClimb, DutSilenced, PowerLeftQuiet

-----------------------------------------------------------------------------
(* The finally, and the end.                                               *)
LEMMA PowerLeaves ==
  ASSUME PowerInv, SilenceDut \/ ApDown \/ PowerKill
  PROVE  PowerInv'
<1>0. pwRun \in RunRecord /\ pwDut \in DutRecord /\ pwAp \in BOOLEAN
  BY DEF PowerInv, PowerRecords
<1>1. /\ pwPc' \in {"ap-down", "over"} /\ UNCHANGED <<pwTier, pwBase>>
      /\ pwRun' \in RunRecord /\ pwRun'.results = pwRun.results
      /\ pwDut' \in DutRecord /\ pwDut'.boots = pwDut.boots /\ pwAp' \in BOOLEAN
      /\ DutSilenced' /\ PowerLeftQuiet'
  <2>1. CASE SilenceDut
    <3>1. pwTier' = pwTier /\ pwAp' = pwAp /\ pwBase' = pwBase
      BY <2>1 DEF SilenceDut
    <3>2. CASE pwDut' = [pwDut EXCEPT !.app = "idle", !.at = "off"] /\ pwPc' = "ap-down"
               /\ UNCHANGED pwRun
      <4>1. pwDut' \in DutRecord /\ pwDut'.boots = pwDut.boots /\ pwDut'.app = "idle"
        BY <1>0, <3>2 DEF DutRecord
      <4> QED BY <1>0, <3>1, <3>2, <4>1 DEF DutSilenced, PowerLeftQuiet
    <3>3. CASE /\ UNCHANGED pwDut
               /\ \/ pwRun' = [pwRun EXCEPT !.failed = {"dut"}] /\ pwPc' = "ap-down"
                  \/ pwRun' = [pwRun EXCEPT !.failed = {"dut", "ap"}] /\ pwPc' = "over"
      <4>1. /\ pwRun' \in RunRecord /\ pwRun'.results = pwRun.results
            /\ "dut" \in pwRun'.failed /\ (pwPc' = "over" => "ap" \in pwRun'.failed)
            /\ pwPc' \in {"ap-down", "over"}
        BY <1>0, <3>3 DEF RunRecord
      <4> QED BY <1>0, <3>1, <3>3, <4>1 DEF DutSilenced, PowerLeftQuiet
    <3> QED BY <2>1, <3>2, <3>3 DEF SilenceDut
  <2>2. CASE ApDown
    <3>1. /\ pwPc = "ap-down" /\ pwPc' = "over" /\ UNCHANGED <<pwTier, pwDut, pwBase>>
          /\ pwDut.app = "test-power" => "dut" \in pwRun.failed
      BY <2>2 DEF ApDown, PowerInv, DutSilenced
    <3>2. /\ pwRun' \in RunRecord /\ pwRun'.results = pwRun.results /\ pwAp' \in BOOLEAN
          /\ pwRun.failed \subseteq pwRun'.failed
          /\ pwRun'.owed => "ap" \in pwRun'.failed \/ ~pwAp'
      BY <1>0, <2>2 DEF ApDown, RunRecord
    <3> QED BY <1>0, <3>1, <3>2 DEF DutSilenced, PowerLeftQuiet
  <2>3. CASE PowerKill
    BY <1>0, <2>3 DEF PowerKill, RunRecord, DutSilenced, PowerLeftQuiet
  <2> QED BY <2>1, <2>2, <2>3
<1>3. PowerRecords' /\ BeforeVerdict' /\ PowerPassEarned'
  BY <1>1 DEF PowerInv, PowerRecords, BeforeVerdict, PowerPassEarned
<1> QED BY <1>1, <1>3 DEF PowerInv, JoinedOnce, WindowInTier, WordInTier, SamplesTold, OneBoot,
           OneClimb

LEMMA PowerStep == PowerInv /\ [PowerNext]_pwVars => PowerInv'
<1> SUFFICES ASSUME PowerInv, [PowerNext]_pwVars
             PROVE  PowerInv'
  OBVIOUS
<1>1. CASE UNCHANGED pwVars
  <2>1. UNCHANGED <<pwPc, pwRun, pwTier, pwDut, pwAp, pwBase>>
    BY <1>1 DEF pwVars
  <2>2. PowerRecords' /\ BeforeVerdict'
    BY <2>1 DEF PowerInv, PowerRecords, BeforeVerdict, NothingRead
  <2>3. JoinedOnce' /\ WindowInTier' /\ SamplesTold'
    BY <2>1 DEF PowerInv, JoinedOnce, WindowInTier, SamplesTold, OneBoot, OneClimb
  <2>4. WordInTier'
    BY <2>1 DEF PowerInv, WordInTier, OneClimb
  <2>5. DutSilenced' /\ PowerPassEarned' /\ PowerLeftQuiet'
    BY <2>1 DEF PowerInv, DutSilenced, PowerPassEarned, PowerLeftQuiet
  <2> QED BY <2>2, <2>3, <2>4, <2>5 DEF PowerInv
<1>2. CASE PowerNext
  <2>1. CASE \E ap \in {"esp", "linux"}, append, ppk2 \in BOOLEAN : PowerStart(ap, append, ppk2)
    BY <2>1, PowerStarts
  <2>2. CASE \E b \in BOOLEAN : PowerBoot(b) \/ Joined(b) \/ NextTier(b)
    BY <2>2, PowerBoots, PowerJoins, PowerEnters
  <2>3. CASE \E k \in Tiers : WindowOpens(k) \/ WindowShuts(k)
    BY <2>3, PowerSamples
  <2>4. CASE \E anchor \in BOOLEAN,
             level \in [Tiers -> {"low", "grey", "high"}] : Score(anchor, level)
    BY <2>4, PowerScores
  <2>5. CASE Triggered
    BY <2>5, PowerEnters
  <2> QED BY <1>2, <2>1, <2>2, <2>3, <2>4, <2>5, PowerBringsUp, PowerFlashes, PowerSays,
             PowerLadderDone, PowerRestarts, PowerCaptureEnds, PowerLeaves DEF PowerNext
<1> QED BY <1>1, <1>2

(* A tier that passes was measured: the console said that the station       *)
(* associated, and without a restart every sample is of that very tier.     *)
(* A run that ends by itself leaves the board idle and its AP down,         *)
(* unless silencing that very one failed (run of tp_power.py); for any      *)
(* runs, results and restarts.                                              *)
THEOREM PowerTierFair == PowerSpec => [](PowerTypeOK /\ PowerPassEarned /\ PowerLeftQuiet)
<1>1. PowerInv => PowerTypeOK /\ PowerPassEarned /\ PowerLeftQuiet
  BY TypedByRecords DEF PowerInv
<1> QED BY <1>1, PowerInvInit, PowerStep, PTL DEF PowerSpec

-----------------------------------------------------------------------------
(* DEEP SLEEP.  The tier (dscycle.py) reads a port that vanishes with every *)
(* sleep, and counts a cycle when a DEEP-SLEEP, a gone port and a           *)
(* RECONNECTED came in this order.  SleepInv bounds what it has counted and *)
(* still may count by what the leaf did, in every state of the port, the    *)
(* lines in it and the tier's flags.                                        *)

Commands == Resting \cup {"toggle", "trigger", "pulse", "save", "default"}
Said == {"RECONNECTED", "DEEP-SLEEP"}

C6Record ==
  [mode : Resting \cup {"trigger", "toggle"}, pin : Resting,
   pulse : {"no", "commanded", "serviced"},
   rx : Seq(Commands), nvs : Resting \cup {"trigger", "toggle", "empty"}]
DsRecord ==
  [c6 : BOOLEAN, had : BOOLEAN, wake : BOOLEAN, lost : BOOLEAN, warned : BOOLEAN,
   ser : {"none", "open", "stale"}, gone : BOOLEAN, slept : BOOLEAN,
   marker : BOOLEAN, pending : BOOLEAN, cycles : 0 .. Need, recons : 0 .. 1]
DsTruths ==
  [said : 0 .. MaxSleeps, told : BOOLEAN, joins : 0 .. MaxSleeps, unsent : BOOLEAN]
BeforeTry == {"idle", "rest", "ap", "flash"}

SleepRecords ==
  /\ dsLeaf \in Awake \cup {"other", "dark", "asleep"}
  /\ dsTruth \in DsTruths
  /\ dsC6 \in C6Record /\ dsTier \in DsRecord
  /\ dsHandle \in [at : {"closed", "live", "dead"}, moves : 0 .. MaxMoves6,
                   orders : 0 .. MaxOrders]
  /\ dsPc \in BeforeTry \cup {"capture", "teardown", "over"}
  /\ dsLines \in Seq(Said)
  /\ dsResult \in {<<>>} \cup {<<v>> : v \in {"PASS", "FAIL", "INCONCLUSIVE", "SKIP"}}

\* The commands on their way to the trigger: one the owner of the bench typed, one of the
\* tier's own, and the one of its teardown.
Waiting ==
  Len(dsC6.rx) <= IF dsPc \in {"idle", "rest"} THEN 1 ELSE IF dsPc = "over" THEN 3 ELSE 2

\* Up to the capture nothing has been read, and no verdict given.
BeforeCapture ==
  /\ dsPc \in BeforeTry \cup {"capture"} => dsResult = <<>> /\ ~dsTier.warned
  /\ dsPc \in BeforeTry => /\ dsLeaf = "other" /\ dsTier.ser = "none" /\ ~dsTier.gone
                       /\ ~dsTier.marker /\ ~dsTier.pending /\ dsTier.cycles = 0

\* The leaf joins once for a sleep line.
JoinsSlept ==
  /\ dsTruth.joins + (IF dsTruth.told THEN 1 ELSE 0) <= dsTruth.said
  /\ dsLeaf \in {"said", "asleep"} => dsTruth.told

ReconWaits == Len(dsLines) > 0 /\ dsLines[1] = "RECONNECTED"
SleepWaits == Len(dsLines) > 0 /\ dsLines[Len(dsLines)] = "DEEP-SLEEP"

\* The lines that wait are those of one opening of the port, which the leaf wrote in one waking.
LinesOfOpening ==
  /\ Len(dsLines) \in 0 .. 2 /\ (Len(dsLines) = 2 => ReconWaits /\ SleepWaits)
  /\ dsTier.ser = "none" => Len(dsLines) = 0
  /\ dsTier.ser = "open" => dsLeaf \in Awake
  /\ dsTier.ser # "none" => dsPc = "capture"
  /\ dsTier.ser = "open" /\ dsLeaf \in {"hold", "window", "connect"} =>
       Len(dsLines) = 0 /\ ~dsTier.marker
  /\ dsTier.ser = "open" /\ dsLeaf = "up" => ~SleepWaits /\ ~dsTier.marker
  /\ ReconWaits => ~dsTier.marker
  /\ dsPc = "capture" /\ dsTier.ser = "none" /\ ~dsTier.gone => ~dsTier.marker /\ ~dsTier.pending

\* What the tier has counted or will with the lines it has, and whether one more may come of
\* what it has seen of the present sleep.
CyclesClaimed == dsTier.cycles + (IF dsTier.pending /\ ReconWaits THEN 1 ELSE 0)
CycleDue ==
  \/ dsTier.pending /\ ~ReconWaits
  \/ dsTier.marker \/ SleepWaits
  \/ dsTier.ser = "none" /\ dsTier.gone /\ dsTier.slept

\* No cycle is claimed before the leaf joined after its sleep line.
CyclesJoined ==
  /\ CyclesClaimed <= dsTruth.joins
  /\ dsPc = "capture" /\ CycleDue =>
       CyclesClaimed + 1 <= dsTruth.joins + (IF dsTruth.told THEN 1 ELSE 0)

\* The tier knows a trigger that does not wake the leaf.
WakeAccounted ==
  /\ dsTier.had => dsTier.c6
  /\ dsPc \notin {"idle", "rest"} /\ dsTier.c6 /\ ~dsTier.lost => dsTier.wake
  /\ dsTruth.unsent => dsTier.lost
  /\ dsResult = <<"FAIL">> => ~dsTier.lost
  /\ dsPc \in {"idle", "rest"} => ~dsTier.had
  /\ dsPc = "rest" => dsTier.c6
  /\ dsPc \in BeforeTry => ~dsTier.lost
  /\ dsPc = "idle" => ~dsTier.c6

\* TriggerRestored, with no pulse under way that would end in another mode.
Restored ==
  dsPc = "over" /\ dsTier.had /\ ~dsTier.warned =>
    \/ dsC6.rx = <<>> /\ dsC6.mode = "trigger" /\ dsC6.pulse # "commanded"
    \/ dsC6.rx # <<>> /\ dsC6.rx[Len(dsC6.rx)] = "trigger"

SleepInv ==
  /\ SleepRecords /\ Waiting /\ BeforeCapture /\ JoinsSlept /\ LinesOfOpening
  /\ CyclesJoined /\ WakeAccounted /\ Restored

-----------------------------------------------------------------------------
(* Queues.                                                                 *)
LEMMA Queued ==
  ASSUME NEW S, NEW s \in Seq(S), NEW c \in S
  PROVE  /\ Append(s, c) \in Seq(S) /\ Append(s, c) # <<>>
         /\ Len(Append(s, c)) = Len(s) + 1 /\ Append(s, c)[Len(s) + 1] = c
         /\ \A i \in 1 .. Len(s) : Append(s, c)[i] = s[i]
BY AppendProperties

LEMMA Taken ==
  ASSUME NEW S, NEW s \in Seq(S), s # <<>>
  PROVE  /\ Tail(s) \in Seq(S) /\ Len(s) \in Nat \ {0} /\ Len(Tail(s)) = Len(s) - 1
         /\ Head(s) = s[1] /\ Head(s) \in S
         /\ \A i \in 1 .. Len(s) - 1 : Tail(s)[i] = s[i + 1]
         /\ Tail(s) = <<>> <=> Len(Tail(s)) = 0
<1>1. Len(s) \in Nat \ {0}
  BY EmptySeq
<1>2. Tail(s) \in Seq(S)
  BY HeadTailProperties
<1>3. Tail(s) = <<>> <=> Len(Tail(s)) = 0
  BY <1>2, EmptySeq
<1> QED BY <1>1, <1>3, HeadTailProperties

LEMMA Emptied ==
  ASSUME NEW S, NEW s \in Seq(S)
  PROVE  Len(s) \in Nat /\ (s = <<>> <=> Len(s) = 0)
BY EmptySeq

LEMMA SleepTyped == SleepInv => SleepTypeOK /\ SleepVerdictFair /\ TriggerRestored
<1> SUFFICES ASSUME SleepInv
             PROVE  SleepTypeOK /\ SleepVerdictFair /\ TriggerRestored
  OBVIOUS
<1>1. Len(dsLines) <= 2 * MaxSleeps + 2
  <2>1. Len(dsLines) \in 0 .. 2
    BY DEF SleepInv, LinesOfOpening
  <2>2. \A n \in 0 .. 2 : n <= 2 * MaxSleeps + 2
    BY SleepBounds
  <2> QED BY <2>1, <2>2
<1>2. Len(dsC6.rx) <= 3
  BY DEF SleepInv, Waiting, SleepRecords, C6Record
<1>3. SleepTypeOK
  BY <1>1, <1>2 DEF SleepInv, SleepTypeOK, SleepRecords, C6Record, DsRecord, DsTruths,
    BeforeTry
<1>4. dsTier.cycles <= dsTruth.joins
  BY DEF SleepInv, CyclesJoined, CyclesClaimed, SleepRecords, DsRecord, DsTruths
<1>5. SleepVerdictFair
  BY <1>4 DEF SleepInv, SleepVerdictFair, WakeAccounted
<1>6. TriggerRestored
  BY DEF SleepInv, Restored, TriggerRestored
<1> QED BY <1>3, <1>5, <1>6

LEMMA SleepInvInit == SleepInit => SleepInv
<1> SUFFICES ASSUME SleepInit
             PROVE  SleepInv
  OBVIOUS
<1> USE DEF SleepInit
<1>1. SleepRecords
  <2>1. <<>> \in Seq(Commands) /\ <<>> \in Seq(Said)
    BY EmptySeq
  <2>2. dsTruth \in DsTruths
    BY SleepBounds DEF DsTruths
  <2>3. dsHandle \in [at : {"closed", "live", "dead"}, moves : 0 .. MaxMoves6,
                      orders : 0 .. MaxOrders]
    BY SleepBounds
  <2>4. dsTier \in DsRecord
    BY SleepBounds DEF DsRecord
  <2>5. dsC6 \in C6Record
    BY <2>1 DEF C6Record, Resting
  <2> QED BY <2>1, <2>2, <2>3, <2>4, <2>5 DEF SleepRecords, BeforeTry
<1>2. Len(dsLines) = 0 /\ Len(dsC6.rx) = 0
  BY EmptySeq
<1>3. Waiting /\ BeforeCapture /\ JoinsSlept /\ WakeAccounted /\ Restored
  BY <1>2 DEF Waiting, BeforeCapture, JoinsSlept, WakeAccounted, Restored
<1>4. LinesOfOpening /\ CyclesJoined
  BY <1>2 DEF LinesOfOpening, CyclesJoined, CyclesClaimed, CycleDue, ReconWaits,
    SleepWaits
<1> QED BY <1>1, <1>3, <1>4 DEF SleepInv

-----------------------------------------------------------------------------
(* The trigger.                                                            *)

LEMMA TriggerKeeps ==
  ASSUME SleepInv, UNCHANGED <<dsBench, dsRun>>, dsC6' \in C6Record,
         dsHandle' \in [at : {"closed", "live", "dead"}, moves : 0 .. MaxMoves6,
                        orders : 0 .. MaxOrders],
         Waiting', Restored'
  PROVE  SleepInv'
<1>1. UNCHANGED <<dsLeaf, dsTruth, dsLines, dsPc, dsTier, dsResult>>
  BY DEF dsBench, dsRun
<1>2. SleepRecords'
  BY <1>1 DEF SleepInv, SleepRecords
<1>3. BeforeCapture' /\ JoinsSlept' /\ WakeAccounted'
  BY <1>1 DEF SleepInv, BeforeCapture, JoinsSlept, WakeAccounted
<1>4. LinesOfOpening' /\ CyclesJoined'
  BY <1>1 DEF SleepInv, LinesOfOpening, CyclesJoined, CyclesClaimed, CycleDue, ReconWaits,
    SleepWaits
<1> QED BY <1>2, <1>3, <1>4 DEF SleepInv

LEMMA SleepHandles ==
  ASSUME SleepInv, handle_line
  PROVE  SleepInv'
<1> DEFINE rx == dsC6.rx
<1>1. /\ dsC6 \in C6Record /\ rx \in Seq(Commands) /\ rx # <<>> /\ dsC6.pulse = "no"
      /\ UNCHANGED <<dsBench, dsHandle, dsRun>>
  BY DEF SleepInv, SleepRecords, C6Record, handle_line
<1>2. /\ Tail(rx) \in Seq(Commands) /\ Len(rx) \in Nat \ {0} /\ Len(Tail(rx)) = Len(rx) - 1
      /\ Head(rx) = rx[1] /\ Head(rx) \in Commands
      /\ \A i \in 1 .. Len(rx) - 1 : Tail(rx)[i] = rx[i + 1]
      /\ Tail(rx) = <<>> <=> Len(Tail(rx)) = 0
  BY <1>1, Taken
<1>3. /\ dsC6' \in C6Record /\ dsC6'.rx = Tail(rx)
      /\ Head(rx) = "trigger" => dsC6'.mode = "trigger" /\ dsC6'.pulse = "no"
  <2>1. PICK cmd \in Commands : cmd = Head(rx)
    BY <1>2
  <2>2. CASE cmd = "pulse"
    BY <1>1, <1>2, <2>1, <2>2 DEF handle_line, C6Record, Resting
  <2>3. CASE cmd = "save"
    BY <1>1, <1>2, <2>1, <2>3 DEF handle_line, C6Record, Resting
  <2>4. CASE cmd = "default"
    BY <1>1, <1>2, <2>1, <2>4 DEF handle_line, C6Record, Resting
  <2>5. CASE cmd \in Resting \cup {"toggle", "trigger"}
    <3>1. PinOf(cmd) \in Resting
      BY <2>5 DEF PinOf, Resting
    <3>2. dsC6' = [[dsC6 EXCEPT !.rx = Tail(rx)] EXCEPT !.mode = cmd, !.pin = PinOf(cmd)]
      BY <2>1, <2>5 DEF handle_line, Resting
    <3> QED BY <1>1, <1>2, <2>1, <2>5, <3>1, <3>2 DEF C6Record, Resting
  <2> QED BY <2>1, <2>2, <2>3, <2>4, <2>5 DEF Commands
<1>4. Waiting'
  BY <1>1, <1>2, <1>3 DEF SleepInv, Waiting, dsRun
<1>5. Restored'
  <2> SUFFICES ASSUME dsPc' = "over" /\ dsTier'.had /\ ~dsTier'.warned
               PROVE  \/ dsC6'.rx = <<>> /\ dsC6'.mode = "trigger" /\ dsC6'.pulse # "commanded"
                      \/ dsC6'.rx # <<>> /\ dsC6'.rx[Len(dsC6'.rx)] = "trigger"
    BY DEF Restored
  <2>1. rx[Len(rx)] = "trigger"
    BY <1>1 DEF SleepInv, Restored, dsRun
  <2>2. CASE Len(rx) = 1
    <3>1. Tail(rx) = <<>> /\ Head(rx) = "trigger"
      BY <1>2, <2>1, <2>2
    <3> QED BY <1>3, <3>1
  <2>3. CASE Len(rx) > 1
    <3>1. Len(Tail(rx)) \in 1 .. Len(rx) - 1 /\ Tail(rx)[Len(Tail(rx))] = "trigger"
      BY <1>2, <2>1, <2>3
    <3>2. Tail(rx) # <<>>
      BY <1>2, <3>1
    <3> QED BY <1>3, <3>1, <3>2
  <2> QED BY <1>2, <2>2, <2>3
<1> QED BY <1>1, <1>3, <1>4, <1>5, TriggerKeeps DEF SleepInv, SleepRecords

LEMMA SleepServices ==
  ASSUME SleepInv, service_mode \/ pulse_low
  PROVE  SleepInv'
<1>1. /\ dsC6 \in C6Record /\ UNCHANGED <<dsBench, dsHandle, dsRun>>
  BY DEF SleepInv, SleepRecords, service_mode, pulse_low
<1>2. /\ dsC6' \in C6Record /\ dsC6'.rx = dsC6.rx
      /\ dsC6.mode = "trigger" /\ dsC6.pulse # "commanded" =>
           dsC6'.mode = "trigger" /\ dsC6'.pulse # "commanded"
  <2>1. CASE service_mode
    BY <1>1, <2>1 DEF service_mode, C6Record, Resting
  <2>2. CASE pulse_low
    BY <1>1, <2>2 DEF pulse_low, C6Record, Resting
  <2> QED BY <2>1, <2>2
<1>3. Waiting' /\ Restored'
  BY <1>1, <1>2 DEF SleepInv, Waiting, Restored, dsRun
<1> QED BY <1>1, <1>2, <1>3, TriggerKeeps DEF SleepInv, SleepRecords

LEMMA SleepOrders ==
  ASSUME SleepInv, UsbMoves \/ \E cmd \in Commands : Order(cmd)
  PROVE  SleepInv'
<1>1. dsC6 \in C6Record
      /\ dsHandle \in [at : {"closed", "live", "dead"}, moves : 0 .. MaxMoves6,
                       orders : 0 .. MaxOrders]
      /\ UNCHANGED <<dsBench, dsRun>>
  BY DEF SleepInv, SleepRecords, UsbMoves, Order
<1>2. CASE UsbMoves
  <2>1. dsHandle.moves + 1 \in 0 .. MaxMoves6
    BY <1>1, <1>2, SleepBounds DEF UsbMoves
  <2>2. dsHandle' \in [at : {"closed", "live", "dead"}, moves : 0 .. MaxMoves6,
                       orders : 0 .. MaxOrders]
    BY <1>1, <1>2, <2>1 DEF UsbMoves
  <2>3. dsC6' = dsC6
    BY <1>2 DEF UsbMoves
  <2>4. Waiting' /\ Restored'
    BY <1>1, <2>3 DEF SleepInv, Waiting, Restored, dsRun
  <2> QED BY <1>1, <2>2, <2>3, <2>4, TriggerKeeps
<1>3. ASSUME NEW cmd \in Commands, Order(cmd)
      PROVE  SleepInv'
  <2>1. dsHandle.orders + 1 \in 0 .. MaxOrders
    BY <1>1, <1>3, SleepBounds DEF Order
  <2>2. dsHandle' \in [at : {"closed", "live", "dead"}, moves : 0 .. MaxMoves6,
                       orders : 0 .. MaxOrders]
    BY <1>1, <1>3, <2>1 DEF Order
  <2>3. dsC6' \in C6Record /\ Len(dsC6'.rx) = 1
    <3>1. <<cmd>> \in Seq(Commands) /\ Len(<<cmd>>) = 1
      OBVIOUS
    <3> QED BY <1>1, <1>3, <3>1 DEF Order, C6Record
  <2>4. dsPc' = "idle"
    BY <1>1, <1>3 DEF Order, dsRun
  <2>5. Waiting' /\ Restored'
    BY <2>3, <2>4 DEF Waiting, Restored
  <2> QED BY <1>1, <2>2, <2>3, <2>5, TriggerKeeps
<1> QED BY <1>2, <1>3

-----------------------------------------------------------------------------
(* The leaf.                                                               *)

SameCounts ==
  /\ dsTier'.c6 = dsTier.c6 /\ dsTier'.had = dsTier.had /\ dsTier'.wake = dsTier.wake
  /\ dsTier'.lost = dsTier.lost /\ dsTier'.warned = dsTier.warned

SameClaims ==
  /\ dsTier'.gone = dsTier.gone /\ dsTier'.marker = dsTier.marker
  /\ dsTier'.pending = dsTier.pending /\ dsTier'.cycles = dsTier.cycles

LEMMA LeafKeeps ==
  ASSUME SleepInv, dsPc \notin BeforeTry, UNCHANGED <<dsTrigger, dsPc, dsResult>>,
         dsLeaf' \in Awake \cup {"dark", "asleep"},
         dsTruth' \in DsTruths, dsTruth'.unsent = dsTruth.unsent,
         dsTier' \in DsRecord, SameCounts, dsLines' \in Seq(Said),
         JoinsSlept', LinesOfOpening', CyclesJoined'
  PROVE  SleepInv'
<1>1. UNCHANGED <<dsC6, dsHandle>>
  BY DEF dsTrigger
<1>2. SleepRecords'
  BY <1>1 DEF SleepInv, SleepRecords
<1>3. Waiting' /\ BeforeCapture'
  BY <1>1 DEF SleepInv, Waiting, BeforeCapture, SameCounts
<1>4. WakeAccounted' /\ Restored'
  BY <1>1 DEF SleepInv, WakeAccounted, Restored, SameCounts
<1> QED BY <1>2, <1>3, <1>4 DEF SleepInv

LEMMA LeafFacts ==
  ASSUME SleepInv, dsLeaf # "other"
  PROVE  /\ dsPc \notin BeforeTry /\ dsTier \in DsRecord /\ dsLines \in Seq(Said)
            /\ Len(dsLines) \in Nat
         /\ dsTruth \in DsTruths
         /\ dsTruth.joins \in Nat /\ dsTruth.said \in Nat /\ dsTier.cycles \in Nat
         /\ dsLeaf \in Awake \cup {"dark", "asleep"}
BY DEF SleepInv, BeforeCapture, SleepRecords, DsRecord, DsTruths

LEMMA LeafMoves ==
  ASSUME SleepInv, FreshBoot \/ WindowOver \/ Connect(FALSE)
         \/ \E cause \in {"ext1", "timer"} : Wake(cause)
  PROVE  SleepInv'
<1>1. /\ UNCHANGED <<dsLines, dsTrigger, dsRun>>
      /\ dsLeaf \in {"dark", "window", "connect", "asleep"}
      /\ dsLeaf \in {"dark", "asleep"} => dsLeaf' \in {"hold", "window", "connect"}
      /\ dsLeaf = "window" => dsLeaf' = "connect"
      /\ dsLeaf = "connect" => dsLeaf' = "up"
  BY DEF FreshBoot, WindowOver, Connect, Wake
<1>2. UNCHANGED <<dsPc, dsTier, dsResult>>
  BY <1>1 DEF dsRun
<1>3. dsLeaf # "other" /\ dsLeaf' \in {"hold", "window", "connect", "up"}
  BY <1>1
<1>0. /\ dsTruth' \in DsTruths /\ dsTruth'.joins = dsTruth.joins
      /\ dsTruth'.told = dsTruth.told /\ dsTruth'.said = dsTruth.said
      /\ dsTruth'.unsent = dsTruth.unsent
  <2>1. UNCHANGED dsTruth
    BY DEF FreshBoot, WindowOver, Connect, Wake
  <2> QED BY <1>3, <2>1, LeafFacts
<1>4. JoinsSlept'
  BY <1>0, <1>1, <1>3 DEF SleepInv, JoinsSlept
<1>5. LinesOfOpening'
  <2>1. (ReconWaits' <=> ReconWaits) /\ (SleepWaits' <=> SleepWaits)
    BY <1>1 DEF ReconWaits, SleepWaits
  <2>2. dsTier.ser = "open" => dsLeaf \in {"window", "connect"}
    BY <1>1 DEF SleepInv, LinesOfOpening, Awake
  <2>3. dsTier.ser = "open" => dsLeaf' \in Awake /\ Len(dsLines) = 0 /\ ~dsTier.marker
        /\ ~SleepWaits
    <3>1. dsTier.ser = "open" => Len(dsLines) = 0 /\ ~dsTier.marker
      BY <2>2 DEF SleepInv, LinesOfOpening
    <3>2. dsLeaf' \in Awake
      BY <1>3 DEF Awake
    <3>3. Len(dsLines) = 0 => ~SleepWaits
      BY DEF SleepWaits
    <3> QED BY <3>1, <3>2, <3>3
  <2> QED BY <1>1, <1>2, <2>1, <2>3 DEF SleepInv, LinesOfOpening
<1>6. CyclesJoined'
  BY <1>0, <1>1, <1>2 DEF SleepInv, CyclesJoined, CyclesClaimed, CycleDue, ReconWaits,
    SleepWaits
<1> QED BY <1>0, <1>1, <1>2, <1>3, <1>4, <1>5, <1>6, LeafFacts, LeafKeeps
    DEF SameCounts, Awake

LEMMA LeafConnects ==
  ASSUME SleepInv, Connect(TRUE)
  PROVE  SleepInv'
<1>1. /\ dsLeaf = "connect" /\ dsLeaf' = "up" /\ UNCHANGED <<dsTrigger, dsRun>>
      /\ dsLines' = IF dsTier.ser = "open" THEN Append(dsLines, "RECONNECTED") ELSE dsLines
      /\ dsTruth' = [dsTruth EXCEPT !.told = FALSE,
                         !.joins = IF dsTruth.told THEN dsTruth.joins + 1 ELSE dsTruth.joins]
  BY DEF Connect, Says
<1>2. UNCHANGED <<dsPc, dsTier, dsResult>>
  BY <1>1 DEF dsRun
<1> DEFINE owed == IF dsTruth.told THEN 1 ELSE 0
<1>3. /\ dsTruth.joins + owed \in 0 .. MaxSleeps /\ dsTruth.joins + owed <= dsTruth.said
      /\ dsTruth.joins \in Nat
  BY <1>1, LeafFacts, SleepBounds DEF SleepInv, JoinsSlept, DsTruths
<1>4. /\ dsTruth' \in DsTruths
      /\ dsTruth'.joins = dsTruth.joins + owed /\ dsTruth'.told = FALSE
      /\ dsTruth'.said = dsTruth.said /\ dsTruth'.unsent = dsTruth.unsent
  <2>1. dsTruth \in DsTruths
    BY <1>1, LeafFacts
  <2>2. (IF dsTruth.told THEN dsTruth.joins + 1 ELSE dsTruth.joins) = dsTruth.joins + owed
    BY <1>3
  <2>3. dsTruth' = [dsTruth EXCEPT !.told = FALSE, !.joins = dsTruth.joins + owed]
    BY <1>1, <2>2
  <2> HIDE DEF owed
  <2> QED BY <1>3, <2>1, <2>3 DEF DsTruths
<1>5. dsTier.ser = "open" =>
        /\ dsLines' \in Seq(Said) /\ Len(dsLines) = 0 /\ Len(dsLines') = 1
        /\ dsLines'[1] = "RECONNECTED" /\ ~dsTier.marker
        /\ ReconWaits' /\ ~SleepWaits'
  <2> SUFFICES ASSUME dsTier.ser = "open"
               PROVE  /\ dsLines' \in Seq(Said) /\ Len(dsLines) = 0 /\ Len(dsLines') = 1
                      /\ dsLines'[1] = "RECONNECTED" /\ ~dsTier.marker
                      /\ ReconWaits' /\ ~SleepWaits'
    OBVIOUS
  <2>1. Len(dsLines) = 0 /\ ~dsTier.marker /\ dsLines \in Seq(Said)
    BY <1>1 DEF SleepInv, LinesOfOpening, SleepRecords
  <2>2. "RECONNECTED" \in Said
    BY DEF Said
  <2>3. dsLines' \in Seq(Said) /\ Len(dsLines') = 1 /\ dsLines'[1] = "RECONNECTED"
    BY <1>1, <2>1, <2>2, Queued
  <2>4. ReconWaits'
    BY <2>3 DEF ReconWaits
  <2>5. dsLines'[Len(dsLines')] # "DEEP-SLEEP"
    BY <2>3
  <2>6. ~SleepWaits'
    BY <2>5 DEF SleepWaits
  <2> QED BY <2>1, <2>3, <2>4, <2>6
<1>6. dsLines' \in Seq(Said)
  BY <1>1, <1>5, LeafFacts
<1>7. JoinsSlept'
  BY <1>1, <1>3, <1>4 DEF JoinsSlept
<1>8. LinesOfOpening'
  <2>1. CASE dsTier.ser # "open"
    <3>1. dsLines' = dsLines
      BY <1>1, <2>1
    <3>2. (ReconWaits' <=> ReconWaits) /\ (SleepWaits' <=> SleepWaits)
      BY <3>1 DEF ReconWaits, SleepWaits
    <3> QED BY <1>2, <2>1, <3>1, <3>2 DEF SleepInv, LinesOfOpening
  <2>2. CASE dsTier.ser = "open"
    <3> QED BY <1>1, <1>2, <1>5, <2>2 DEF SleepInv, LinesOfOpening, Awake
  <2> QED BY <2>1, <2>2
<1> HIDE DEF owed
<1>9. CyclesJoined'
  <2>1. CyclesClaimed <= dsTruth.joins /\ dsTier.cycles \in Nat
        /\ (dsPc = "capture" /\ CycleDue => CyclesClaimed + 1 <= dsTruth.joins + owed)
           /\ owed \in 0 .. 1
    BY <1>1, LeafFacts DEF SleepInv, CyclesJoined, owed
  <2>2. CASE dsTier.ser # "open"
    <3>1. dsLines' = dsLines
      BY <1>1, <2>2
    <3>2. (ReconWaits' <=> ReconWaits) /\ (SleepWaits' <=> SleepWaits)
      BY <3>1 DEF ReconWaits, SleepWaits
    <3>3. CyclesClaimed' = CyclesClaimed /\ (CycleDue' <=> CycleDue) /\ CyclesClaimed \in Nat
      BY <1>2, <2>1, <3>2 DEF CyclesClaimed, CycleDue
    <3> QED BY <1>2, <1>3, <1>4, <2>1, <3>3 DEF CyclesJoined
  <2>3. CASE dsTier.ser = "open"
    <3>1. ~ReconWaits /\ ~dsTier.marker
      BY <1>5, <2>3 DEF ReconWaits
    <3>1a. ReconWaits' /\ ~SleepWaits'
      BY <1>5, <2>3
    <3>2. CyclesClaimed = dsTier.cycles
          /\ CyclesClaimed' = dsTier.cycles + IF dsTier.pending THEN 1 ELSE 0
      BY <1>2, <2>1, <3>1, <3>1a DEF CyclesClaimed
    <3>3. ~CycleDue'
      BY <1>2, <2>3, <3>1, <3>1a DEF CycleDue
    <3>4. dsPc = "capture"
      BY <2>3 DEF SleepInv, LinesOfOpening
    <3>5. dsTier.pending => CycleDue
      BY <3>1 DEF CycleDue
    <3> QED BY <1>2, <1>3, <1>4, <2>1, <3>2, <3>3, <3>4, <3>5 DEF CyclesJoined
  <2> QED BY <2>2, <2>3
<1> QED BY <1>1, <1>2, <1>4, <1>6, <1>7, <1>8, <1>9, LeafFacts, LeafKeeps DEF SameCounts, Awake

LEMMA LeafSaysSleep ==
  ASSUME SleepInv, SaySleep
  PROVE  SleepInv'
<1>1. /\ dsLeaf = "up" /\ dsLeaf' = "said" /\ UNCHANGED <<dsTrigger, dsRun>>
      /\ dsLines' = IF dsTier.ser = "open" THEN Append(dsLines, "DEEP-SLEEP") ELSE dsLines
      /\ dsTruth' = [dsTruth EXCEPT !.said = dsTruth.said + 1, !.told = TRUE]
      /\ dsTruth.said < MaxSleeps
  BY DEF SaySleep, Says
<1>2. UNCHANGED <<dsPc, dsTier, dsResult>>
  BY <1>1 DEF dsRun
<1>3. /\ dsTruth' \in DsTruths
      /\ dsTruth'.joins = dsTruth.joins /\ dsTruth'.told = TRUE
      /\ dsTruth'.unsent = dsTruth.unsent
      /\ dsTruth'.said = dsTruth.said + 1 /\ dsTruth.joins <= dsTruth.said
  <2>1. dsTruth \in DsTruths
        /\ dsTruth.joins \in Nat /\ dsTruth.said \in Nat
    BY <1>1, LeafFacts
  <2>2. dsTruth.said + 1 \in 0 .. MaxSleeps
    <3>1. dsTruth.said < MaxSleeps
      BY <1>1
    <3> QED BY <2>1, <3>1, SleepBounds
  <2>3. dsTruth.joins <= dsTruth.said
    BY <2>1 DEF SleepInv, JoinsSlept
  <2>4. /\ dsTruth' \in DsTruths /\ dsTruth'.told = TRUE /\ dsTruth'.said = dsTruth.said + 1
        /\ dsTruth'.unsent = dsTruth.unsent
        /\ dsTruth'.joins = dsTruth.joins
    BY <1>1, <2>1, <2>2 DEF DsTruths
  <2> QED BY <2>3, <2>4
<1>4. JoinsSlept'
  <2>1. dsTruth.joins \in Nat /\ dsTruth.said \in Nat
    BY <1>1, LeafFacts
  <2> QED BY <1>3, <2>1 DEF JoinsSlept
<1>5. dsTier.ser = "open" =>
        /\ dsLines' \in Seq(Said) /\ Len(dsLines') \in 0 .. 2
        /\ Len(dsLines') = 2 => ReconWaits'
        /\ SleepWaits' /\ (ReconWaits' <=> ReconWaits)
  <2> SUFFICES ASSUME dsTier.ser = "open"
               PROVE  /\ dsLines' \in Seq(Said) /\ Len(dsLines') \in 0 .. 2
                      /\ Len(dsLines') = 2 => ReconWaits'
                      /\ SleepWaits' /\ (ReconWaits' <=> ReconWaits)
    OBVIOUS
  <2>1. /\ dsLines \in Seq(Said) /\ Len(dsLines) \in 0 .. 2
        /\ ~SleepWaits /\ (Len(dsLines) = 2 => SleepWaits)
    BY <1>1, LeafFacts DEF SleepInv, LinesOfOpening
  <2>2. Len(dsLines) = 0 \/ Len(dsLines) = 1
    BY <2>1
  <2>3. Len(dsLines) = 1 => dsLines[1] = "RECONNECTED"
    BY <2>1, ElementOfSeq DEF SleepWaits, Said
  <2>4. "DEEP-SLEEP" \in Said
    BY DEF Said
  <2>5. /\ dsLines' \in Seq(Said) /\ Len(dsLines') = Len(dsLines) + 1
        /\ dsLines'[Len(dsLines) + 1] = "DEEP-SLEEP"
        /\ \A i \in 1 .. Len(dsLines) : dsLines'[i] = dsLines[i]
    BY <1>1, <2>1, <2>4, Queued
  <2>6. SleepWaits'
    BY <2>2, <2>5 DEF SleepWaits
  <2>7. CASE Len(dsLines) = 0
    <3>1. dsLines'[1] # "RECONNECTED"
      BY <2>5, <2>7
    <3> QED BY <2>2, <2>5, <2>6, <2>7, <3>1 DEF ReconWaits
  <2>8. CASE Len(dsLines) = 1
    <3>1. dsLines'[1] = "RECONNECTED"
      BY <2>3, <2>5, <2>8
    <3> QED BY <2>3, <2>5, <2>6, <2>8, <3>1 DEF ReconWaits
  <2> QED BY <2>2, <2>7, <2>8
<1>6. dsTier.ser # "open" =>
        /\ dsLines' = dsLines
        /\ (ReconWaits' <=> ReconWaits) /\ (SleepWaits' <=> SleepWaits)
  BY <1>1 DEF ReconWaits, SleepWaits
<1>7. dsLines' \in Seq(Said)
  BY <1>1, <1>5, <1>6, LeafFacts
<1>8. LinesOfOpening'
  <2>1. CASE dsTier.ser # "open"
    BY <1>2, <1>6, <2>1 DEF SleepInv, LinesOfOpening
  <2>2. CASE dsTier.ser = "open"
    BY <1>1, <1>2, <1>5, <2>2 DEF SleepInv, LinesOfOpening, Awake
  <2> QED BY <2>1, <2>2
<1>9. CyclesJoined'
  <2>1. /\ CyclesClaimed' = CyclesClaimed /\ CyclesClaimed <= dsTruth.joins
           /\ CyclesClaimed \in Nat /\ dsTruth.joins \in Nat
    BY <1>1, <1>2, <1>5, <1>6, LeafFacts DEF SleepInv, CyclesJoined, CyclesClaimed
  <2> QED BY <1>3, <2>1 DEF CyclesJoined
<1> QED BY <1>1, <1>2, <1>3, <1>4, <1>7, <1>8, <1>9, LeafFacts, LeafKeeps DEF SameCounts, Awake

LEMMA LeafLeaves ==
  ASSUME SleepInv, enter_deep_sleep \/ RailWobbles
  PROVE  SleepInv'
<1>1. /\ dsLeaf \in Awake \cup {"asleep"} /\ UNCHANGED <<dsLines, dsTrigger, dsPc, dsResult>>
      /\ dsLeaf' = "dark" \/ (dsLeaf = "said" /\ dsLeaf' = "asleep")
  BY DEF enter_deep_sleep, RailWobbles, Awake
<1>2. dsLeaf # "other"
  BY <1>1 DEF Awake
<1>3. dsTier \in DsRecord /\ dsPc \notin BeforeTry /\ dsTruth.joins \in Nat
      /\ dsTier.cycles \in Nat
  BY <1>2, LeafFacts
<1>4. /\ dsTier' \in DsRecord /\ SameCounts /\ SameClaims
      /\ dsTier'.ser = IF dsTier.ser = "open" THEN "stale" ELSE dsTier.ser
      /\ dsTier'.slept = dsTier.slept \/ (dsTier'.slept = TRUE /\ dsLeaf = "said")
  <2>1. CASE enter_deep_sleep
    BY <1>3, <2>1 DEF enter_deep_sleep, PortLost, DsRecord, SameCounts, SameClaims
  <2>2. CASE RailWobbles
    BY <1>3, <2>2 DEF RailWobbles, PortLost, DsRecord, SameCounts, SameClaims
  <2> QED BY <2>1, <2>2
<1>0. /\ dsTruth' \in DsTruths /\ dsTruth'.joins = dsTruth.joins
      /\ dsTruth'.told = dsTruth.told /\ dsTruth'.said = dsTruth.said
      /\ dsTruth'.unsent = dsTruth.unsent
  <2>1. dsTruth' = dsTruth
    BY DEF enter_deep_sleep, RailWobbles
  <2> QED BY <1>2, <2>1, LeafFacts
<1>5. (ReconWaits' <=> ReconWaits) /\ (SleepWaits' <=> SleepWaits)
  BY <1>1 DEF ReconWaits, SleepWaits
<1>6. JoinsSlept'
  BY <1>0, <1>1 DEF SleepInv, JoinsSlept
<1>7. LinesOfOpening'
  BY <1>1, <1>4, <1>5 DEF SleepInv, LinesOfOpening, SameClaims
<1>8. CyclesJoined'
  <2>1. CyclesClaimed' = CyclesClaimed /\ CyclesClaimed \in Nat
    BY <1>3, <1>4, <1>5 DEF CyclesClaimed, SameClaims
  <2>2. CycleDue' => CycleDue \/ dsTruth.told
    BY <1>4, <1>5 DEF CycleDue, SameClaims, SleepInv, JoinsSlept
  <2> QED BY <1>0, <1>1, <1>3, <2>1, <2>2 DEF SleepInv, CyclesJoined
<1> QED BY <1>0, <1>1, <1>2, <1>3, <1>4, <1>6, <1>7, <1>8, LeafFacts, LeafKeeps

-----------------------------------------------------------------------------
(* The tier.                                                               *)

LEMMA TierFacts ==
  ASSUME SleepInv
  PROVE  /\ dsTier \in DsRecord /\ dsLines \in Seq(Said) /\ Len(dsLines) \in Nat
         /\ dsC6 \in C6Record /\ dsC6.rx \in Seq(Commands) /\ Len(dsC6.rx) \in Nat
         /\ dsTruth \in DsTruths
         /\ dsTruth.joins \in Nat /\ dsTier.cycles \in 0 .. Need /\ dsTier.cycles \in Nat
         /\ dsHandle \in [at : {"closed", "live", "dead"}, moves : 0 .. MaxMoves6,
                          orders : 0 .. MaxOrders]
BY SleepBounds
DEF SleepInv, SleepRecords, DsRecord, C6Record, DsTruths

LEMMA BootedTyped ==
  ASSUME SleepInv
  PROVE  Booted(dsC6) \in C6Record /\ Booted(dsC6).rx = <<>>
<1> DEFINE mode == IF dsC6.nvs = "empty" THEN "trigger" ELSE dsC6.nvs
<1>1. dsC6 \in C6Record /\ mode \in Resting \cup {"trigger", "toggle"} /\ <<>> \in Seq(Commands)
  BY EmptySeq DEF SleepInv, SleepRecords, C6Record
<1>2. PinOf(mode) \in Resting
  BY <1>1 DEF PinOf, Resting
<1>3. Booted(dsC6) = [dsC6 EXCEPT !.mode = mode, !.pin = PinOf(mode), !.pulse = "no", !.rx = <<>>]
  BY DEF Booted
<1> HIDE DEF mode
<1> QED BY <1>1, <1>2, <1>3 DEF C6Record

(* A step before the capture: the leaf is not there yet.                   *)
LEMMA EarlyKeeps ==
  ASSUME SleepInv, dsPc \in BeforeTry, UNCHANGED <<dsTruth, dsLines>>,
         dsPc' \in BeforeTry \cup {"capture", "teardown", "over"},
         dsLeaf' = IF dsPc' = "capture" THEN "dark" ELSE dsLeaf,
         dsTier' \in DsRecord, SameClaims, dsTier'.ser = dsTier.ser, dsTier'.slept = dsTier.slept,
         dsTier'.warned = dsTier.warned, dsTier'.lost = dsTier.lost,
         dsC6' \in C6Record,
         dsHandle' \in [at : {"closed", "live", "dead"}, moves : 0 .. MaxMoves6,
                        orders : 0 .. MaxOrders],
         dsResult' \in {<<>>} \cup {<<v>> : v \in {"INCONCLUSIVE", "SKIP"}},
         dsPc' \in BeforeTry \cup {"capture"} => dsResult' = <<>>,
         dsPc' = "over" => ~dsTier'.had,
         dsTier'.had => dsTier'.c6, dsPc' \notin {"idle", "rest"} /\ dsTier'.c6 => dsTier'.wake,
         dsPc' \in {"idle", "rest"} => ~dsTier'.had, dsPc' = "idle" => ~dsTier'.c6,
         dsPc' = "rest" => dsTier'.c6,
         Waiting'
  PROVE  SleepInv'
<1>1. /\ dsLeaf = "other" /\ dsTier.ser = "none" /\ ~dsTier.gone /\ ~dsTier.warned
      /\ ~dsTier.marker /\ ~dsTier.pending /\ dsTier.cycles = 0 /\ Len(dsLines) = 0
  BY DEF SleepInv, BeforeCapture, LinesOfOpening, BeforeTry
<1>2. SleepRecords'
  BY <1>1 DEF SleepInv, SleepRecords, Awake
<1>3. BeforeCapture' /\ JoinsSlept'
  BY <1>1 DEF SleepInv, BeforeCapture, JoinsSlept, SameClaims, BeforeTry
<1>4. LinesOfOpening'
  BY <1>1 DEF SleepInv, LinesOfOpening, SameClaims, ReconWaits, SleepWaits
<1>5. CyclesJoined'
  <2>1. CyclesClaimed' = 0 /\ ~CycleDue'
    BY <1>1 DEF CyclesClaimed, CycleDue, SameClaims, ReconWaits, SleepWaits
  <2> QED BY <2>1, TierFacts DEF CyclesJoined
<1>6. WakeAccounted' /\ Restored'
  BY <1>1 DEF SleepInv, WakeAccounted, Restored
<1> QED BY <1>2, <1>3, <1>4, <1>5, <1>6 DEF SleepInv

LEMMA SleepStarts ==
  ASSUME SleepInv, NEW ready \in BOOLEAN, NEW c6 \in BOOLEAN, NEW reset \in BOOLEAN,
         TierStart(ready, c6, reset)
  PROVE  SleepInv'
<1>1. /\ dsPc = "idle" /\ UNCHANGED <<dsLeaf, dsTruth, dsLines>> /\ dsResult = <<>>
      /\ ~dsTier.had /\ ~dsTier.c6 /\ Len(dsC6.rx) <= 1
  BY DEF TierStart, dsBench, SleepInv, BeforeCapture, BeforeTry, WakeAccounted, Waiting
<1>2. CASE ready
  <2>1. /\ dsPc' = IF c6 THEN "rest" ELSE "ap"
        /\ dsTier' = [dsTier EXCEPT !.c6 = c6]
        /\ dsHandle' = [dsHandle EXCEPT !.at = IF c6 THEN "live" ELSE "closed"]
        /\ dsC6' = IF c6 /\ reset THEN Booted(dsC6) ELSE dsC6
        /\ dsResult' = dsResult
    BY <1>2 DEF TierStart
  <2>2. /\ dsTier' \in DsRecord /\ SameClaims /\ dsTier'.ser = dsTier.ser
           /\ dsTier'.slept = dsTier.slept
        /\ dsTier'.warned = dsTier.warned /\ dsTier'.lost = dsTier.lost
        /\ dsTier'.had = dsTier.had /\ dsTier'.c6 = c6
    BY <2>1, TierFacts DEF DsRecord, SameClaims
  <2>3. dsHandle' \in [at : {"closed", "live", "dead"}, moves : 0 .. MaxMoves6,
                       orders : 0 .. MaxOrders]
    BY <2>1, TierFacts
  <2>4. dsC6' \in C6Record /\ Len(dsC6'.rx) <= 1
    BY <1>1, <2>1, TierFacts, BootedTyped, EmptySeq
  <2>5. Waiting'
    BY <2>1, <2>4, TierFacts DEF Waiting, C6Record
  <2> QED BY <1>1, <2>1, <2>2, <2>3, <2>4, <2>5, EarlyKeeps DEF BeforeTry
<1>3. CASE ~ready
  <2>1. /\ dsPc' = "over" /\ dsResult' = <<"SKIP">> /\ UNCHANGED <<dsTier, dsC6, dsHandle>>
    BY <1>1, <1>3 DEF TierStart, Note, dsTrigger
  <2>2. Waiting'
    BY <1>1, <2>1, TierFacts DEF Waiting
  <2> QED BY <1>1, <2>1, <2>2, TierFacts, EarlyKeeps DEF BeforeTry, SameClaims
<1> QED BY <1>2, <1>3

LEMMA SleepRests ==
  ASSUME SleepInv, RestPin
  PROVE  SleepInv'
<1>1. /\ dsPc = "rest" /\ dsPc' = "ap" /\ UNCHANGED <<dsLeaf, dsTruth, dsLines, dsResult>>
      /\ dsResult = <<>> /\ ~dsTier.had /\ Len(dsC6.rx) <= 1
  BY DEF RestPin, dsBench, SleepInv, BeforeCapture, BeforeTry, WakeAccounted, Waiting
<1>2. CASE dsHandle.at = "live"
  <2>1. /\ dsC6' = [dsC6 EXCEPT !.rx = Append(dsC6.rx, "hiz")]
        /\ dsTier' = [dsTier EXCEPT !.had = TRUE, !.wake = TRUE] /\ UNCHANGED dsHandle
    BY <1>2 DEF RestPin
  <2>2. /\ dsTier' \in DsRecord /\ SameClaims /\ dsTier'.ser = dsTier.ser
           /\ dsTier'.slept = dsTier.slept
        /\ dsTier'.warned = dsTier.warned /\ dsTier'.lost = dsTier.lost
        /\ dsTier'.had /\ dsTier'.wake /\ dsTier'.c6 = dsTier.c6
    BY <2>1, TierFacts DEF DsRecord, SameClaims
  <2>3. Append(dsC6.rx, "hiz") \in Seq(Commands) /\ Len(Append(dsC6.rx, "hiz")) <= 2
    <3>1. "hiz" \in Commands
      BY DEF Commands, Resting
    <3> QED BY <1>1, <3>1, TierFacts, Queued
  <2>4. dsC6' \in C6Record /\ Len(dsC6'.rx) <= 2
    BY <2>1, <2>3, TierFacts DEF C6Record
  <2>5. Waiting'
    BY <1>1, <2>4 DEF Waiting
  <2>6. dsTier.c6
    BY <1>1 DEF SleepInv, WakeAccounted
  <2> QED BY <1>1, <2>1, <2>2, <2>4, <2>5, <2>6, TierFacts, EarlyKeeps DEF BeforeTry
<1>3. CASE dsHandle.at # "live"
  <2>1. /\ dsTier' = [dsTier EXCEPT !.c6 = FALSE]
        /\ dsHandle' = [dsHandle EXCEPT !.at = "closed"] /\ UNCHANGED dsC6
    BY <1>3 DEF RestPin
  <2>2. /\ dsTier' \in DsRecord /\ SameClaims /\ dsTier'.ser = dsTier.ser
           /\ dsTier'.slept = dsTier.slept
        /\ dsTier'.warned = dsTier.warned /\ dsTier'.lost = dsTier.lost
        /\ dsTier'.had = dsTier.had /\ ~dsTier'.c6
    BY <2>1, TierFacts DEF DsRecord, SameClaims
  <2>3. dsHandle' \in [at : {"closed", "live", "dead"}, moves : 0 .. MaxMoves6,
                       orders : 0 .. MaxOrders]
    BY <2>1, TierFacts
  <2>4. Waiting'
    BY <1>1, <2>1, TierFacts DEF Waiting
  <2> QED BY <1>1, <2>1, <2>2, <2>3, <2>4, TierFacts, EarlyKeeps DEF BeforeTry
<1> QED BY <1>2, <1>3

LEMMA SleepFlashes ==
  ASSUME SleepInv, NEW ok \in BOOLEAN, FlashAp(ok) \/ FlashLeaf(ok)
  PROVE  SleepInv'
<1>1. /\ dsPc \in {"ap", "flash"} /\ UNCHANGED <<dsTruth, dsLines, dsC6, dsHandle, dsTier>>
      /\ dsResult = <<>> /\ Len(dsC6.rx) <= 2 /\ (dsTier.had => dsTier.c6)
         /\ (dsTier.c6 /\ ~dsTier.lost => dsTier.wake)
  BY DEF FlashAp, FlashLeaf, dsBench, dsTrigger, SleepInv, BeforeCapture, BeforeTry,
    WakeAccounted, Waiting
<1>2. \/ dsPc' \in {"flash", "capture"} /\ dsResult' = <<>>
      \/ dsPc' = "teardown" /\ dsResult' = <<"INCONCLUSIVE">>
  BY <1>1 DEF FlashAp, FlashLeaf, Note
<1>3. dsLeaf' = IF dsPc' = "capture" THEN "dark" ELSE dsLeaf
  BY DEF FlashAp, FlashLeaf, dsBench
<1>4. Waiting'
  BY <1>1, <1>2 DEF Waiting
<1>5. ~dsTier.lost
  BY <1>1 DEF SleepInv, WakeAccounted, BeforeTry
<1> QED BY <1>1, <1>2, <1>3, <1>4, <1>5, TierFacts, EarlyKeeps DEF BeforeTry, SameClaims

\* What the leaf did is as before; a wake that is not sent now is the run's to account for.
SameTruth ==
  /\ dsTruth' \in DsTruths /\ dsTruth'.joins = dsTruth.joins
  /\ dsTruth'.told = dsTruth.told /\ dsTruth'.said = dsTruth.said
  /\ dsTruth'.unsent => dsTruth.unsent \/ dsTier'.lost

LEMMA TruthKept ==
  ASSUME SleepInv, dsTruth' = dsTruth
  PROVE  SameTruth /\ dsTruth'.joins = dsTruth.joins
BY TierFacts DEF SameTruth

LEMMA WatchKeeps ==
  ASSUME SleepInv, dsPc = "capture", UNCHANGED <<dsLeaf, dsPc, dsResult>>, SameTruth,
         dsTier' \in DsRecord, dsTier'.c6 = dsTier.c6, dsTier'.had = dsTier.had,
         dsTier'.warned = dsTier.warned, dsTier.lost => dsTier'.lost,
         dsTier'.wake = dsTier.wake \/ dsTier'.lost, dsLines' \in Seq(Said),
         dsC6' \in C6Record,
         dsHandle' \in [at : {"closed", "live", "dead"}, moves : 0 .. MaxMoves6,
                        orders : 0 .. MaxOrders],
         Waiting', LinesOfOpening', CyclesJoined'
  PROVE  SleepInv'
<1>1. SleepRecords'
  BY DEF SleepInv, SleepRecords, SameTruth
<1>2. BeforeCapture' /\ JoinsSlept' /\ Restored'
  BY DEF SleepInv, BeforeCapture, JoinsSlept, Restored, BeforeTry, SameTruth
<1>3. WakeAccounted'
  <2>1. dsResult = <<>>
    BY DEF SleepInv, BeforeCapture
  <2> QED BY <2>1 DEF SleepInv, WakeAccounted, BeforeTry, SameTruth
<1> QED BY <1>1, <1>2, <1>3 DEF SleepInv

LEMMA SleepSeesGone ==
  ASSUME SleepInv, SeeGone \/ Vanish
  PROVE  SleepInv'
<1>1. /\ dsPc = "capture" /\ UNCHANGED <<dsLeaf, dsTruth, dsC6, dsHandle, dsPc, dsResult>>
      /\ dsTier' = [dsTier EXCEPT !.ser = "none", !.gone = TRUE, !.slept = dsLeaf = "asleep"]
      /\ dsLines' = <<>>
  <2>1. CASE SeeGone
    <3>1. dsLines = <<>> /\ dsTier.ser = "none"
      BY <2>1, TierFacts, Emptied DEF SeeGone, SleepInv, LinesOfOpening
    <3>2. dsTier' = [dsTier EXCEPT !.ser = "none", !.gone = TRUE, !.slept = dsLeaf = "asleep"]
      BY <2>1, <3>1, TierFacts DEF SeeGone, DsRecord
    <3> QED BY <2>1, <3>1, <3>2 DEF SeeGone, Watching, dsBench, dsTrigger
  <2>2. CASE Vanish
    BY <2>2 DEF Vanish, Watching, dsTrigger
  <2> QED BY <2>1, <2>2
<1>2. /\ dsTier' \in DsRecord /\ SameCounts /\ dsTier'.marker = dsTier.marker
      /\ dsTier'.pending = dsTier.pending /\ dsTier'.cycles = dsTier.cycles
      /\ dsTier'.gone /\ dsTier'.ser = "none" /\ (dsTier'.slept => dsLeaf = "asleep")
  BY <1>1, TierFacts DEF DsRecord, SameCounts
<1>3. dsLines' \in Seq(Said) /\ Len(dsLines') = 0
  BY <1>1, EmptySeq
<1>4. LinesOfOpening'
  BY <1>1, <1>2, <1>3 DEF LinesOfOpening, ReconWaits, SleepWaits
<1>5. CyclesJoined'
  <2>1. CyclesClaimed' = dsTier.cycles
    BY <1>2, <1>3, TierFacts DEF CyclesClaimed, ReconWaits
  <2>2. CyclesClaimed <= dsTruth.joins
        /\ (dsTier.pending /\ ReconWaits => CyclesClaimed = dsTier.cycles + 1)
        /\ (~(dsTier.pending /\ ReconWaits) => CyclesClaimed = dsTier.cycles)
    BY TierFacts DEF SleepInv, CyclesJoined, CyclesClaimed
  <2>3. CycleDue' => dsTier.pending \/ dsTier.marker \/ dsTruth.told
    BY <1>2, <1>3 DEF CycleDue, ReconWaits, SleepWaits, SleepInv, JoinsSlept
  <2>4. dsTier.marker => CycleDue
    BY DEF CycleDue
  <2>5. dsTier.pending /\ ~ReconWaits => CycleDue
    BY DEF CycleDue
  <2> QED BY <1>1, <2>1, <2>2, <2>3, <2>4, <2>5, TierFacts, TruthKept
       DEF SleepInv, CyclesJoined
<1>6. Waiting'
  BY <1>1 DEF SleepInv, Waiting
<1> QED BY <1>1, <1>2, <1>3, <1>4, <1>5, <1>6, TierFacts, TruthKept, WatchKeeps DEF SameCounts

LEMMA SleepPulses ==
  ASSUME SleepInv, Pulse
  PROVE  SleepInv'
<1>1. /\ dsPc = "capture" /\ UNCHANGED <<dsLeaf, dsLines, dsPc, dsResult>>
      /\ dsC6.rx = <<>>
      /\ dsTruth' = [dsTruth EXCEPT !.unsent = dsTruth.unsent \/ dsHandle'.at = "dead"]
  BY DEF Pulse, Watching
<1>0. /\ dsTruth'.joins = dsTruth.joins /\ dsTruth'.told = dsTruth.told
      /\ dsHandle'.at # "dead" \/ dsTier'.lost => SameTruth
  <2>1. dsTruth \in DsTruths
    BY TierFacts
  <2>2. /\ dsTruth' \in DsTruths /\ dsTruth'.told = dsTruth.told
        /\ dsTruth'.said = dsTruth.said /\ dsTruth'.joins = dsTruth.joins
        /\ dsTruth'.unsent = (dsTruth.unsent \/ dsHandle'.at = "dead")
    BY <1>1, <2>1, Zenon DEF DsTruths
  <2> QED BY <2>2 DEF SameTruth
<1>2. \/ (\E c \in {dsC6, Booted(dsC6)} : PulseWritten(c)) \/ PulseLost
  BY DEF Pulse
<1>3. CASE PulseLost
  <2>1. dsTier' = [dsTier EXCEPT !.wake = FALSE, !.lost = TRUE] /\ UNCHANGED <<dsC6, dsHandle>>
    BY <1>3 DEF PulseLost, dsTrigger
  <2>2. /\ dsTier' \in DsRecord /\ SameClaims /\ dsTier'.ser = dsTier.ser
           /\ dsTier'.slept = dsTier.slept
        /\ dsTier'.warned = dsTier.warned /\ dsTier'.lost
        /\ dsTier'.had = dsTier.had /\ dsTier'.c6 = dsTier.c6
    BY <2>1, TierFacts DEF DsRecord, SameClaims
  <2>3. LinesOfOpening'
    BY <1>1, <2>2 DEF SleepInv, LinesOfOpening, ReconWaits, SleepWaits, SameClaims
  <2>4. CyclesJoined'
    BY <1>0, <1>1, <2>2 DEF SleepInv, CyclesJoined, CyclesClaimed, CycleDue, ReconWaits,
       SleepWaits,
      SameClaims
  <2>5. Waiting'
    BY <1>1, <2>1 DEF SleepInv, Waiting
  <2> QED BY <1>0, <1>1, <2>1, <2>2, <2>3, <2>4, <2>5, TierFacts, WatchKeeps
<1>4. ASSUME NEW c \in {dsC6, Booted(dsC6)}, PulseWritten(c)
      PROVE  SleepInv'
  <2>1. c \in C6Record /\ c.rx = <<>>
    BY <1>1, <1>4, TierFacts, BootedTyped
  <2>2. /\ dsC6' = [c EXCEPT !.rx = Append(c.rx, "pulse")]
        /\ dsHandle' = [dsHandle EXCEPT !.at = "live"] /\ UNCHANGED dsTier
    BY <1>4 DEF PulseWritten
  <2>3. Append(c.rx, "pulse") \in Seq(Commands) /\ Len(Append(c.rx, "pulse")) = 1
    <3>1. "pulse" \in Commands /\ <<>> \in Seq(Commands) /\ Len(<<>>) = 0
      BY EmptySeq DEF Commands
    <3> QED BY <2>1, <3>1, Queued
  <2>4. dsC6' \in C6Record /\ Len(dsC6'.rx) = 1
    BY <2>1, <2>2, <2>3 DEF C6Record
  <2>5. dsHandle' \in [at : {"closed", "live", "dead"}, moves : 0 .. MaxMoves6,
                       orders : 0 .. MaxOrders]
    BY <2>2, TierFacts
  <2>9. SameTruth
    <3>1. dsHandle'.at = "live"
      BY <2>2, TierFacts
    <3> QED BY <1>0, <3>1
  <2>6. LinesOfOpening'
    BY <1>1, <2>2 DEF SleepInv, LinesOfOpening, ReconWaits, SleepWaits
  <2>7. CyclesJoined'
    BY <1>0, <1>1, <2>2 DEF SleepInv, CyclesJoined, CyclesClaimed, CycleDue, ReconWaits,
       SleepWaits
  <2>8. Waiting'
    BY <1>1, <2>4 DEF Waiting
  <2> QED BY <1>1, <2>2, <2>4, <2>5, <2>6, <2>7, <2>8, <2>9, TierFacts, WatchKeeps
<1> QED BY <1>2, <1>3, <1>4

LEMMA SleepOpens ==
  ASSUME SleepInv, NEW long \in BOOLEAN, OpenPort(long)
  PROVE  SleepInv'
<1>1. /\ dsPc = "capture" /\ dsTier.ser = "none" /\ dsLeaf \in Awake
      /\ UNCHANGED <<dsLeaf, dsTruth, dsC6, dsHandle, dsPc, dsResult>>
      /\ long => dsTier.slept /\ dsTier.gone
      /\ dsLines' = <<>>
  BY DEF OpenPort, Watching, Port, dsTrigger
<1>2. /\ dsTier' \in DsRecord /\ SameCounts /\ dsTier'.cycles = dsTier.cycles
      /\ dsTier'.ser = "open" /\ ~dsTier'.gone
      /\ dsTier'.pending => dsTier.pending \/ (dsTier.gone /\ (dsTier.marker \/ long))
      /\ dsTier'.marker => dsTier.marker /\ ~dsTier.gone
  <2> DEFINE p == dsTier.pending \/ (dsTier.gone /\ (dsTier.marker \/ long))
             m == dsTier.marker /\ ~dsTier.gone
  <2>1. dsTier' = [dsTier EXCEPT !.ser = "open", !.gone = FALSE, !.pending = p, !.marker = m]
    BY DEF OpenPort
  <2>2. p \in BOOLEAN /\ m \in BOOLEAN
    BY TierFacts DEF DsRecord
  <2> HIDE DEF p, m
  <2>3. /\ dsTier' \in DsRecord /\ SameCounts /\ dsTier'.cycles = dsTier.cycles
        /\ dsTier'.ser = "open" /\ dsTier'.gone = FALSE /\ dsTier'.pending = p
           /\ dsTier'.marker = m
    BY <2>1, <2>2, TierFacts DEF DsRecord, SameCounts
  <2> QED BY <2>3 DEF p, m
<1>3. dsLines' \in Seq(Said) /\ Len(dsLines') = 0 /\ Len(dsLines) = 0
  BY <1>1, EmptySeq DEF SleepInv, LinesOfOpening
<1>4. ~dsTier'.marker
  BY <1>1, <1>2 DEF SleepInv, LinesOfOpening
<1>5. LinesOfOpening'
  BY <1>1, <1>2, <1>3, <1>4 DEF LinesOfOpening, ReconWaits, SleepWaits
<1>6. CyclesJoined'
  <2>1. CyclesClaimed' = dsTier.cycles /\ CyclesClaimed = dsTier.cycles
    BY <1>2, <1>3, TierFacts DEF CyclesClaimed, ReconWaits
  <2>2. CycleDue' => CycleDue
    BY <1>1, <1>2, <1>3, <1>4 DEF CycleDue, ReconWaits, SleepWaits
  <2> QED BY <1>1, <2>1, <2>2, TierFacts, TruthKept DEF SleepInv, CyclesJoined
<1>7. Waiting'
  BY <1>1 DEF SleepInv, Waiting
<1> QED BY <1>1, <1>2, <1>3, <1>5, <1>6, <1>7, TierFacts, TruthKept, WatchKeeps DEF SameCounts

LEMMA SleepReads ==
  ASSUME SleepInv, ReadLine
  PROVE  SleepInv'
<1>1. /\ dsPc = "capture" /\ dsTier.cycles < Need /\ dsLines # <<>> /\ dsLines' = Tail(dsLines)
      /\ UNCHANGED <<dsLeaf, dsTruth, dsC6, dsHandle, dsPc, dsResult>>
  BY DEF ReadLine, Watching, dsTrigger
<1>2. /\ dsLines' \in Seq(Said) /\ Len(dsLines') = Len(dsLines) - 1 /\ Len(dsLines) \in Nat \ {0}
      /\ Head(dsLines) = dsLines[1] /\ Head(dsLines) \in Said
      /\ \A i \in 1 .. Len(dsLines) - 1 : dsLines'[i] = dsLines[i + 1]
  BY <1>1, TierFacts, Taken
<1>3. Len(dsLines) = 1 \/ Len(dsLines) = 2
  <2>1. Len(dsLines) \in 0 .. 2
    BY DEF SleepInv, LinesOfOpening
  <2> QED BY <1>2, <2>1
<1>4. dsTier.ser # "none" /\ (dsTier.ser = "open" => dsLeaf \in Awake)
  BY <1>2 DEF SleepInv, LinesOfOpening
<1>5. ~ReconWaits'
  <2>1. CASE Len(dsLines) = 1
    BY <1>2, <2>1 DEF ReconWaits
  <2>2. CASE Len(dsLines) = 2
    <3>1. dsLines[2] = "DEEP-SLEEP"
      BY <2>2 DEF SleepInv, LinesOfOpening, SleepWaits
    <3>2. dsLines'[1] = "DEEP-SLEEP"
      BY <1>2, <2>2, <3>1
    <3> QED BY <3>2 DEF ReconWaits
  <2> QED BY <1>3, <2>1, <2>2
<1>6. SleepWaits' => SleepWaits
  <2>1. CASE Len(dsLines) = 1
    BY <1>2, <2>1 DEF SleepWaits
  <2>2. CASE Len(dsLines) = 2
    BY <2>2 DEF SleepInv, LinesOfOpening
  <2> QED BY <1>3, <2>1, <2>2
<1>7. Waiting'
  BY <1>1 DEF SleepInv, Waiting
<1>8. Len(dsLines') \in 0 .. 1
  BY <1>2, <1>3
<1>9. CASE Head(dsLines) = "DEEP-SLEEP"
  <2>1. dsTier' = [dsTier EXCEPT !.marker = TRUE]
    BY <1>9 DEF ReadLine
  <2>2. /\ dsTier' \in DsRecord /\ SameCounts /\ dsTier'.cycles = dsTier.cycles
           /\ dsTier'.pending = dsTier.pending
        /\ dsTier'.ser = dsTier.ser /\ dsTier'.gone = dsTier.gone /\ dsTier'.slept = dsTier.slept
    BY <2>1, TierFacts DEF DsRecord, SameCounts
  <2>3. ~ReconWaits /\ SleepWaits
    <3>1. ~ReconWaits
      BY <1>2, <1>9 DEF ReconWaits
    <3>2. Len(dsLines) = 1
      BY <1>3, <3>1 DEF SleepInv, LinesOfOpening
    <3> QED BY <1>2, <1>9, <3>1, <3>2 DEF SleepWaits
  <2>4. dsTier.ser = "open" => dsLeaf \notin {"hold", "window", "connect", "up"}
    BY <1>2, <2>3 DEF SleepInv, LinesOfOpening
  <2>5. LinesOfOpening'
    <3>1. Len(dsLines') \in 0 .. 2 /\ ~(Len(dsLines') = 2)
      BY <1>8
    <3>2. dsTier'.ser # "none" /\ (dsTier'.ser = "open" => dsLeaf' \in Awake) /\ dsPc' = "capture"
      BY <1>1, <1>4, <2>2
    <3>3. dsTier'.ser = "open" => dsLeaf' \notin {"hold", "window", "connect", "up"}
      BY <1>1, <2>2, <2>4
    <3> QED BY <1>5, <3>1, <3>2, <3>3 DEF LinesOfOpening
  <2>6. CyclesClaimed' = CyclesClaimed
    BY <1>5, <2>2, <2>3 DEF CyclesClaimed
  <2>7. CycleDue
    BY <2>3 DEF CycleDue
  <2>8. CyclesJoined'
    BY <1>1, <2>6, <2>7, TierFacts, TruthKept DEF SleepInv, CyclesJoined
  <2> QED BY <1>1, <1>2, <1>7, <2>2, <2>5, <2>8, TierFacts, TruthKept, WatchKeeps DEF SameCounts
<1>10. CASE Head(dsLines) = "RECONNECTED"
  <2>1. dsTier' = [dsTier EXCEPT !.recons = 1, !.pending = FALSE,
                       !.cycles = IF dsTier.pending THEN dsTier.cycles + 1 ELSE dsTier.cycles]
    BY <1>10 DEF ReadLine
  <2>2. dsTier.cycles + 1 \in 0 .. Need
    <3>1. dsTier.cycles < Need
      BY <1>1
    <3> QED BY <3>1, TierFacts, SleepBounds
  <2>3. /\ dsTier' \in DsRecord /\ SameCounts
        /\ dsTier'.cycles = IF dsTier.pending THEN dsTier.cycles + 1 ELSE dsTier.cycles
        /\ ~dsTier'.pending /\ dsTier'.marker = dsTier.marker
        /\ dsTier'.ser = dsTier.ser /\ dsTier'.gone = dsTier.gone /\ dsTier'.slept = dsTier.slept
    <3> DEFINE n == IF dsTier.pending THEN dsTier.cycles + 1 ELSE dsTier.cycles
    <3>1. n \in 0 .. Need /\ 1 \in 0 .. 1
      BY <2>2, TierFacts DEF DsRecord
    <3>2. dsTier' = [dsTier EXCEPT !.recons = 1, !.pending = FALSE, !.cycles = n]
      BY <2>1
    <3> HIDE DEF n
    <3>3. /\ dsTier' \in DsRecord /\ SameCounts /\ dsTier'.cycles = n
          /\ dsTier'.pending = FALSE /\ dsTier'.marker = dsTier.marker
          /\ dsTier'.ser = dsTier.ser /\ dsTier'.gone = dsTier.gone
             /\ dsTier'.slept = dsTier.slept
      BY <3>1, <3>2, TierFacts DEF DsRecord, SameCounts
    <3> QED BY <3>3 DEF n
  <2>4. ReconWaits /\ ~dsTier.marker
    <3>1. ReconWaits
      BY <1>2, <1>10 DEF ReconWaits
    <3> QED BY <3>1 DEF SleepInv, LinesOfOpening
  <2>5. dsTier.ser = "open" => dsLeaf \notin {"hold", "window", "connect"}
    BY <1>2 DEF SleepInv, LinesOfOpening
  <2>6. LinesOfOpening'
    <3>1. Len(dsLines') \in 0 .. 2 /\ ~(Len(dsLines') = 2)
      BY <1>8
    <3>2. dsTier'.ser # "none" /\ (dsTier'.ser = "open" => dsLeaf' \in Awake) /\ dsPc' = "capture"
      BY <1>1, <1>4, <2>3
    <3>3. dsTier'.ser = "open" => dsLeaf' \notin {"hold", "window", "connect"}
      BY <1>1, <2>3, <2>5
    <3>4. dsTier.ser = "open" /\ dsLeaf = "up" => ~SleepWaits
      BY DEF SleepInv, LinesOfOpening
    <3>5. ~dsTier'.marker
      BY <2>3, <2>4
    <3>6. dsTier'.ser = "open" /\ dsLeaf' = "up" => ~SleepWaits'
      BY <1>1, <1>6, <2>3, <3>4
    <3> QED BY <1>5, <3>1, <3>2, <3>3, <3>5, <3>6 DEF LinesOfOpening
  <2>7. CyclesClaimed' = CyclesClaimed
    BY <1>5, <2>3, <2>4, TierFacts DEF CyclesClaimed
  <2>8. CycleDue' => CycleDue
    BY <1>5, <1>6, <2>3 DEF CycleDue
  <2>9. CyclesJoined'
    BY <1>1, <2>7, <2>8, TierFacts, TruthKept DEF SleepInv, CyclesJoined
  <2> QED BY <1>1, <1>2, <1>7, <2>3, <2>6, <2>9, TierFacts, TruthKept, WatchKeeps DEF SameCounts
<1> QED BY <1>2, <1>9, <1>10 DEF Said

-----------------------------------------------------------------------------
(* The verdict, and the finally.                                           *)

LEMMA SleepVerdicts ==
  ASSUME SleepInv, Verdict
  PROVE  SleepInv'
<1>1. /\ dsPc = "capture" /\ dsPc' = "teardown" /\ UNCHANGED <<dsLeaf, dsTruth, dsC6, dsHandle>>
      /\ dsTier' = [dsTier EXCEPT !.ser = "none"] /\ dsLines' = <<>>
      /\ dsResult = <<>> /\ ~dsTier.warned
  BY DEF Verdict, dsTrigger, SleepInv, BeforeCapture
<1>2. /\ dsTier' \in DsRecord /\ SameCounts /\ SameClaims /\ dsTier'.ser = "none"
  BY <1>1, TierFacts DEF DsRecord, SameCounts, SameClaims
<1>3. dsLines' \in Seq(Said) /\ Len(dsLines') = 0
  BY <1>1, EmptySeq
<1>4. /\ dsResult' \in {<<v>> : v \in {"PASS", "FAIL", "INCONCLUSIVE", "SKIP"}}
      /\ dsTier.lost => dsResult' # <<"FAIL">>
  <2>1. \E v \in {"PASS", "FAIL", "INCONCLUSIVE"} : dsResult' = Append(dsResult, v)
        /\ (dsTier.lost => v # "FAIL")
    BY DEF Verdict, Note
  <2>2. PICK v \in {"PASS", "FAIL", "INCONCLUSIVE"} : dsResult' = <<v>>
             /\ (dsTier.lost => v # "FAIL")
    BY <1>1, <2>1
  <2> QED BY <2>2
<1>5. SleepRecords'
  BY <1>1, <1>2, <1>3, <1>4, TierFacts DEF SleepInv, SleepRecords
<1>6. Waiting'
  BY <1>1 DEF SleepInv, Waiting
<1>7. BeforeCapture' /\ JoinsSlept' /\ Restored'
  BY <1>1 DEF SleepInv, BeforeCapture, JoinsSlept, Restored, BeforeTry
<1>8. LinesOfOpening'
  BY <1>1, <1>2, <1>3 DEF LinesOfOpening, ReconWaits, SleepWaits
<1>9. CyclesJoined'
  <2>1. CyclesClaimed' = dsTier.cycles
    BY <1>2, <1>3, TierFacts DEF CyclesClaimed, ReconWaits, SameClaims
  <2>2. dsTier.cycles <= CyclesClaimed /\ CyclesClaimed \in Nat
    BY TierFacts DEF CyclesClaimed
  <2> QED BY <1>1, <2>1, <2>2, TierFacts DEF SleepInv, CyclesJoined
<1>10. WakeAccounted'
  BY <1>1, <1>2, <1>4 DEF SleepInv, WakeAccounted, SameCounts, BeforeTry
<1> QED BY <1>5, <1>6, <1>7, <1>8, <1>9, <1>10 DEF SleepInv

LEMMA SleepTearsDown ==
  ASSUME SleepInv, Teardown
  PROVE  SleepInv'
<1>1. /\ dsPc = "teardown" /\ dsPc' = "over" /\ dsLeaf' \in {dsLeaf, "other"}
      /\ UNCHANGED <<dsTruth, dsLines, dsResult>> /\ Len(dsC6.rx) <= 2
      /\ dsHandle' = [dsHandle EXCEPT !.at = "closed"]
  BY DEF Teardown, SleepInv, Waiting
<1>2. dsTier.ser = "none"
  BY <1>1 DEF SleepInv, LinesOfOpening
<1>3. /\ dsC6' \in C6Record /\ Len(dsC6'.rx) <= 3
      /\ dsTier' \in DsRecord /\ SameClaims /\ dsTier'.ser = "none"
      /\ dsTier'.c6 = dsTier.c6 /\ dsTier'.had = dsTier.had
      /\ dsTier'.wake = dsTier.wake /\ dsTier'.lost = dsTier.lost
      /\ dsTier.c6 /\ ~dsTier'.warned => dsC6'.rx # <<>> /\ dsC6'.rx[Len(dsC6'.rx)] = "trigger"
  <2>1. \/ ~dsTier.c6 /\ UNCHANGED <<dsC6, dsTier>>
        \/ dsTier' = [dsTier EXCEPT !.warned = TRUE] /\ UNCHANGED dsC6
        \/ \E c \in {dsC6, Booted(dsC6)} : RestoreTrigger(c)
    BY DEF Teardown
  <2>2. CASE ~dsTier.c6 /\ UNCHANGED <<dsC6, dsTier>>
    BY <1>1, <1>2, <2>2, TierFacts DEF SameClaims, C6Record
  <2>3. CASE dsTier' = [dsTier EXCEPT !.warned = TRUE] /\ UNCHANGED dsC6
    <3>1. /\ dsTier' \in DsRecord /\ SameClaims /\ dsTier'.ser = dsTier.ser
          /\ dsTier'.c6 = dsTier.c6 /\ dsTier'.had = dsTier.had /\ dsTier'.warned
          /\ dsTier'.wake = dsTier.wake /\ dsTier'.lost = dsTier.lost
      BY <2>3, TierFacts DEF DsRecord, SameClaims
    <3> QED BY <1>1, <1>2, <2>3, <3>1, TierFacts DEF C6Record
  <2>4. ASSUME NEW c \in {dsC6, Booted(dsC6)}, RestoreTrigger(c)
        PROVE  /\ dsC6' \in C6Record /\ Len(dsC6'.rx) <= 3 /\ dsTier' = dsTier
               /\ dsC6'.rx # <<>> /\ dsC6'.rx[Len(dsC6'.rx)] = "trigger"
    <3>1. c \in C6Record /\ c.rx \in Seq(Commands) /\ Len(c.rx) \in 0 .. 2
      <4>1. Booted(dsC6) \in C6Record /\ Booted(dsC6).rx = <<>>
        BY TierFacts, BootedTyped
      <4>2. PICK n \in Nat : Len(dsC6.rx) = n
        BY TierFacts
      <4>3. n <= 2
        BY <1>1, <4>2
      <4>4. Len(dsC6.rx) \in 0 .. 2
        BY <4>2, <4>3
      <4> QED BY <2>4, <4>1, <4>4, TierFacts, EmptySeq DEF C6Record
    <3>2. "trigger" \in Commands
      BY DEF Commands
    <3> DEFINE rx == Append(c.rx, "trigger")
    <3>3. rx \in Seq(Commands) /\ rx # <<>> /\ Len(rx) = Len(c.rx) + 1
          /\ rx[Len(c.rx) + 1] = "trigger"
      BY <3>1, <3>2, Queued
    <3>4. dsC6' = [c EXCEPT !.rx = rx] /\ dsTier' = dsTier
      BY <2>4 DEF RestoreTrigger
    <3> HIDE DEF rx
    <3>5. dsC6' \in C6Record /\ dsC6'.rx = rx
      BY <3>1, <3>3, <3>4 DEF C6Record
    <3>6. Len(rx) <= 3
      <4>1. PICK n \in 0 .. 2 : Len(c.rx) = n
        BY <3>1
      <4> QED BY <3>3, <4>1
    <3> QED BY <3>3, <3>4, <3>5, <3>6
  <2> QED BY <1>2, <2>1, <2>2, <2>3, <2>4, TierFacts DEF SameClaims
<1>4. dsHandle' \in [at : {"closed", "live", "dead"}, moves : 0 .. MaxMoves6,
                     orders : 0 .. MaxOrders]
  BY <1>1, TierFacts
<1>5. SleepRecords'
  BY <1>1, <1>3, <1>4 DEF SleepInv, SleepRecords
<1>6. Waiting'
  BY <1>1, <1>3 DEF Waiting
<1>7. BeforeCapture' /\ JoinsSlept'
  BY <1>1 DEF SleepInv, BeforeCapture, JoinsSlept, BeforeTry
<1>8. LinesOfOpening'
  BY <1>1, <1>2, <1>3 DEF SleepInv, LinesOfOpening, ReconWaits, SleepWaits, SameClaims
<1>9. CyclesJoined'
  BY <1>1, <1>3 DEF SleepInv, CyclesJoined, CyclesClaimed, ReconWaits, SameClaims
<1>10. WakeAccounted'
  BY <1>1, <1>3 DEF SleepInv, WakeAccounted, BeforeTry
<1>11. Restored'
  BY <1>3 DEF SleepInv, WakeAccounted, Restored
<1> QED BY <1>5, <1>6, <1>7, <1>8, <1>9, <1>10, <1>11 DEF SleepInv

-----------------------------------------------------------------------------
LEMMA SleepStutters ==
  ASSUME SleepInv, UNCHANGED dsVars
  PROVE  SleepInv'
<1>1. UNCHANGED <<dsBench, dsRun>> /\ UNCHANGED <<dsC6, dsHandle, dsPc, dsTier>>
  BY DEF dsVars, dsTrigger, dsRun
<1>2. Waiting' /\ Restored'
  BY <1>1 DEF SleepInv, Waiting, Restored
<1> QED BY <1>1, <1>2, TriggerKeeps DEF SleepInv, SleepRecords

LEMMA SleepStep ==
  ASSUME SleepInv, [SleepNext]_dsVars
  PROVE  SleepInv'
<1>1. CASE handle_line \/ service_mode \/ pulse_low
  BY <1>1, SleepHandles, SleepServices
<1>2. CASE UsbMoves
           \/ \E cmd \in {"high", "low", "hiz", "toggle", "trigger", "pulse", "save",
                          "default"} : Order(cmd)
  BY <1>2, SleepOrders DEF Commands, Resting
<1>3. CASE FreshBoot \/ WindowOver \/ \E cause \in {"ext1", "timer"} : Wake(cause)
  BY <1>3, LeafMoves
<1>4. CASE SaySleep \/ enter_deep_sleep \/ RailWobbles
  BY <1>4, LeafSaysSleep, LeafLeaves
<1>5. ASSUME NEW b \in BOOLEAN, Connect(b) \/ FlashAp(b) \/ FlashLeaf(b) \/ OpenPort(b)
      PROVE  SleepInv'
  <2>1. CASE Connect(b)
    <3>1. Connect(TRUE) \/ Connect(FALSE)
      BY <2>1
    <3> QED BY <3>1, LeafConnects, LeafMoves
  <2> QED BY <1>5, <2>1, SleepFlashes, SleepOpens
<1>6. CASE \E ready, c6, reset \in BOOLEAN : TierStart(ready, c6, reset)
  BY <1>6, SleepStarts
<1>7. CASE RestPin \/ SeeGone \/ Pulse \/ Vanish
  BY <1>7, SleepRests, SleepSeesGone, SleepPulses
<1>8. CASE ReadLine \/ Verdict \/ Teardown
  BY <1>8, SleepReads, SleepVerdicts, SleepTearsDown
<1>9. CASE UNCHANGED dsVars
  BY <1>9, SleepStutters
<1> QED BY <1>1, <1>2, <1>3, <1>4, <1>5, <1>6, <1>7, <1>8, <1>9 DEF SleepNext

(* The tier counts no cycle that the leaf did not sleep and join for,       *)
(* never fails a leaf whose trigger died under the run, and leaves the      *)
(* trigger free-running or says that it does not (run of dscycle.py); for   *)
(* any sleeps, cycles to count, moves of the port and orders.               *)
THEOREM DeepSleepFair == SleepSpec => [](SleepTypeOK /\ SleepVerdictFair /\ TriggerRestored)
<1>1. SleepInv /\ [SleepNext]_dsVars => SleepInv'
  BY SleepStep
<1> QED BY <1>1, SleepInvInit, SleepTyped, PTL DEF SleepSpec

-----------------------------------------------------------------------------
(* THE SUPPLY OF BOARD2.  Both tiers drive it, and a holder of its own      *)
(* keeps it between them.  RailInv says at which places of a tier no holder *)
(* can be about to open the port, and which are found and gone.             *)

(* The places behind the scan for processes, and those behind the signals. *)
Scanned == {"signal", "unlink", "cycle", "off", "recovered", "measure"}
Signalled == Scanned \ {"signal"}

(* No holder is about to open its port while the tier takes the supply.    *)
NoneComing == prTier.at \in Scanned => \A p \in Pids : prProc[p] # "starting"

(* What has the PPK2 open, and what the file names, was found by the scan  *)
(* and is gone after the signals.                                          *)
Found ==
  /\ prTier.at = "signal" => _pids_holding \cup _pidfile_holder \subseteq prTier.targets
  /\ prTier.at \in Signalled => _pids_holding = {}
  /\ prTier.at \in Signalled \ {"measure"} => _pidfile_holder = {}

(* Where the tier has a handle, and where its teardown has not begun.      *)
RailPlaces ==
  /\ prTier.fd => prTier.at \in {"off", "measure"}
  /\ prTier.at \in {"ensure", "await", "tests", "measure"} => prTier.phase # "teardown"

RailInv == RailTypeOK /\ NoneComing /\ Found /\ RailPlaces /\ RailLeftHeld

-----------------------------------------------------------------------------
(* The first state.                                                        *)
LEMMA RailInvInit == RailInit => RailInv
BY RailBounds DEF RailInit, Holders, RailInv, RailTypeOK, NoneComing, Found, RailPlaces,
     RailLeftHeld, Scanned, Signalled

(* A step of a holder: none comes to its start while the tier is at work,  *)
(* nothing is opened that was not starting, no file is written but by the  *)
(* holder that opens; a holder that is lost excuses the tier.              *)
LEMMA HolderSteps ==
  ASSUME RailInv, NEW p \in Pids,
         HolderOpens(p) \/ HolderQuits(p) \/ HolderDies(p) \/ ByHand(p)
  PROVE  RailInv'
<1>1. CASE HolderOpens(p)
  <2>1. RailTypeOK'
    BY <1>1 DEF RailInv, RailTypeOK, HolderOpens, Excused, Holders
  <2>2. NoneComing'
    BY <1>1 DEF RailInv, RailTypeOK, NoneComing, Scanned, HolderOpens, Excused
  <2>3. Found'
    BY <1>1 DEF RailInv, RailTypeOK, NoneComing, Found, Signalled, Scanned,
       HolderOpens, Excused, _pids_holding, _pidfile_holder
  <2>4. RailPlaces'
    BY <1>1 DEF RailInv, RailTypeOK, RailPlaces, HolderOpens, Excused
  <2>5. RailLeftHeld'
    BY <1>1 DEF RailInv, RailTypeOK, Found, Signalled, Scanned, RailLeftHeld, RailPlaces,
       HolderOpens, Excused, Holders
  <2> QED BY <2>1, <2>2, <2>3, <2>4, <2>5 DEF RailInv
<1>2. CASE HolderQuits(p)
  <2>1. RailTypeOK'
    BY <1>2, RailBounds DEF RailInv, RailTypeOK, HolderQuits, _remove_pidfile, Excused, Holders
  <2>2. NoneComing'
    BY <1>2 DEF RailInv, RailTypeOK, NoneComing, Scanned, HolderQuits, _remove_pidfile, Excused
  <2>3. Found'
    BY <1>2, RailBounds DEF RailInv, RailTypeOK, NoneComing, Found, Signalled, Scanned,
       HolderQuits, _remove_pidfile, Excused, _pids_holding, _pidfile_holder
  <2>4. RailPlaces'
    BY <1>2 DEF RailInv, RailTypeOK, RailPlaces, HolderQuits, _remove_pidfile, Excused
  <2>5. RailLeftHeld'
    BY <1>2 DEF RailInv, RailTypeOK, Found, Signalled, Scanned, RailLeftHeld, RailPlaces,
       HolderQuits, _remove_pidfile, Excused, Holders
  <2> QED BY <2>1, <2>2, <2>3, <2>4, <2>5 DEF RailInv
<1>3. CASE HolderDies(p)
  <2>1. RailTypeOK'
    BY <1>3 DEF RailInv, RailTypeOK, HolderDies, Excused, Holders
  <2>2. NoneComing'
    BY <1>3 DEF RailInv, RailTypeOK, NoneComing, Scanned, HolderDies, Excused
  <2>3. Found'
    BY <1>3 DEF RailInv, RailTypeOK, NoneComing, Found, Signalled, Scanned,
       HolderDies, Excused, _pids_holding, _pidfile_holder
  <2>4. RailPlaces'
    BY <1>3 DEF RailInv, RailTypeOK, RailPlaces, HolderDies, Excused
  <2>5. RailLeftHeld'
    BY <1>3 DEF RailInv, RailTypeOK, Found, Signalled, Scanned, RailLeftHeld, RailPlaces,
       HolderDies, Excused, Holders
  <2> QED BY <2>1, <2>2, <2>3, <2>4, <2>5 DEF RailInv
<1>4. CASE ByHand(p)
  <2>1. RailTypeOK'
    BY <1>4 DEF RailInv, RailTypeOK, ByHand, Idle, Holders
  <2>2. NoneComing'
    BY <1>4 DEF RailInv, RailTypeOK, NoneComing, Scanned, ByHand, Idle
  <2>3. Found'
    BY <1>4 DEF RailInv, RailTypeOK, NoneComing, Found, Signalled, Scanned,
       ByHand, Idle, _pids_holding, _pidfile_holder
  <2>4. RailPlaces'
    BY <1>4 DEF RailInv, RailTypeOK, RailPlaces, ByHand, Idle
  <2>5. RailLeftHeld'
    BY <1>4 DEF RailInv, RailTypeOK, Found, Signalled, Scanned, RailLeftHeld, RailPlaces,
       ByHand, Idle, Holders
  <2> QED BY <2>1, <2>2, <2>3, <2>4, <2>5 DEF RailInv
<1> QED BY <1>1, <1>2, <1>3, <1>4

(* The PPK2 unplugged: what held it is deaf, and still what the file names. *)
LEMMA ReplugStep ==
  ASSUME RailInv, Replug
  PROVE  RailInv'
<1>1. RailTypeOK'
  BY DEF RailInv, RailTypeOK, Replug, Holders
<1>2. /\ prTier'.at = prTier.at /\ prTier'.phase = prTier.phase
      /\ prTier'.targets = prTier.targets /\ ~prTier'.fd /\ prTier'.excused
  BY DEF RailInv, RailTypeOK, Replug
<1>3. ASSUME NEW p \in Pids
      PROVE  /\ prProc'[p] = prProc[p] \/ (prProc[p] # "none" /\ prProc'[p] = "deaf")
             /\ prProc'[p] # "holding"
  <2>1. prProc'[p] = IF prProc[p] = "holding" THEN "deaf" ELSE prProc[p]
    BY DEF Replug
  <2> QED BY <2>1
<1>4. prFile' = prFile
  BY DEF Replug
<1>5. NoneComing' /\ RailPlaces' /\ RailLeftHeld'
  BY <1>2, <1>3 DEF RailInv, NoneComing, RailPlaces, RailLeftHeld, Scanned
<1>6. Found'
  BY <1>2, <1>3, <1>4 DEF RailInv, Found, Signalled, Scanned, _pids_holding, _pidfile_holder
<1> QED BY <1>1, <1>5, <1>6 DEF RailInv

(* A start changes the place, the phase and one process that was none, or  *)
(* excuses the tier.                                                       *)
LEMMA Started ==
  ASSUME RailTypeOK, NEW place, NEW phase, _start_holder(place, phase)
  PROVE  /\ prProc' \in [Pids -> {"none", "other"} \cup Holders]
         /\ prTier'.at = place /\ prTier'.phase = phase
         /\ prTier'.fd = prTier.fd /\ prTier'.n = prTier.n
         /\ prTier'.targets = prTier.targets /\ prTier'.excused \in BOOLEAN
         /\ prTier' = [at |-> place, phase |-> phase, n |-> prTier.n, fd |-> prTier.fd,
                       targets |-> prTier.targets, excused |-> prTier'.excused]
         /\ prTier'.excused \/ \E p \in Pids : prProc'[p] \in Holders
<1>1. CASE \E p \in Pids : /\ prProc' = [prProc EXCEPT ![p] = "starting"]
                          /\ prTier' = [prTier EXCEPT !.at = place, !.phase = phase]
  BY <1>1 DEF RailTypeOK, Holders
<1>2. CASE /\ UNCHANGED prProc
           /\ prTier' = [prTier EXCEPT !.at = place, !.phase = phase, !.excused = TRUE]
  BY <1>2 DEF RailTypeOK
<1> QED BY <1>1, <1>2 DEF _start_holder

(* The power tier: take_over leaves no holder, and MeasureRail none by itself. *)
LEMMA PowerTierSteps ==
  ASSUME RailInv, take_over \/ MeasureRail
  PROVE  RailInv'
<1>1. CASE take_over
  <2>1. RailTypeOK'
    <3>1. prTier.n + 1 \in 0 .. MaxRailRuns
      BY <1>1, RailBounds DEF RailInv, RailTypeOK, take_over
    <3>2. prProc' \in [Pids -> {"none", "other"} \cup Holders]
      BY <1>1 DEF RailInv, RailTypeOK, take_over, Holders
    <3> QED BY <1>1, <3>1, <3>2 DEF RailInv, RailTypeOK, take_over
  <2>2. /\ prTier'.at = "measure" /\ prTier'.phase = "none"
        /\ \A p \in Pids : prProc'[p] \notin Holders
    BY <1>1 DEF RailInv, RailTypeOK, take_over, Holders
  <2> QED BY <2>1, <2>2 DEF RailInv, NoneComing, Found, RailPlaces, RailLeftHeld,
      Scanned, Signalled, Holders, _pids_holding
<1>2. CASE MeasureRail
  BY <1>2, RailBounds DEF RailInv, RailTypeOK, NoneComing, Found, RailPlaces, RailLeftHeld,
     Scanned, Signalled,
     MeasureRail, Holders
<1> QED BY <1>1, <1>2

(* The deep-sleep tier up to its teardown starts holders, kills none.      *)
LEMMA StartSteps ==
  ASSUME RailInv, CycleStart \/ _ensure_holder \/ _await_board2 \/ CycleBody
  PROVE  RailInv'
<1>1. CASE CycleStart
  <2>1. RailTypeOK'
    <3>1. prTier.n + 1 \in 0 .. MaxRailRuns
      BY <1>1, RailBounds DEF RailInv, RailTypeOK, CycleStart
    <3> QED BY <1>1, <3>1 DEF RailInv, RailTypeOK, CycleStart
  <2>2. prTier'.at = "ensure" /\ prTier'.phase = "ensure" /\ prTier'.fd = prTier.fd
    BY <1>1 DEF RailInv, RailTypeOK, CycleStart
  <2> QED BY <1>1, <2>1, <2>2 DEF RailInv, NoneComing, Found, RailPlaces, RailLeftHeld,
      Scanned, Signalled, CycleStart, Idle
<1>2. CASE _ensure_holder
  <2>1. CASE \E place \in {"tests", "await"} : _start_holder(place, "ensure")
    <3>1. PICK place \in {"tests", "await"} : _start_holder(place, "ensure")
      BY <2>1
    <3>2. RailTypeOK' /\ prTier'.at = place /\ prTier'.phase = "ensure" /\ prTier'.fd = prTier.fd
      BY <1>2, <3>1, Started DEF RailInv, RailTypeOK, _ensure_holder
    <3> QED BY <1>2, <3>2 DEF RailInv, NoneComing, Found, RailPlaces, RailLeftHeld,
        Scanned, Signalled, _ensure_holder
  <2>2. CASE (Go("tests") \/ Go("over") \/ Go("free")) /\ UNCHANGED prProc
    BY <1>2, <2>2 DEF RailInv, RailTypeOK, NoneComing, Found, RailPlaces, RailLeftHeld,
       Scanned, Signalled, _ensure_holder, Go, Holders
  <2> QED BY <1>2, <2>1, <2>2 DEF _ensure_holder
<1>3. CASE _await_board2
  BY <1>3, RailBounds DEF RailInv, RailTypeOK, NoneComing, Found, RailPlaces, RailLeftHeld,
     Scanned, Signalled,
     _await_board2, Go, Holders
<1>4. CASE CycleBody
  <2>1. RailTypeOK'
    BY <1>4 DEF RailInv, RailTypeOK, CycleBody, Go, Holders
  <2>2. NoneComing'
    BY <1>4 DEF RailInv, RailTypeOK, NoneComing, Scanned, CycleBody, Go
  <2>3. Found'
    BY <1>4 DEF RailInv, RailTypeOK, NoneComing, Found, Signalled, Scanned,
       CycleBody, Go, _pids_holding, _pidfile_holder
  <2>4. RailPlaces'
    BY <1>4 DEF RailInv, RailTypeOK, RailPlaces, CycleBody, Go
  <2>5. RailLeftHeld'
    BY <1>4 DEF RailInv, RailTypeOK, Found, Signalled, Scanned, RailLeftHeld, RailPlaces,
       CycleBody, Go, Holders
  <2> QED BY <2>1, <2>2, <2>3, <2>4, <2>5 DEF RailInv
<1> QED BY <1>1, <1>2, <1>3, <1>4

(* The scan meets everything that is to be killed; after the signals none  *)
(* of it is left, and the file names nothing that lives.                   *)
LEMMA FreeSteps ==
  ASSUME RailInv, FreeScan \/ FreeSignal \/ FreeUnlink
  PROVE  RailInv'
<1>1. CASE FreeScan
  BY <1>1, RailBounds DEF RailInv, RailTypeOK, NoneComing, Found, RailPlaces, RailLeftHeld,
     Scanned, Signalled,
     FreeScan, Targets, Holders, _pids_holding, _pidfile_holder
<1>2. CASE FreeSignal
  <2>1. /\ RailTypeOK' /\ prTier'.at = "unlink" /\ prTier'.phase = prTier.phase
        /\ prTier'.fd = prTier.fd
    BY <1>2 DEF RailInv, RailTypeOK, FreeSignal
  <2>2. ASSUME NEW p \in Pids
        PROVE  prProc'[p] # "starting" /\ prProc'[p] # "holding"
    BY <1>2 DEF RailInv, RailTypeOK, NoneComing, Found, Scanned, FreeSignal, _pids_holding
  <2>3. _pidfile_holder' = {}
    <3>1. prFile' \in {prFile, NoPid}
      BY <1>2 DEF FreeSignal
    <3>2. prFile \in Pids /\ prProc[prFile] # "none" => prFile \in prTier.targets
      BY <1>2 DEF RailInv, Found, FreeSignal, _pidfile_holder
    <3>3. prFile \in Pids => prProc'[prFile] = "none"
      BY <1>2, <3>2 DEF RailInv, RailTypeOK, FreeSignal
    <3> QED BY <3>1, <3>3, RailBounds DEF _pidfile_holder
  <2> QED BY <1>2, <2>1, <2>2, <2>3 DEF RailInv, NoneComing, Found, RailPlaces, RailLeftHeld,
      Scanned, Signalled, FreeSignal, _pids_holding
<1>3. CASE FreeUnlink
  BY <1>3, RailBounds DEF RailInv, RailTypeOK, NoneComing, Found, RailPlaces, RailLeftHeld,
     Scanned, Signalled,
     FreeUnlink, Go, Holders, _pids_holding, _pidfile_holder
<1> QED BY <1>1, <1>2, <1>3

(* The supply off and on, and a holder for it: none runs behind the        *)
(* signals, so the finally starts one.                                     *)
LEMMA RecoverSteps ==
  ASSUME RailInv, PowerOff \/ PowerOn \/ Rehold \/ RailKill
  PROVE  RailInv'
<1>1. CASE PowerOff
  <2>1. RailTypeOK'
    BY <1>1 DEF RailInv, RailTypeOK, PowerOff, Go, Holders
  <2>2. NoneComing'
    BY <1>1 DEF RailInv, RailTypeOK, NoneComing, Scanned, PowerOff, Go
  <2>3. Found'
    BY <1>1 DEF RailInv, RailTypeOK, NoneComing, Found, Signalled, Scanned,
       PowerOff, Go, _pids_holding, _pidfile_holder
  <2>4. RailPlaces'
    BY <1>1 DEF RailInv, RailTypeOK, RailPlaces, PowerOff, Go
  <2>5. RailLeftHeld'
    BY <1>1 DEF RailInv, RailTypeOK, Found, Signalled, Scanned, RailLeftHeld, RailPlaces,
       PowerOff, Go, Holders
  <2> QED BY <2>1, <2>2, <2>3, <2>4, <2>5 DEF RailInv
<1>2. CASE PowerOn
  <2>1. RailTypeOK'
    BY <1>2 DEF RailInv, RailTypeOK, PowerOn, Holders
  <2>2. NoneComing'
    BY <1>2 DEF RailInv, RailTypeOK, NoneComing, Scanned, PowerOn
  <2>3. Found'
    BY <1>2 DEF RailInv, RailTypeOK, NoneComing, Found, Signalled, Scanned,
       PowerOn, _pids_holding, _pidfile_holder
  <2>4. RailPlaces'
    BY <1>2 DEF RailInv, RailTypeOK, RailPlaces, PowerOn
  <2>5. RailLeftHeld'
    BY <1>2 DEF RailInv, RailTypeOK, Found, Signalled, Scanned, RailLeftHeld, RailPlaces,
       PowerOn, Holders
  <2> QED BY <2>1, <2>2, <2>3, <2>4, <2>5 DEF RailInv
<1>3. CASE Rehold
  <2>1. ~_holder_running
    BY <1>3 DEF RailInv, Found, Signalled, Scanned, Rehold, _holder_running
  <2>2. PICK next \in {<<"await", "again">>, <<"over", "teardown">>} :
          _start_holder(next[1], next[2])
    BY <1>3, <2>1 DEF Rehold
  <2>3. RailTypeOK' /\ prTier'.at = next[1] /\ prTier'.phase = next[2] /\ prTier'.fd = prTier.fd
    BY <1>3, <2>2, Started DEF RailInv, RailTypeOK, Rehold
  <2>4. RailLeftHeld'
    BY <2>2, Started DEF RailInv, RailLeftHeld
  <2> QED BY <1>3, <2>2, <2>3, <2>4 DEF RailInv, NoneComing, Found, RailPlaces,
      Scanned, Signalled, Rehold
<1>4. CASE RailKill
  BY <1>4, RailBounds DEF RailInv, RailTypeOK, NoneComing, Found, RailPlaces, RailLeftHeld,
     Scanned, Signalled,
     RailKill, Idle, Holders
<1> QED BY <1>1, <1>2, <1>3, <1>4

LEMMA RailInvStutter ==
  ASSUME RailInv, UNCHANGED prVars
  PROVE  RailInv'
BY DEF prVars, RailInv, RailTypeOK, NoneComing, Found, RailPlaces, RailLeftHeld,
     Scanned, Signalled, _pids_holding, _pidfile_holder

-----------------------------------------------------------------------------
LEMMA RailInvStep == RailInv /\ [RailNext]_prVars => RailInv'
BY HolderSteps, ReplugStep, PowerTierSteps, StartSteps, FreeSteps, RecoverSteps,
   RailInvStutter DEF RailNext

LEMMA RailInvHolds == RailSpec => []RailInv
BY RailInvInit, RailInvStep, PTL DEF RailSpec

LEMMA RailKeeps == RailInv => RailKept
BY DEF RailInv, Found, RailPlaces, RailKept, RailOwned, Scanned, Signalled

(* The variables keep their types.                                         *)
THEOREM RailTyped == RailSpec => []RailTypeOK
BY RailInvHolds, PTL DEF RailInv

(* The supply has one driver at a time, whatever the PID file says, and a  *)
(* holder when a deep-sleep run has gone through its teardown.             *)
THEOREM RailIsKept == RailSpec => []RailKept
BY RailInvHolds, RailKeeps, PTL

=============================================================================
