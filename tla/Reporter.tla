------------------------------- MODULE Reporter -------------------------------
(***************************************************************************)
(* What a run of the regression harness leaves behind: the baseline        *)
(* <tier>-latest.json that class Reporter of tools/regtest/common.py       *)
(* rewrites after every result, and the run history history.jsonl that     *)
(* append_result of tools/regtest/ledger.py extends by one line.           *)
(*                                                                         *)
(* A run may be killed between any two of its steps ("the environment      *)
(* reaps long processes") and the next run finds the files as they are.    *)
(* The baseline is opened, which empties it, and then written; a line of   *)
(* the history may be cut short.  A write that fails is ignored by add,    *)
(* but ends a run in finalize.                                             *)
(*                                                                         *)
(* What the callers guarantee: a run records a name once (ExactlyOneResult *)
(* of module T2Bench).  The provenance fields of both files are left out.  *)
(***************************************************************************)
EXTENDS Results

CONSTANTS
  Name,       \* the names of results
  Outcome,    \* the statuses they take
  MaxRuns     \* bound: runs of the harness

ASSUME RunBound == MaxRuns \in Nat
ASSUME OutcomeIsStatus == Outcome \subseteq Status

VARIABLES
  disk,     \* the baseline file
  ledger,   \* the history: the lines load_history can parse, and whether
            \* the file ends in a line cut short
  rep,      \* the Reporter of the current run, or of the last one
  hist      \* history: what the runs did, for the properties to compare with

reporterVars == <<disk, ledger, rep, hist>>

Entry == [name : Name, status : Outcome, run : 1 .. MaxRuns]
Names(results) == {r.name : r \in results}

File(state, complete, results) ==
  [state |-> state, complete |-> complete, results |-> results]
Absent == File("absent", FALSE, {})
Torn == File("torn", FALSE, {})        \* empty, or cut short: not JSON

(* add: the result whose add has not returned.  seeded: the names the seed *)
(* had.  returned: results whose add has returned after a line written.    *)
(* killed: kills while a line was half written.                            *)
ReporterInit ==
  /\ disk = Absent
  /\ ledger = [lines |-> {}, torn |-> FALSE]
  /\ rep = [pc |-> "off", run |-> 0, results |-> {}, seed |-> {},
            complete |-> FALSE, add |-> {}, glued |-> FALSE]
  /\ hist = [seeded |-> {}, returned |-> {}, killed |-> 0]

-----------------------------------------------------------------------------
(* Reporter(), and seed_from when the run appends.  A baseline that does   *)
(* not parse seeds nothing: the exception is swallowed.                    *)
ReporterStart(append) ==
  LET seed == IF append /\ disk.state = "whole" THEN disk.results ELSE {} IN
  /\ rep.pc = "off"
  /\ rep.run < MaxRuns
  /\ rep' = [pc |-> "ready", run |-> rep.run + 1, results |-> {}, seed |-> seed,
             complete |-> FALSE, add |-> {}, glued |-> FALSE]
  /\ hist' = [hist EXCEPT !.seeded = Names(seed)]
  /\ UNCHANGED <<disk, ledger>>

\* Slips: a seeded result is not superseded; the seed is not merged.
SupersedeNothing(seed, name) == seed
Supersede(seed, name) == {r \in seed : r.name # name}

MergedOwn(r) == r.results
Merged(r) == r.results \cup r.seed

\* Slip: the result goes under the id of the run to come.
AddToNext(name, status) ==
  LET r == [name |-> name, status |-> status, run |-> rep.run + 1] IN
  /\ rep.pc = "ready"
  /\ name \notin Names(rep.results)
  /\ rep' = [rep EXCEPT !.pc = "body", !.results = @ \cup {r}, !.add = {r},
                        !.seed = Supersede(@, name)]
  /\ disk' = Torn
  /\ UNCHANGED <<ledger, hist>>

\* add: the result is kept, and the baseline opened for writing.
Add(name, status) ==
  LET r == [name |-> name, status |-> status, run |-> rep.run] IN
  /\ rep.pc = "ready"
  /\ name \notin Names(rep.results)
  /\ rep' = [rep EXCEPT !.pc = "body", !.results = @ \cup {r}, !.add = {r},
                        !.seed = Supersede(@, name)]
  /\ disk' = Torn
  /\ UNCHANGED <<ledger, hist>>

\* Slip: every write marks the run complete.
WrittenComplete ==
  disk' \in {File("whole", TRUE, Merged(rep)), Torn}

\* The baseline is written, or the write fails half way.
Written ==
  disk' \in {File("whole", rep.complete, Merged(rep)), Torn}

Body ==
  /\ rep.pc = "body"
  /\ Written
  /\ rep' = [rep EXCEPT !.pc = "line"]
  /\ UNCHANGED <<ledger, hist>>

(* append_result opens the history for appending.  The line is written at  *)
(* the end of the file, whatever that is: after a line that was cut short  *)
(* the new one continues it, and neither parses.                           *)
Line ==
  /\ rep.pc = "line"
  /\ ledger' = [ledger EXCEPT !.torn = TRUE]
  /\ rep' = [rep EXCEPT !.pc = "eol", !.glued = ledger.torn]
  /\ UNCHANGED <<disk, hist>>

NoLine ==
  /\ rep.pc = "line"
  /\ rep' = [rep EXCEPT !.pc = "ready", !.add = {}]
  /\ UNCHANGED <<disk, ledger, hist>>

\* Slip: the history opened for writing.
HistoryTruncated == rep.add
History == ledger.lines \cup (IF rep.glued THEN {} ELSE rep.add)

Eol ==
  /\ rep.pc = "eol"
  /\ ledger' = [lines |-> History, torn |-> FALSE]
  /\ hist' = [hist EXCEPT !.returned = @ \cup rep.add]
  /\ rep' = [rep EXCEPT !.pc = "ready", !.add = {}, !.glued = FALSE]
  /\ UNCHANGED disk

\* finalize: the run is complete, and the baseline written for the last time.
Finalize ==
  /\ rep.pc = "ready"
  /\ rep' = [rep EXCEPT !.pc = "last", !.complete = TRUE]
  /\ disk' = Torn
  /\ UNCHANGED <<ledger, hist>>

LastWrite ==
  /\ rep.pc = "last"
  /\ Written
  /\ rep' = [rep EXCEPT !.pc = "off"]
  /\ UNCHANGED <<ledger, hist>>

\* An exception out of the run, which main does not catch: no finalize.
Raise ==
  /\ rep.pc = "ready"
  /\ rep' = [rep EXCEPT !.pc = "off"]
  /\ UNCHANGED <<disk, ledger, hist>>

\* The process is killed.
Kill ==
  /\ rep.pc # "off"
  /\ rep' = [rep EXCEPT !.pc = "off"]
  /\ hist' = [hist EXCEPT !.killed = @ + (IF rep.pc = "eol" THEN 1 ELSE 0)]
  /\ UNCHANGED <<disk, ledger>>

ReporterNext ==
  \/ \E append \in BOOLEAN : ReporterStart(append)
  \/ \E name \in Name, status \in Outcome : Add(name, status)
  \/ Body \/ Line \/ NoLine \/ Eol
  \/ Finalize \/ LastWrite \/ Raise \/ Kill

ReporterSpec == ReporterInit /\ [][ReporterNext]_reporterVars

-----------------------------------------------------------------------------
ReporterTypeOK ==
  /\ disk \in [state : {"absent", "torn", "whole"}, complete : BOOLEAN,
               results : SUBSET Entry]
  /\ ledger \in [lines : SUBSET Entry, torn : BOOLEAN]
  /\ rep \in [pc : {"off", "ready", "body", "line", "eol", "last"},
              run : 0 .. MaxRuns, results : SUBSET Entry, seed : SUBSET Entry,
              complete : BOOLEAN, add : SUBSET Entry, glued : BOOLEAN]
  /\ hist \in [seeded : SUBSET Name, returned : SUBSET Entry, killed : Nat]

(* "New results with the same name replace the seeded one; the rest carry  *)
(* forward": a baseline that can be read has one result a name, and, once  *)
(* it is of this run, the run's own results and every name of the seed,    *)
(* after any chain of runs, kills and failed writes.                       *)
BaselineAccumulates ==
  disk.state = "whole" =>
    /\ \A r, s \in disk.results : r.name = s.name => r = s
    /\ rep.results # {} /\ rep.results \subseteq disk.results =>
         hist.seeded \subseteq Names(disk.results)
    /\ rep.results \subseteq disk.results \/ rep.results = {}

(* The baseline is marked complete only when it holds a run to its end:    *)
(* "a run REAPED mid-way leaves a baseline marked incomplete".             *)
CompleteIsWhole ==
  disk.state = "whole" /\ disk.complete /\ rep.results # {} =>
    /\ rep.complete
    /\ disk.results = Merged(rep)

(* The history loses at most one recorded result for each kill within a    *)
(* line: the one that continues the line the killed run left.              *)
LedgerKeeps == Cardinality(hist.returned \ ledger.lines) <= hist.killed

(* What was recorded stays: in the baseline until a result of the same     *)
(* name replaces it, in the history but for one result a torn line; and a  *)
(* baseline that misses something of its run does not call itself whole.   *)
NothingLost == BaselineAccumulates /\ CompleteIsWhole /\ LedgerKeeps

=============================================================================
