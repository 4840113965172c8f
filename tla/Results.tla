------------------------------- MODULE Results -------------------------------
(***************************************************************************)
(* A result of the regression harness: class Result of                     *)
(* tools/regtest/common.py.  Its details, evidence and duration decide     *)
(* nothing here and are left out, as are the expected failures.            *)
(***************************************************************************)
EXTENDS Naturals, Sequences, FiniteSets

PASS == "PASS"
FAIL == "FAIL"
SKIP == "SKIP"
INCONCLUSIVE == "INCONCLUSIVE"
Status == {PASS, FAIL, SKIP, INCONCLUSIVE}

ResultOf(name, status) == [name |-> name, status |-> status]

\* The places of a name in the list of a run's results.
PlacesOf(results, name) == {k \in DOMAIN results : results[k].name = name}

StatusesOf(results, name) == {results[k].status : k \in PlacesOf(results, name)}

=============================================================================
