---------------------------- MODULE MCReportWriter ----------------------------
(* Small instances of ReportWriter. *)
EXTENDS ReportWriter

CONSTANTS v1, v2, dA, dB

Outcome(latest, behind, failed, digest) ==
  [latest |-> latest, behind |-> behind, failed |-> failed, digest |-> digest, moved |-> FALSE]

(* A chart reference: up to date, behind, or a lookup that failed. *)
ChartOutcomes ==
  {Outcome(v1, FALSE, FALSE, None), Outcome(v2, TRUE, FALSE, None), Outcome(None, FALSE, TRUE, None)}

(* An image reference whose tag serves one digest, then another; up to date, *)
(* behind, or a lookup that failed. *)
ImageOutcomes ==
  {Outcome(None, FALSE, FALSE, dA), Outcome(v1, TRUE, FALSE, dB), Outcome(v2, TRUE, FALSE, dA),
   Outcome(None, FALSE, TRUE, None)}

(* Every reference has a Dependency name of its own. *)
OwnNames == [x \in Refs |-> x]

(***************************************************************************)
(* Two scenes share a run, because all of it at once is out of TLC's reach:*)
(* "one" is a release that scans one repository with two references again  *)
(* and again; in "many", releases that are installed after each other scan *)
(* two repositories, which leave and rejoin their configurations, with one *)
(* reference each.                                                         *)
(***************************************************************************)
CONSTANTS r1, x1, a
VARIABLE scene

InOne ==
  /\ run' # run => \A w \in Releases : run'[w] # run[w] => w = a /\ run'[w].conf \subseteq {r1}
  /\ \A r \in Repos : call'[a][r].results # call[a][r].results =>
       \A x \in DOMAIN call'[a][r].results : call'[a][r].results[x] \in ImageOutcomes

InMany ==
  \A w \in Releases, r \in Repos : call'[w][r].results # call[w][r].results =>
    /\ DOMAIN call'[w][r].results \subseteq {x1}
    /\ \A x \in DOMAIN call'[w][r].results : call'[w][r].results[x] \in ChartOutcomes

MCInit == Init /\ scene \in {"one", "many"}
MCNext ==
  /\ Next
  /\ scene = "one" => InOne
  /\ scene = "many" => InMany /\ OneScan'
  /\ UNCHANGED scene
MCSpec == MCInit /\ [][MCNext]_<<vars, scene>>

(* Two releases side by side in a namespace, each with a scan Lease of its own. *)
TwoReleases == MCInit /\ scene = "many" /\ [][Next /\ InMany /\ UNCHANGED scene]_<<vars, scene>>

AllOutcomes == ChartOutcomes \cup ImageOutcomes

----------------------------------------------------------------------------
(* What the documentation and the tests say, checked as they say it.       *)

(* writer_test.go: "a repository dropped from the config leaves no reports *)
(* behind" once Prune has run without an error.                            *)
PruneLeavesNothing ==
  [][\A w \in Releases :
       PruneDone(w) => \A r \in Repos \ run[w].conf : Foreign(w, r) \/ Stored(r) = {}]_vars
=============================================================================
