----------------------------- MODULE MCDashboard -----------------------------
(* What a dashboard does, in parts that share no variable, one scene for     *)
(* each: its processes, the reports it polls, and a scrape of its metrics.   *)
EXTENDS Dashboard, Metrics, ReportFlow

CONSTANT d1  \* a reference

VARIABLE scene

(* Two paths so long that they are cut to the same label value. *)
Cut == [v \in {"s", "x", "long1", "long2", "c1", "c2"} |-> IF v \in {"long1", "long2"} THEN "long" ELSE v]
Kinds == {"auth", "not_found", "other"}

SomeResults ==
  [source : {"s"}, ref : {"x", "long1", "long2"}, type : {"flux"}, change : {"c1", "c2"},
   behind : BOOLEAN, moved : BOOLEAN, error : {"", "auth", "unheard"}, skipped : {0, 2}]
SomeRepos == [name : {"x", "long1", "long2"}, error : {"", "auth", "unheard"}, success : 0 .. 2]

UpTo(n, S) == UNION {[1 .. k -> S] : k \in 0 .. n}

Snapshots ==
  [results : UpTo(2, SomeResults), repos : {<<>>}] \cup [results : {<<>>}, repos : UpTo(2, SomeRepos)]

processVars == vars
mcVars == <<scene, processVars, flowVars, scraped>>

MCInit ==
  /\ scene \in {"processes", "polls", "scrape"}
  /\ Init /\ FlowInit
  /\ scene # "processes" => mode = "local"
  /\ scene # "polls" => ~cached
  /\ IF scene = "scrape" THEN scraped \in Snapshots ELSE scraped = NoSnapshot

(* Bound: in a cluster, reports of one reference. *)
MCNext ==
  /\ \/ scene = "processes" /\ Next /\ UNCHANGED flowVars
     \/ scene = "polls" /\ FlowNext /\ (cached => todo' \subseteq {d1}) /\ UNCHANGED processVars
  /\ UNCHANGED <<scene, scraped>>

(* A part is fair in its scene; elsewhere it does not step at all. *)
MCFairness == (scene = "processes" => Fairness) /\ (scene = "polls" => FlowFairness)

MCSpec == MCInit /\ [][MCNext]_mcVars /\ MCFairness
=============================================================================
