------------------------------ MODULE MCRegistry ------------------------------
(* Checks of one scan in parts that share no variable, one scene for each:   *)
(* an image that is looked up, a chart that is checked, and lookups that run *)
(* side by side and share their answers.                                     *)
EXTENDS MCImageCheck, MCIndexCache

VARIABLE scene

cacheVars == vars
mcVars == <<scene, imageVars, chart, cacheVars>>

MCInit ==
  /\ scene \in {"image", "chart", "lookups"}
  /\ ImageInit /\ Init
  /\ scene # "image" => reg = {} /\ req.tag = Untagged /\ req.listing = "whole"
  /\ IF scene = "chart" THEN chart \in Charts ELSE chart = NoChart

MCNext ==
  /\ \/ scene = "image" /\ ImageNext /\ UNCHANGED cacheVars
     \/ scene = "lookups" /\ Next /\ UNCHANGED imageVars
  /\ UNCHANGED <<scene, chart>>

MCSpec == MCInit /\ [][MCNext]_mcVars /\ Fairness
=============================================================================
