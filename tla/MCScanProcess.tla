---------------------------- MODULE MCScanProcess ----------------------------
(* A scan process in parts that share no variable, one scene for each: its   *)
(* goroutines, the scans that compete for its lock, the scans of one of its  *)
(* repositories, and the document it loads.                                  *)
EXTENDS MCScanRun, ScanLock, MCRepoScan

VARIABLE scene

runVars == vars
mcVars == <<scene, runVars, lockVars, repoVars, config>>

(* A process whose first step, Prune, has failed. *)
EndedAtOnce ==
  /\ pc = "exit" /\ exit = 1 /\ nxt = 1
  /\ worker = [r \in Repos |-> "waiting"] /\ outcome = [r \in Repos |-> "none"]
  /\ ctxErr = "none" /\ cancelled = FALSE /\ runErr = "none"
  /\ calls = [r \in Repos |-> 0] /\ stored = [r \in Repos |-> "none"]
  /\ blamed = {} /\ repoErrs = {}

MCInit ==
  /\ scene \in {"run", "lock", "repository", "document"}
  /\ IF scene = "run" THEN Init ELSE EndedAtOnce
  /\ LockInit /\ RepoInit
  /\ scene # "lock" => ~flaky
  /\ scene # "repository" => url = "a"
  /\ IF scene = "document" THEN AnyDocument ELSE config = NoConfig

MCNext ==
  /\ \/ scene = "run" /\ Next /\ UNCHANGED <<lockVars, repoVars>>
     \/ scene = "lock" /\ LockNext /\ UNCHANGED <<runVars, repoVars>>
     \/ scene = "repository" /\ RepoNext /\ UNCHANGED <<runVars, lockVars>>
  /\ UNCHANGED <<scene, config>>

(* Outside its scene a part is at rest: no fairness asks it for a step. *)
MCSpec == MCInit /\ [][MCNext]_mcVars /\ Fairness /\ LockFairness
=============================================================================
