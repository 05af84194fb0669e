-------------------------------- MODULE ScanRun --------------------------------
(***************************************************************************)
(* One scan process that holds the scan lock: runScan of                   *)
(* cmd/update-checker/main.go around Runner.Run of internal/scan/runner.go.*)
(*                                                                         *)
(* The main goroutine prunes, dispatches one worker per repository through *)
(* a semaphore, waits, and accounts for what was not scanned.  A worker    *)
(* scans its repository and records the outcome through Writer.Repo        *)
(* (ReportWriter gives its steps; here it is one that stores or fails).    *)
(* scan_timeout can expire, and SIGTERM or the loss of the Lease can       *)
(* cancel the process, between any two steps.                              *)
(***************************************************************************)
EXTENDS Integers, Sequences, FiniteSets

CONSTANTS
  Order,        \* cfg.Repos: the configured repositories, in order
  Limit,        \* maxConcurrentRepos
  Outcomes,     \* what scanning a repository yields: "ok", "err" or "big"
  HasDeadline   \* scan_timeout is set

Repos == {Order[i] : i \in DOMAIN Order}

ASSUME OrderAssumption ==
  /\ Order \in Seq(Repos) /\ Order # <<>>
  /\ \A i, j \in DOMAIN Order : Order[i] = Order[j] => i = j
ASSUME LimitAssumption == Limit \in Nat \ {0} /\ HasDeadline \in BOOLEAN
ASSUME OutcomesAssumption == Outcomes \subseteq {"ok", "err", "big"}

VARIABLES
  pc,         \* where the main goroutine is
  nxt,        \* runConcurrent: index of the next repository to start
  worker,     \* [Repos -> state of the worker of the repository]
  outcome,    \* [Repos -> what its scan returned]
  ctxErr,     \* ctx.Err() of the Runner's context
  cancelled,  \* ctx.Err() # nil of the process's context
  calls,      \* [Repos -> number of times record was called]
  stored,     \* [Repos -> the phase this process stored for it]
  blamed,     \* repositories recorded after the run, with the run's error
  repoErrs,   \* repositories whose worker failed
  runErr,     \* the error Runner.Run returns
  exit        \* exit status, -1 while running

vars == <<pc, nxt, worker, outcome, ctxErr, cancelled, calls, stored, blamed,
          repoErrs, runErr, exit>>
workerVars == <<worker, outcome>>
recordVars == <<calls, stored, blamed>>
resultVars == <<repoErrs, runErr, exit>>

Init ==
  /\ pc = "prune" /\ nxt = 1
  /\ worker = [r \in Repos |-> "waiting"]
  /\ outcome = [r \in Repos |-> "none"]
  /\ ctxErr = "none" /\ cancelled = FALSE
  /\ calls = [r \in Repos |-> 0]
  /\ stored = [r \in Repos |-> "none"]
  /\ blamed = {} /\ repoErrs = {}
  /\ runErr = "none" /\ exit = -1

----------------------------------------------------------------------------
(* The main goroutine.                                                     *)

(* Writer.Prune: an error ends the process before it scans anything. *)
Prune ==
  /\ pc = "prune"
  /\ \/ pc' = "setup" /\ exit' = exit
     \/ pc' = "exit" /\ exit' = 1
  /\ UNCHANGED <<nxt, workerVars, ctxErr, cancelled, recordVars, repoErrs, runErr>>

(* setupWorkspace may fail: no repository is started. *)
SetupWorkspace ==
  /\ pc = "setup"
  /\ \/ pc' = "check" /\ runErr' = runErr
     \/ pc' = "return" /\ runErr' = "setup"
  /\ UNCHANGED <<nxt, workerVars, ctxErr, cancelled, recordVars, repoErrs, exit>>

(* runConcurrent looks at the context before it waits for a slot ... *)
Dispatch ==
  /\ pc = "check"
  /\ pc' = IF nxt > Len(Order) \/ ctxErr # "none" THEN "wait" ELSE "acquire"
  /\ UNCHANGED <<nxt, workerVars, ctxErr, cancelled, recordVars, resultVars>>

(* The workers that hold a slot of the semaphore. *)
Busy == {r \in Repos : worker[r] \in {"scanning", "scanned", "recording"}}

SlotFree == Cardinality(Busy) < Limit

(* ... and not while it waits for one, so one more may start after it ended. *)
Acquire ==
  /\ pc = "acquire"
  /\ SlotFree
  /\ worker' = [worker EXCEPT ![Order[nxt]] = "scanning"]
  /\ nxt' = nxt + 1
  /\ pc' = "check"
  /\ UNCHANGED <<outcome, ctxErr, cancelled, recordVars, resultVars>>

(* wg.Wait, then the three returns of Run. *)
Collect ==
  /\ pc = "wait"
  /\ Busy = {}
  /\ pc' = "return"
  /\ \/ /\ ctxErr # "none"
        /\ runErr' = "interrupted" /\ repoErrs' = {}
     \/ /\ ctxErr = "none" /\ repoErrs = Repos
        /\ runErr' = "all_failed" /\ repoErrs' = {}
     \/ /\ ctxErr = "none" /\ repoErrs # Repos
        /\ UNCHANGED <<runErr, repoErrs>>
  /\ UNCHANGED <<nxt, workerVars, ctxErr, cancelled, recordVars, exit>>

(* Mutants: a cancelled run blames the repositories it did not reach; only a *)
(* run that could not start does.                                            *)
BlameAlways(err) == err # "none"
BlameSetup(err) == err = "setup" /\ ~cancelled
Blame(err) == err # "none" /\ ~cancelled

(* Run's deferred function: an expired deadline is the error, whatever was  *)
(* returned; then runScan decides whether to record what is missing.        *)
Return ==
  LET err == IF ctxErr = "deadline" THEN "timeout" ELSE runErr IN
  /\ pc = "return"
  /\ runErr' = err
  /\ pc' = IF Blame(err) THEN "blame" ELSE "finish"
  /\ UNCHANGED <<nxt, workerVars, ctxErr, cancelled, recordVars, repoErrs, exit>>

(* Mutant: the loop does not look at done. *)
MissingAll == Repos \ blamed
Missing == {r \in Repos : calls[r] = 0}

(* record(repo, nil, err) for a repository that was not done; its store may fail. *)
BlameRepo ==
  /\ pc = "blame"
  /\ \E r \in Missing :
       /\ calls' = [calls EXCEPT ![r] = @ + 1]
       /\ blamed' = blamed \cup {r}
       /\ \/ stored' = [stored EXCEPT ![r] = "Failed"]
          \/ UNCHANGED stored
  /\ UNCHANGED <<pc, nxt, workerVars, ctxErr, cancelled, resultVars>>

BlameDone ==
  /\ pc = "blame"
  /\ Missing = {}
  /\ pc' = "finish"
  /\ UNCHANGED <<nxt, workerVars, ctxErr, cancelled, recordVars, resultVars>>

(* Mutants: the exit status counts the failures; only an error of the run fails the process. *)
StatusCount == IF runErr # "none" THEN 1 ELSE Cardinality(repoErrs)
StatusOfRun == IF runErr # "none" THEN 1 ELSE 0
Status == IF runErr # "none" \/ repoErrs # {} THEN 1 ELSE 0

Finish ==
  /\ pc = "finish"
  /\ pc' = "exit"
  /\ exit' = Status
  /\ UNCHANGED <<nxt, workerVars, ctxErr, cancelled, recordVars, repoErrs, runErr>>

----------------------------------------------------------------------------
(* A worker.                                                               *)

(* scanRepo: sync, walk and check.  Once the context has ended the checks  *)
(* stop early and what it returns may be cut short without an error.       *)
ScanRepo(r) ==
  /\ worker[r] = "scanning"
  /\ worker' = [worker EXCEPT ![r] = "scanned"]
  /\ \E o \in Outcomes \cup (IF ctxErr # "none" THEN {"cut"} ELSE {}) :
       outcome' = [outcome EXCEPT ![r] = o]
  /\ UNCHANGED <<pc, nxt, ctxErr, cancelled, recordVars, resultVars>>

(* Mutants: the result of an interrupted scan is kept; an interrupted worker keeps its slot. *)
ReportAlways(r) ==
  /\ worker[r] = "scanned"
  /\ worker' = [worker EXCEPT ![r] = "recording"]
  /\ calls' = [calls EXCEPT ![r] = @ + 1]
  /\ UNCHANGED <<pc, nxt, outcome, ctxErr, cancelled, stored, blamed, resultVars>>
ReportHoldingSlot(r) ==
  /\ worker[r] = "scanned" /\ ctxErr = "none"
  /\ worker' = [worker EXCEPT ![r] = "recording"]
  /\ calls' = [calls EXCEPT ![r] = @ + 1]
  /\ UNCHANGED <<pc, nxt, outcome, ctxErr, cancelled, stored, blamed, resultVars>>

(* An interrupted scan is dropped; any other is handed to record. *)
Report(r) ==
  /\ worker[r] = "scanned"
  /\ \/ /\ ctxErr # "none"
        /\ worker' = [worker EXCEPT ![r] = "ended"]
        /\ UNCHANGED calls
     \/ /\ ctxErr = "none"
        /\ worker' = [worker EXCEPT ![r] = "recording"]
        /\ calls' = [calls EXCEPT ![r] = @ + 1]
  /\ UNCHANGED <<pc, nxt, outcome, ctxErr, cancelled, stored, blamed, resultVars>>

PhaseOf(o) == IF o \in {"ok", "cut"} THEN "Succeeded" ELSE "Failed"

(* Writer.Repo returns: the report is stored, or a Backend call failed.  A   *)
(* repository with too many references is stored as failed without an error. *)
Record(r) ==
  /\ worker[r] = "recording"
  /\ worker' = [worker EXCEPT ![r] = "ended"]
  /\ \E ok \in BOOLEAN :
       /\ stored' = IF ok THEN [stored EXCEPT ![r] = PhaseOf(outcome[r])] ELSE stored
       /\ repoErrs' = IF outcome[r] = "err" \/ ~ok THEN repoErrs \cup {r} ELSE repoErrs
  /\ UNCHANGED <<pc, nxt, outcome, ctxErr, cancelled, calls, blamed, runErr, exit>>

----------------------------------------------------------------------------
(* The environment.                                                        *)

(* scan_timeout expires while Run is running. *)
Deadline ==
  /\ HasDeadline
  /\ pc \in {"setup", "check", "acquire", "wait", "return"}
  /\ ctxErr = "none"
  /\ ctxErr' = "deadline"
  /\ UNCHANGED <<pc, nxt, workerVars, cancelled, recordVars, resultVars>>

(* SIGTERM, or the Lease is lost. *)
Cancel ==
  /\ pc # "exit"
  /\ ~cancelled
  /\ cancelled' = TRUE
  /\ ctxErr' = IF ctxErr = "none" THEN "cancelled" ELSE ctxErr
  /\ UNCHANGED <<pc, nxt, workerVars, recordVars, resultVars>>

Main == Prune \/ SetupWorkspace \/ Dispatch \/ Acquire \/ Collect \/ Return \/ BlameRepo \/ BlameDone \/ Finish
Worker(r) == ScanRepo(r) \/ Report(r) \/ Record(r)

Next == Main \/ (\E r \in Repos : Worker(r)) \/ Deadline \/ Cancel

(* The goroutines run, and every git command and lookup has a timeout of its *)
(* own, so a scan ends; nothing makes the deadline or a signal arrive.       *)
Fairness == WF_vars(Main) /\ \A r \in Repos : WF_vars(Worker(r))

Spec == Init /\ [][Next]_vars /\ Fairness

----------------------------------------------------------------------------
(* Properties.                                                             *)

(* The type of the state. *)
TypeOK ==
  /\ pc \in {"prune", "setup", "check", "acquire", "wait", "return", "blame", "finish", "exit"}
  /\ nxt \in 1 .. Len(Order) + 1
  /\ worker \in [Repos -> {"waiting", "scanning", "scanned", "recording", "ended"}]
  /\ outcome \in [Repos -> {"none", "ok", "err", "big", "cut"}]
  /\ ctxErr \in {"none", "deadline", "cancelled"} /\ cancelled \in BOOLEAN
  /\ calls \in [Repos -> Nat]
  /\ stored \in [Repos -> {"none", "Succeeded", "Failed"}]
  /\ blamed \subseteq Repos /\ repoErrs \subseteq Repos
  /\ runErr \in {"none", "setup", "interrupted", "all_failed", "timeout"}
  /\ exit \in {-1, 0, 1}

(* A repository gets one report per scan: neither the worker and the timeout  *)
(* loop, nor two workers, record it twice (a second history entry).           *)
RecordedOnce == \A r \in Repos : calls[r] <= 1

(* No report says Succeeded for results an expired context cut short, although *)
(* the scan that cut them returned no error.                                   *)
NoTruncatedReport == \A r \in Repos : stored[r] = "Succeeded" => outcome[r] \in {"ok", "big"}

(* A process that scanned and was not cancelled leaves no repository          *)
(* unaccounted for: each was recorded, as itself or with the run's error.     *)
AllAccounted ==
  pc \in {"finish", "exit"} /\ ~cancelled /\ (runErr # "none" \/ exit = 0) =>
    \A r \in Repos : calls[r] = 1

(* A cancellation just means "not scanned": a run it interrupted records no    *)
(* failure for the repositories it did not reach, and a repository is only     *)
(* blamed for a timeout when it had not been recorded before.                  *)
CancelBlamesNobody ==
  /\ runErr = "interrupted" => blamed = {}
  /\ \A r \in blamed : worker[r] # "recording" /\ stored[r] # "Succeeded"

(* Exit status 0 means that every configured repository was scanned and its    *)
(* report stored as succeeded (docs/architecture.md: "exit non-zero if any     *)
(* repository failed").                                                        *)
ExitZeroMeansAllSucceeded == exit = 0 => \A r \in Repos : stored[r] = "Succeeded"

(* The process ends, whatever expired, failed or was cancelled.                *)
Terminates == <>(pc = "exit")
=============================================================================
