----------------------------- MODULE ScanRunProofs -----------------------------
(***************************************************************************)
(* What holds of every scan process of ScanRun: for any configured         *)
(* repositories, any concurrency limit and any outcome of the scans, and   *)
(* with the deadline and the signal between any two steps.                 *)
(*                                                                         *)
(* None of the invariants is inductive alone.  IInv adds where the workers *)
(* can be while the main goroutine is at each of its stages (Stages),      *)
(* which repositories it has started (Dispatched), and what the calls,     *)
(* the outcome and the stored report of one repository have to do with     *)
(* each other (Accounts), with the errors of the run (Errors) and with the *)
(* exit status (Results).                                                  *)
(***************************************************************************)
EXTENDS ScanRun, FiniteSetTheorems, TLAPS

(* The workers run only while the main goroutine dispatches or waits. *)
Stages ==
  /\ pc \notin {"check", "acquire", "wait"} => \A r \in Repos : worker[r] \in {"waiting", "ended"}
  /\ pc = "acquire" => nxt <= Len(Order)
  /\ pc = "wait" /\ ctxErr = "none" => nxt > Len(Order)
  /\ blamed # {} => pc \in {"blame", "finish", "exit"} /\ runErr # "none"
  /\ pc = "blame" => runErr # "none"
  /\ pc = "prune" => runErr = "none"
  /\ pc # "exit" => exit = -1

(* The repositories are started in order, each once. *)
Dispatched == \A i \in DOMAIN Order : worker[Order[i]] = "waiting" <=> i >= nxt

(* One repository: when record was called for it, and what was stored then. *)
Account(r) ==
  /\ calls[r] \in {0, 1}
  /\ worker[r] = "waiting" /\ r \notin blamed => calls[r] = 0
  /\ worker[r] \in {"scanning", "scanned"} => calls[r] = 0
  /\ worker[r] = "recording" => calls[r] = 1
  /\ worker[r] = "ended" /\ calls[r] = 0 => ctxErr # "none"
  /\ outcome[r] \in Outcomes \cup {"none", "cut"}
  /\ worker[r] = "scanned" /\ ctxErr = "none" => outcome[r] \in Outcomes
  /\ worker[r] = "recording" => outcome[r] \in Outcomes
  /\ stored[r] # "none" => calls[r] = 1
  /\ stored[r] = "Succeeded" => outcome[r] = "ok"
  /\ r \in blamed => calls[r] = 1 /\ stored[r] # "Succeeded"
  /\ worker[r] = "ended" /\ calls[r] = 1 /\ runErr = "none" /\ r \notin repoErrs =>
       stored[r] = PhaseOf(outcome[r]) /\ outcome[r] \in Outcomes \ {"err"}

Accounts == \A r \in Repos : Account(r)

(* An interrupted run blames nobody: the context it ended with was cancelled *)
(* with the process, or the deadline replaced the error.                     *)
Errors ==
  /\ ctxErr = "cancelled" => cancelled
  /\ runErr = "interrupted" =>
       pc \in {"return", "finish", "exit"} /\ ctxErr # "none" /\ blamed = {}

(* Every repository was scanned to its end and recorded. *)
Complete == \A r \in Repos : worker[r] = "ended" /\ calls[r] = 1

Results ==
  /\ pc \in {"return", "finish"} /\ runErr = "none" => Complete
  /\ pc \in {"finish", "exit"} /\ runErr # "none" /\ ~cancelled => \A r \in Repos : calls[r] = 1
  /\ exit = 0 => pc = "exit" /\ runErr = "none" /\ repoErrs = {} /\ Complete

IInv == TypeOK /\ Stages /\ Dispatched /\ Accounts /\ Errors /\ Results

----------------------------------------------------------------------------
LEMMA OrderOfRepos ==
  /\ \A i \in DOMAIN Order : Order[i] \in Repos
  /\ \A r \in Repos : \E i \in DOMAIN Order : r = Order[i]
  /\ DOMAIN Order = 1 .. Len(Order) /\ Len(Order) \in Nat
BY OrderAssumption DEF Repos

(* No worker has started. *)
LEMMA InitInv == Init => IInv
<1> SUFFICES ASSUME Init PROVE IInv
  OBVIOUS
<1>1. TypeOK
  <2>1. 1 \in 1 .. Len(Order) + 1
    BY OrderOfRepos
  <2>2. -1 \in {-1, 0, 1} /\ 0 \in Nat
    OBVIOUS
  <2> QED BY <2>1, <2>2 DEF Init, TypeOK
<1>2. Stages /\ Errors
  BY DEF Init, Stages, Errors
<1>3. Dispatched
  BY OrderOfRepos DEF Init, Dispatched
<1>4. Accounts
  BY DEF Init, Accounts, Account
<1>5. Results
  <2>1. pc = "prune" /\ exit = -1
    BY DEF Init
  <2>2. exit # 0
    BY <2>1
  <2> QED BY <2>1, <2>2 DEF Results
<1> QED BY <1>1, <1>2, <1>3, <1>4, <1>5 DEF IInv

(* The process prunes, or ends. *)
LEMMA PruneInv == ASSUME IInv, Prune PROVE IInv'
<1> USE DEF IInv
<1>1. TypeOK'
  BY OrderOfRepos DEF TypeOK, Stages, Prune, workerVars, recordVars
<1>2. Stages'
  BY OrderOfRepos DEF TypeOK, Stages, Prune, workerVars, recordVars
<1>3. Dispatched'
  BY OrderOfRepos DEF TypeOK, Dispatched, Prune, workerVars, recordVars
<1>4. Accounts'
  BY OrderOfRepos DEF TypeOK, Accounts, Account, Prune, workerVars, recordVars
<1>5. Errors'
  BY OrderOfRepos DEF TypeOK, Errors, Prune, workerVars, recordVars
<1>6. Results'
  <2>1. exit = -1
    BY DEF Stages, Prune
  <2>2. exit' # 0
    BY <2>1 DEF Prune
  <2> QED BY <2>2 DEF Results, Stages, Errors, Prune
<1> QED BY <1>1, <1>2, <1>3, <1>4, <1>5, <1>6

(* The workspace is set up, or not. *)
LEMMA SetupInv == ASSUME IInv, SetupWorkspace PROVE IInv'
<1> USE DEF IInv
<1>1. TypeOK'
  BY OrderOfRepos DEF TypeOK, Stages, SetupWorkspace, workerVars, recordVars
<1>2. Stages'
  BY OrderOfRepos DEF TypeOK, Stages, SetupWorkspace, workerVars, recordVars
<1>3. Dispatched'
  BY OrderOfRepos DEF TypeOK, Dispatched, SetupWorkspace, workerVars, recordVars
<1>4. Accounts'
  BY OrderOfRepos DEF TypeOK, Accounts, Account, SetupWorkspace, workerVars, recordVars
<1>5. Errors'
  BY OrderOfRepos DEF TypeOK, Errors, SetupWorkspace, workerVars, recordVars
<1>6. Results'
  BY OrderOfRepos DEF TypeOK, Results, Complete, SetupWorkspace, workerVars, recordVars
<1> QED BY <1>1, <1>2, <1>3, <1>4, <1>5, <1>6

(* The main goroutine goes for a slot, or waits. *)
LEMMA DispatchInv == ASSUME IInv, Dispatch PROVE IInv'
<1> USE DEF IInv
<1>1. TypeOK'
  BY OrderOfRepos DEF TypeOK, Stages, Dispatch, workerVars, recordVars, resultVars
<1>2. Stages'
  BY OrderOfRepos DEF TypeOK, Stages, Dispatch, workerVars, recordVars, resultVars
<1>3. Dispatched'
  BY OrderOfRepos DEF TypeOK, Dispatched, Dispatch, workerVars, recordVars, resultVars
<1>4. Accounts'
  BY OrderOfRepos DEF TypeOK, Accounts, Account, Dispatch, workerVars, recordVars, resultVars
<1>5. Errors'
  BY OrderOfRepos DEF TypeOK, Errors, Dispatch, workerVars, recordVars, resultVars
<1>6. Results'
  BY OrderOfRepos DEF TypeOK, Results, Complete, Dispatch, workerVars, recordVars, resultVars
<1> QED BY <1>1, <1>2, <1>3, <1>4, <1>5, <1>6

(* The next worker starts. *)
LEMMA AcquireInv == ASSUME IInv, Acquire PROVE IInv'
<1> USE DEF IInv
<1>1. TypeOK'
  <2>1. nxt \in DOMAIN Order /\ nxt' = nxt + 1 /\ pc' = "check"
    BY OrderOfRepos DEF TypeOK, Stages, Acquire
  <2>2. nxt' \in 1 .. Len(Order) + 1
    BY <2>1, OrderOfRepos
  <2> QED BY <2>1, <2>2, OrderOfRepos DEF TypeOK, Acquire, recordVars, resultVars
<1>2. Stages'
  BY OrderOfRepos DEF TypeOK, Stages, Acquire, recordVars, resultVars
<1>3. Dispatched'
  <2>1. nxt \in DOMAIN Order /\ nxt' = nxt + 1 /\ nxt \in Int
    BY OrderOfRepos DEF TypeOK, Stages, Acquire
  <2>2. worker'[Order[nxt]] = "scanning"
    BY <2>1, OrderOfRepos DEF TypeOK, Acquire
  <2>3. \A i \in DOMAIN Order : i # nxt => Order[i] # Order[nxt]
    BY <2>1, OrderAssumption
  <2>4. \A i \in DOMAIN Order : i # nxt => worker'[Order[i]] = worker[Order[i]]
    <3>1. worker' = [worker EXCEPT ![Order[nxt]] = "scanning"] /\ DOMAIN worker = Repos
      BY DEF TypeOK, Acquire
    <3> QED BY <2>1, <2>3, <3>1, OrderOfRepos
  <2>5. \A i \in DOMAIN Order : i # nxt => (i >= nxt <=> i >= nxt')
    <3>1. \A i \in Int : i # nxt => (i >= nxt <=> i >= nxt')
      BY <2>1
    <3>2. DOMAIN Order \subseteq Int
      BY OrderOfRepos
    <3> QED BY <3>1, <3>2
  <2>6. ~(nxt >= nxt')
    BY <2>1
  <2>7. SUFFICES ASSUME NEW i \in DOMAIN Order PROVE (worker[Order[i]] = "waiting" <=> i >= nxt)'
    BY DEF Dispatched
  <2>8. CASE i = nxt
    BY <2>2, <2>6, <2>8
  <2>9. CASE i # nxt
    <3>1. worker[Order[i]] = "waiting" <=> i >= nxt
      BY DEF Dispatched
    <3>2. worker'[Order[i]] = worker[Order[i]] /\ (i >= nxt <=> i >= nxt')
      BY <2>4, <2>5, <2>9
    <3> QED BY <3>1, <3>2
  <2> QED BY <2>8, <2>9
<1>4. Accounts'
  <2>1. nxt \in DOMAIN Order /\ Order[nxt] \in Repos /\ blamed = {}
    BY OrderOfRepos DEF TypeOK, Stages, Acquire
  <2>2. worker[Order[nxt]] = "waiting"
    BY <2>1, OrderOfRepos DEF TypeOK, Dispatched
  <2>3. SUFFICES ASSUME NEW r \in Repos PROVE Account(r)'
    BY DEF Accounts
  <2>4. Account(r)
    BY DEF Accounts
  <2>5. CASE r = Order[nxt]
    <3>1. worker'[r] = "scanning"
      BY <2>1, <2>5 DEF TypeOK, Acquire
    <3>2. calls[r] = 0
      BY <2>1, <2>2, <2>4, <2>5 DEF Account
    <3> QED BY <2>1, <2>4, <3>1, <3>2 DEF Account, Acquire, recordVars, resultVars
  <2>6. CASE r # Order[nxt]
    <3>1. worker'[r] = worker[r]
      BY <2>1, <2>6 DEF TypeOK, Acquire
    <3> QED BY <2>4, <3>1 DEF Account, Acquire, recordVars, resultVars
  <2> QED BY <2>5, <2>6
<1>5. Errors'
  BY OrderOfRepos DEF TypeOK, Errors, Acquire, recordVars, resultVars
<1>6. Results'
  BY OrderOfRepos DEF TypeOK, Results, Complete, Acquire, recordVars, resultVars
<1> QED BY <1>1, <1>2, <1>3, <1>4, <1>5, <1>6

(* All the workers have ended. *)
LEMMA CollectInv == ASSUME IInv, Collect PROVE IInv'
<1> USE DEF IInv
<1>1. TypeOK'
  BY OrderOfRepos DEF TypeOK, Stages, Collect, workerVars, recordVars
<1>2. Stages'
  <2>1. \A r \in Repos : worker[r] \in {"waiting", "ended"}
    BY DEF TypeOK, Collect, Busy
  <2> QED BY <2>1 DEF Stages, Collect, workerVars, recordVars
<1>3. Dispatched'
  BY OrderOfRepos DEF TypeOK, Dispatched, Collect, workerVars, recordVars
<1>4. Accounts'
  BY OrderOfRepos DEF TypeOK, Accounts, Account, Collect, workerVars, recordVars
<1>5. Errors'
  BY DEF Stages, Errors, Collect, workerVars, recordVars
<1>6. Results'
  <2>1. pc' = "return" /\ exit' = -1
    BY DEF Stages, Collect
  <2>2. exit' # 0
    BY <2>1
  <2>3. ASSUME runErr' = "none" PROVE Complete'
    <3>1. ctxErr = "none" /\ runErr = "none" /\ nxt > Len(Order) /\ blamed = {}
      BY <2>3 DEF Stages, Collect
    <3>2. \A i \in DOMAIN Order : worker[Order[i]] # "waiting"
      BY <3>1, OrderOfRepos DEF TypeOK, Dispatched
    <3>3. \A r \in Repos : worker[r] = "ended"
      BY <3>2, OrderOfRepos DEF TypeOK, Collect, Busy
    <3>4. \A r \in Repos : calls[r] = 1
      BY <3>1, <3>3 DEF Accounts, Account
    <3> QED BY <3>3, <3>4 DEF Complete, Collect, workerVars, recordVars
  <2> QED BY <2>1, <2>2, <2>3 DEF Results
<1> QED BY <1>1, <1>2, <1>3, <1>4, <1>5, <1>6

(* Run returns. *)
LEMMA ReturnInv == ASSUME IInv, Return PROVE IInv'
<1> USE DEF IInv
<1>1. TypeOK'
  BY OrderOfRepos DEF TypeOK, Stages, Return, Blame, workerVars, recordVars
<1>2. Stages'
  BY OrderOfRepos DEF TypeOK, Stages, Return, Blame, workerVars, recordVars
<1>3. Dispatched'
  BY OrderOfRepos DEF TypeOK, Dispatched, Return, Blame, workerVars, recordVars
<1>4. Accounts'
  BY OrderOfRepos DEF TypeOK, Accounts, Account, Return, Blame, workerVars, recordVars
<1>5. Errors'
  BY OrderOfRepos DEF TypeOK, Errors, Return, Blame, workerVars, recordVars
<1>6. Results'
  BY OrderOfRepos DEF TypeOK, Results, Complete, Return, Blame, workerVars, recordVars
<1> QED BY <1>1, <1>2, <1>3, <1>4, <1>5, <1>6

(* A repository that was not recorded gets the error of the run. *)
LEMMA BlameRepoInv == ASSUME IInv, BlameRepo PROVE IInv'
<1> USE DEF IInv
<1>1. TypeOK'
  <2>1. PICK r \in Repos : /\ calls' = [calls EXCEPT ![r] = @ + 1]
                           /\ blamed' = blamed \cup {r}
                           /\ \/ stored' = [stored EXCEPT ![r] = "Failed"]
                              \/ UNCHANGED stored
    BY DEF BlameRepo, Missing
  <2>2. calls' \in [Repos -> Nat] /\ blamed' \subseteq Repos
    BY <2>1 DEF TypeOK
  <2>3. stored' \in [Repos -> {"none", "Succeeded", "Failed"}]
    BY <2>1 DEF TypeOK
  <2> QED BY <2>2, <2>3 DEF TypeOK, BlameRepo, workerVars, resultVars
<1>2. Stages'
  BY OrderOfRepos DEF TypeOK, Stages, BlameRepo, Missing, workerVars, resultVars
<1>3. Dispatched'
  BY OrderOfRepos DEF TypeOK, Dispatched, BlameRepo, Missing, workerVars, resultVars
<1>4. Accounts'
  <2>1. PICK q \in Missing : /\ calls' = [calls EXCEPT ![q] = @ + 1]
                             /\ blamed' = blamed \cup {q}
                             /\ \/ stored' = [stored EXCEPT ![q] = "Failed"]
                                \/ UNCHANGED stored
    BY DEF BlameRepo
  <2>2. q \in Repos /\ calls[q] = 0 /\ calls'[q] = 1
    BY <2>1 DEF Missing, TypeOK
  <2>3. worker[q] \in {"waiting", "ended"} /\ runErr # "none"
    BY <2>2 DEF Stages, BlameRepo
  <2>4. SUFFICES ASSUME NEW r \in Repos PROVE Account(r)'
    BY DEF Accounts
  <2>5. Account(r)
    BY DEF Accounts
  <2>6. CASE r = q
    <3>1. stored[r] = "none"
      BY <2>2, <2>5, <2>6 DEF Account
    <3>2. stored'[r] \in {"none", "Failed"}
      BY <2>1, <2>2, <2>6, <3>1 DEF TypeOK
    <3> QED BY <2>1, <2>2, <2>3, <2>5, <2>6, <3>2 DEF Account, BlameRepo, workerVars, resultVars
  <2>7. CASE r # q
    <3>1. calls'[r] = calls[r] /\ stored'[r] = stored[r] /\ (r \in blamed' <=> r \in blamed)
      BY <2>1, <2>2, <2>7 DEF TypeOK
    <3> QED BY <2>5, <3>1 DEF Account, BlameRepo, workerVars, resultVars
  <2> QED BY <2>6, <2>7
<1>5. Errors'
  BY OrderOfRepos DEF TypeOK, Errors, BlameRepo, Missing, workerVars, resultVars
<1>6. Results'
  BY OrderOfRepos DEF TypeOK, Results, Complete, BlameRepo, Missing, workerVars, resultVars
<1> QED BY <1>1, <1>2, <1>3, <1>4, <1>5, <1>6

(* None is missing. *)
LEMMA BlameDoneInv == ASSUME IInv, BlameDone PROVE IInv'
<1> USE DEF IInv
<1>1. TypeOK'
  BY OrderOfRepos DEF TypeOK, Stages, BlameDone, Missing, workerVars, recordVars, resultVars
<1>2. Stages'
  BY OrderOfRepos DEF TypeOK, Stages, BlameDone, Missing, workerVars, recordVars, resultVars
<1>3. Dispatched'
  BY OrderOfRepos DEF TypeOK, Dispatched, BlameDone, Missing, workerVars, recordVars, resultVars
<1>4. Accounts'
  BY OrderOfRepos DEF TypeOK, Accounts, Account, BlameDone, Missing, workerVars, recordVars, resultVars
<1>5. Errors'
  BY OrderOfRepos DEF TypeOK, Errors, BlameDone, Missing, workerVars, recordVars, resultVars
<1>6. Results'
  <2>1. runErr # "none" /\ exit = -1 /\ pc' = "finish"
    BY DEF Stages, BlameDone
  <2>2. exit # 0
    BY <2>1
  <2>3. \A r \in Repos : calls[r] = 1
    BY DEF Accounts, Account, BlameDone, Missing
  <2> QED BY <2>1, <2>2, <2>3 DEF Results, BlameDone, workerVars, recordVars, resultVars
<1> QED BY <1>1, <1>2, <1>3, <1>4, <1>5, <1>6

(* The process ends. *)
LEMMA FinishInv == ASSUME IInv, Finish PROVE IInv'
<1> USE DEF IInv
<1>1. TypeOK'
  BY OrderOfRepos DEF TypeOK, Stages, Finish, Status, workerVars, recordVars
<1>2. Stages'
  BY OrderOfRepos DEF TypeOK, Stages, Finish, Status, workerVars, recordVars
<1>3. Dispatched'
  BY OrderOfRepos DEF TypeOK, Dispatched, Finish, Status, workerVars, recordVars
<1>4. Accounts'
  BY OrderOfRepos DEF TypeOK, Accounts, Account, Finish, Status, workerVars, recordVars
<1>5. Errors'
  BY OrderOfRepos DEF TypeOK, Errors, Finish, Status, workerVars, recordVars
<1>6. Results'
  BY OrderOfRepos DEF TypeOK, Results, Complete, Finish, Status, workerVars, recordVars
<1> QED BY <1>1, <1>2, <1>3, <1>4, <1>5, <1>6

(* A worker has scanned. *)
LEMMA ScanRepoInv == ASSUME IInv, NEW r \in Repos, ScanRepo(r) PROVE IInv'
<1> USE DEF IInv
<1>1. TypeOK'
  BY OutcomesAssumption DEF TypeOK, ScanRepo, recordVars, resultVars
<1>2. Stages'
  BY OrderOfRepos DEF TypeOK, Stages, ScanRepo, recordVars, resultVars
<1>3. Dispatched'
  BY OrderOfRepos DEF TypeOK, Dispatched, ScanRepo, recordVars, resultVars
<1>4. Accounts'
  BY OrderOfRepos DEF TypeOK, Accounts, Account, ScanRepo, recordVars, resultVars
<1>5. Errors'
  BY OrderOfRepos DEF TypeOK, Errors, ScanRepo, recordVars, resultVars
<1>6. Results'
  BY OrderOfRepos DEF TypeOK, Results, Complete, ScanRepo, recordVars, resultVars
<1> QED BY <1>1, <1>2, <1>3, <1>4, <1>5, <1>6

(* A worker drops its result, or has it recorded. *)
LEMMA ReportInv == ASSUME IInv, NEW r \in Repos, Report(r) PROVE IInv'
<1> USE DEF IInv
<1>1. TypeOK'
  <2>1. calls' \in [Repos -> Nat]
    BY DEF TypeOK, Report
  <2> QED BY <2>1 DEF TypeOK, Report, resultVars
<1>2. Stages'
  BY OrderOfRepos DEF TypeOK, Stages, Report, resultVars
<1>3. Dispatched'
  BY OrderOfRepos DEF TypeOK, Dispatched, Report, resultVars
<1>4. Accounts'
  BY OrderOfRepos DEF TypeOK, Accounts, Account, Report, resultVars
<1>5. Errors'
  BY OrderOfRepos DEF TypeOK, Errors, Report, resultVars
<1>6. Results'
  <2>1. pc \in {"check", "acquire", "wait"} /\ exit = -1
    BY DEF Stages, TypeOK, Report
  <2>2. exit # 0
    BY <2>1
  <2> QED BY <2>1, <2>2 DEF Results, Report, resultVars
<1> QED BY <1>1, <1>2, <1>3, <1>4, <1>5, <1>6

(* The report is stored, or not. *)
LEMMA RecordInv == ASSUME IInv, NEW r \in Repos, Record(r) PROVE IInv'
<1> USE DEF IInv
<1>1. TypeOK'
  BY OrderOfRepos DEF TypeOK, Stages, Record, PhaseOf
<1>2. Stages'
  BY OrderOfRepos DEF TypeOK, Stages, Record, PhaseOf
<1>3. Dispatched'
  BY OrderOfRepos DEF TypeOK, Dispatched, Record, PhaseOf
<1>4. Accounts'
  <2>1. PICK ok \in BOOLEAN :
          /\ stored' = IF ok THEN [stored EXCEPT ![r] = PhaseOf(outcome[r])] ELSE stored
          /\ repoErrs' = IF outcome[r] = "err" \/ ~ok THEN repoErrs \cup {r} ELSE repoErrs
    BY DEF Record
  <2>2. /\ worker[r] = "recording" /\ worker' = [worker EXCEPT ![r] = "ended"]
        /\ UNCHANGED <<pc, nxt, outcome, ctxErr, cancelled, calls, blamed, runErr, exit>>
    BY DEF Record
  <2>3. blamed = {}
    BY <2>2 DEF Stages, TypeOK
  <2>4. SUFFICES ASSUME NEW q \in Repos PROVE Account(q)'
    BY DEF Accounts
  <2>5. Account(q)
    BY DEF Accounts
  <2>6. CASE q = r
    <3>1. worker'[r] = "ended" /\ calls[r] = 1 /\ outcome[r] \in Outcomes
      BY <2>2, <2>5, <2>6 DEF TypeOK, Account
    <3>2. outcome[r] \in {"ok", "err", "big"}
      BY <3>1, OutcomesAssumption
    <3>3. CASE ok
      <4>1. stored'[r] = PhaseOf(outcome[r])
        BY <2>1, <3>3 DEF TypeOK
      <4>2. PhaseOf(outcome[r]) = "Succeeded" => outcome[r] = "ok"
        BY <3>2 DEF PhaseOf
      <4>3. r \notin repoErrs' => outcome[r] # "err"
        BY <2>1
      <4> QED BY <2>2, <2>3, <2>5, <2>6, <3>1, <4>1, <4>2, <4>3 DEF Account
    <3>4. CASE ~ok
      <4>1. stored' = stored /\ r \in repoErrs'
        BY <2>1, <3>4
      <4> QED BY <2>2, <2>3, <2>5, <2>6, <3>1, <4>1 DEF Account
    <3> QED BY <3>3, <3>4
  <2>7. CASE q # r
    <3>1. worker'[q] = worker[q] /\ stored'[q] = stored[q] /\ (q \in repoErrs' <=> q \in repoErrs)
      BY <2>1, <2>2, <2>7 DEF TypeOK
    <3> QED BY <2>2, <2>5, <3>1 DEF Account
  <2> QED BY <2>6, <2>7
<1>5. Errors'
  BY OrderOfRepos DEF TypeOK, Errors, Record, PhaseOf
<1>6. Results'
  BY OrderOfRepos DEF TypeOK, Results, Complete, Record, PhaseOf
<1> QED BY <1>1, <1>2, <1>3, <1>4, <1>5, <1>6

(* scan_timeout expires. *)
LEMMA DeadlineInv == ASSUME IInv, Deadline PROVE IInv'
<1> USE DEF IInv
<1>1. TypeOK'
  BY OrderOfRepos DEF TypeOK, Stages, Deadline, workerVars, recordVars, resultVars
<1>2. Stages'
  BY OrderOfRepos DEF TypeOK, Stages, Deadline, workerVars, recordVars, resultVars
<1>3. Dispatched'
  BY OrderOfRepos DEF TypeOK, Dispatched, Deadline, workerVars, recordVars, resultVars
<1>4. Accounts'
  BY OrderOfRepos DEF TypeOK, Accounts, Account, Deadline, workerVars, recordVars, resultVars
<1>5. Errors'
  BY OrderOfRepos DEF TypeOK, Errors, Deadline, workerVars, recordVars, resultVars
<1>6. Results'
  BY OrderOfRepos DEF TypeOK, Results, Complete, Deadline, workerVars, recordVars, resultVars
<1> QED BY <1>1, <1>2, <1>3, <1>4, <1>5, <1>6

(* The process is cancelled. *)
LEMMA CancelInv == ASSUME IInv, Cancel PROVE IInv'
<1> USE DEF IInv
<1>1. TypeOK'
  BY OrderOfRepos DEF TypeOK, Stages, Cancel, workerVars, recordVars, resultVars
<1>2. Stages'
  BY OrderOfRepos DEF TypeOK, Stages, Cancel, workerVars, recordVars, resultVars
<1>3. Dispatched'
  BY OrderOfRepos DEF TypeOK, Dispatched, Cancel, workerVars, recordVars, resultVars
<1>4. Accounts'
  BY OrderOfRepos DEF TypeOK, Accounts, Account, Cancel, workerVars, recordVars, resultVars
<1>5. Errors'
  BY OrderOfRepos DEF TypeOK, Errors, Cancel, workerVars, recordVars, resultVars
<1>6. Results'
  BY OrderOfRepos DEF TypeOK, Results, Complete, Cancel, workerVars, recordVars, resultVars
<1> QED BY <1>1, <1>2, <1>3, <1>4, <1>5, <1>6

LEMMA StepInv == IInv /\ [Next]_vars => IInv'
<1> SUFFICES ASSUME IInv, [Next]_vars PROVE IInv'
  OBVIOUS
<1>1. CASE Main
  BY <1>1, PruneInv, SetupInv, DispatchInv, AcquireInv, CollectInv, ReturnInv, BlameRepoInv,
     BlameDoneInv, FinishInv DEF Main
<1>2. ASSUME NEW r \in Repos, Worker(r) PROVE IInv'
  BY <1>2, ScanRepoInv, ReportInv, RecordInv DEF Worker
<1>3. CASE UNCHANGED vars
  BY <1>3 DEF vars, IInv, TypeOK, Stages, Dispatched, Accounts, Account, Errors, Results, Complete
<1> QED BY <1>1, <1>2, <1>3, DeadlineInv, CancelInv DEF Next

LEMMA Inductive == Spec => []IInv
BY InitInv, StepInv, PTL DEF Spec

(* Every variable keeps its type. *)
THEOREM TypeCorrect == Spec => []TypeOK
<1>1. IInv => TypeOK
  BY DEF IInv
<1> QED BY <1>1, Inductive, PTL

(* No repository gets two reports from one process: not from its worker and *)
(* the loop that accounts for what was not scanned, not from two workers.   *)
THEOREM EachRecordedOnce == Spec => []RecordedOnce
<1>1. IInv => RecordedOnce
  BY DEF IInv, Accounts, Account, RecordedOnce
<1> QED BY <1>1, Inductive, PTL

(* No stored report says Succeeded for a scan the context cut short. *)
THEOREM NoneTruncated == Spec => []NoTruncatedReport
<1>1. IInv => NoTruncatedReport
  BY DEF IInv, Accounts, Account, NoTruncatedReport
<1> QED BY <1>1, Inductive, PTL

(* A process that came to its end without being cancelled has recorded every *)
(* repository, whether the run failed to start, timed out or went through.   *)
THEOREM EveryRepoAccounted == Spec => []AllAccounted
<1>1. IInv => AllAccounted
  BY DEF IInv, Results, Complete, AllAccounted
<1> QED BY <1>1, Inductive, PTL

(* A cancelled run blames no repository, and none that has a report of its own. *)
THEOREM BlameIsFair == Spec => []CancelBlamesNobody
<1>1. IInv => CancelBlamesNobody
  <2> SUFFICES ASSUME IInv PROVE CancelBlamesNobody
    OBVIOUS
  <2>1. \A r \in blamed : r \in Repos /\ worker[r] # "recording"
    BY DEF IInv, TypeOK, Stages
  <2> QED BY <2>1 DEF IInv, Errors, Accounts, Account, CancelBlamesNobody
<1> QED BY <1>1, Inductive, PTL

(* What exit status 0 is worth: every repository was scanned to its end and  *)
(* its outcome stored, and no scan failed.                                   *)
ExitZeroMeansAllStored ==
  exit = 0 => \A r \in Repos : outcome[r] \in Outcomes \ {"err"} /\ stored[r] = PhaseOf(outcome[r])

THEOREM ExitZero == Spec => []ExitZeroMeansAllStored
<1>1. IInv => ExitZeroMeansAllStored
  BY DEF IInv, Results, Complete, Accounts, Account, ExitZeroMeansAllStored
<1> QED BY <1>1, Inductive, PTL

(* So exit status 0 means what the documentation says of it as long as no     *)
(* repository has more references than a report can hold; ScanRunTooLarge is  *)
(* the run that shows the exception.                                          *)
THEOREM ExitZeroSucceeded ==
  ASSUME "big" \notin Outcomes
  PROVE  Spec => []ExitZeroMeansAllSucceeded
<1>1. ExitZeroMeansAllStored => ExitZeroMeansAllSucceeded
  <2>1. \A o \in Outcomes \ {"err"} : PhaseOf(o) = "Succeeded"
    BY OutcomesAssumption DEF PhaseOf
  <2> QED BY <2>1 DEF ExitZeroMeansAllStored, ExitZeroMeansAllSucceeded
<1> QED BY <1>1, ExitZero, PTL
----------------------------------------------------------------------------
(* The semaphore.                                                          *)

(* runConcurrent never scans more than maxConcurrentRepos repositories at a *)
(* time, the late one that takes a slot after the context ended included.   *)
WithinLimit == Cardinality(Busy) <= Limit

LEMMA BusyFinite == IsFiniteSet(Busy) /\ IsFiniteSet(Busy')
<1>1. IsFiniteSet(1 .. Len(Order))
  BY OrderOfRepos, FS_Interval
<1>2. Order \in Surjection(1 .. Len(Order), Repos)
  BY OrderAssumption, OrderOfRepos DEF Surjection
<1>3. IsFiniteSet(Repos)
  BY <1>1, <1>2, FS_Surjection
<1>4. Busy \in SUBSET Repos /\ Busy' \in SUBSET Repos
  BY DEF Busy
<1> QED BY <1>3, <1>4, FS_Subset

LEMMA BusyShrinks ==
  ASSUME WithinLimit, Busy' \subseteq Busy
  PROVE  WithinLimit'
<1>1. Cardinality(Busy') <= Cardinality(Busy) /\ Cardinality(Busy) \in Nat /\ Cardinality(Busy') \in Nat
  BY BusyFinite, FS_Subset, FS_CardinalityType
<1> QED BY <1>1, LimitAssumption DEF WithinLimit

THEOREM SemaphoreBounds == Spec => []WithinLimit
<1>1. Init => WithinLimit
  <2> SUFFICES ASSUME Init PROVE WithinLimit
    OBVIOUS
  <2>1. Busy = {}
    BY DEF Init, Busy
  <2> QED BY <2>1, FS_EmptySet, LimitAssumption DEF WithinLimit
<1>2. TypeOK /\ WithinLimit /\ [Next]_vars => WithinLimit'
  <2> SUFFICES ASSUME TypeOK, WithinLimit, [Next]_vars PROVE WithinLimit'
    OBVIOUS
  <2>1. CASE Acquire
    <3>1. Busy' \subseteq Busy \cup {Order[nxt]}
      BY <2>1 DEF Acquire, Busy, TypeOK
    <3>2. /\ IsFiniteSet(Busy \cup {Order[nxt]})
          /\ Cardinality(Busy \cup {Order[nxt]}) <= Cardinality(Busy) + 1
      BY BusyFinite, FS_AddElement, FS_CardinalityType
    <3>3. Cardinality(Busy') <= Cardinality(Busy \cup {Order[nxt]})
      BY <3>1, <3>2, FS_Subset
    <3>4. /\ Cardinality(Busy) \in Nat /\ Cardinality(Busy') \in Nat
          /\ Cardinality(Busy \cup {Order[nxt]}) \in Nat
      BY <3>2, BusyFinite, FS_CardinalityType
    <3>5. Cardinality(Busy) < Limit
      BY <2>1 DEF Acquire, SlotFree
    <3> QED BY <3>2, <3>3, <3>4, <3>5, LimitAssumption DEF WithinLimit
  <2>2. CASE worker' = worker
    BY <2>2, BusyShrinks DEF Busy
  <2>3. ASSUME NEW r \in Repos, Worker(r) PROVE WithinLimit'
    <3>1. Busy' \subseteq Busy
      BY <2>3 DEF Worker, ScanRepo, Report, Record, Busy, TypeOK
    <3> QED BY <3>1, BusyShrinks
  <2>4. ~Acquire /\ ~(\E r \in Repos : Worker(r)) => worker' = worker
    BY DEF Next, Main, Prune, SetupWorkspace, Dispatch, Collect, Return, BlameRepo, BlameDone,
           Finish, Deadline, Cancel, workerVars, vars
  <2> QED BY <2>1, <2>2, <2>3, <2>4
<1> QED BY <1>1, <1>2, TypeCorrect, PTL DEF Spec
================================================================================
