------------------------------- MODULE ScanLock -------------------------------
(***************************************************************************)
(* The scan lock in a cluster: Env.Lock of internal/kube/kube.go, one      *)
(* Lease that scan processes take through client-go's leader elector.      *)
(*                                                                         *)
(* Nobody's clock is compared with anybody else's: a candidate measures    *)
(* how long the Lease record has not changed since it first saw it; the    *)
(* holder measures how long it has failed to renew.  Tick is one unit of   *)
(* time, at least the elector's retry period, and an elector that can      *)
(* reach the API server does its work within a unit.  Either every request *)
(* succeeds, or any request may fail any number of times.                  *)
(***************************************************************************)
EXTENDS Integers

CONSTANTS
  Procs,           \* scan processes: each has an identity (its pod's name) and runs once
  LeaseDuration,   \* leaseDuration, in units
  RenewDeadline,   \* the elector's RenewDeadline, in units
  Free             \* the holder of a Lease that nobody holds

ASSUME TimesAssumption ==
  /\ RenewDeadline \in Nat \ {0} /\ LeaseDuration \in Nat
  /\ RenewDeadline < LeaseDuration
ASSUME FreeAssumption == Free \notin Procs

(* Mutant: the wait before 0.4.3, one lease duration and a retry. *)
LockWaitOnce == LeaseDuration
LockWait == 2 * LeaseDuration

VARIABLES
  flaky,   \* requests to the API server may fail, in this behaviour
  stage,   \* [Procs -> where the process is]
  holder,  \* the Lease's holderIdentity
  seen,    \* [Procs -> the candidate has read the current record of the Lease]
  age,     \* [Procs -> time since it first read it]
  since,   \* [Procs -> time since the holder's last successful renewal]
  waited,  \* [Procs -> time spent in Lock]
  gap      \* [Procs -> time it has waited without a live holder, since the last takeover]

lockVars == <<flaky, stage, holder, seen, age, since, waited, gap>>

LockInit ==
  /\ flaky \in BOOLEAN
  /\ stage = [p \in Procs |-> "idle"]
  /\ holder = Free
  /\ seen = [p \in Procs |-> FALSE]
  /\ age = [p \in Procs |-> 0]
  /\ since = [p \in Procs |-> 0]
  /\ waited = [p \in Procs |-> 0]
  /\ gap = [p \in Procs |-> 0]

Candidate(p) == stage[p] = "waiting"
Leading(p)   == stage[p] \in {"acquired", "working"}
Running(p)   == stage[p] \in {"working", "losing", "lost"}   \* the context Lock returned is alive
Alive(p)     == stage[p] \in {"acquired", "working", "losing", "lost", "over", "ending", "refusing"}

(* Every other candidate finds a record it has not seen. *)
Rewritten(p) == seen' = [q \in Procs |-> q = p]

----------------------------------------------------------------------------
(* The elector (client-go).                                                *)

Start(p) ==
  /\ stage[p] = "idle"
  /\ stage' = [stage EXCEPT ![p] = "waiting"]
  /\ UNCHANGED <<flaky, holder, seen, age, since, waited, gap>>

(* A candidate reads a record that changed: it starts to measure. *)
Observe(p) ==
  /\ Candidate(p)
  /\ holder # Free /\ ~seen[p]
  /\ seen' = [seen EXCEPT ![p] = TRUE]
  /\ age' = [age EXCEPT ![p] = 0]
  /\ UNCHANGED <<flaky, stage, holder, since, waited, gap>>

(* The Lease is free, or its record has not changed for its whole duration. *)
CanTake(p) == Candidate(p) /\ (holder = Free \/ (seen[p] /\ age[p] >= LeaseDuration))

TakeLease(p) ==
  /\ CanTake(p)
  /\ stage' = [stage EXCEPT ![p] = "acquired"]
  /\ holder' = p
  /\ since' = [since EXCEPT ![p] = 0]
  /\ Rewritten(p)
  /\ gap' = [q \in Procs |-> 0]
  /\ UNCHANGED <<flaky, age, waited>>

Renew(p) ==
  /\ Leading(p) /\ since[p] > 0
  /\ since' = [since EXCEPT ![p] = 0]
  /\ Rewritten(p)
  /\ UNCHANGED <<flaky, stage, holder, age, waited, gap>>

(* Mutant: Lock returns the caller's context, which outlives the Lease. *)
LoseNothing(p) ==
  /\ stage[p] = "working" /\ since[p] >= RenewDeadline /\ flaky
  /\ since' = [since EXCEPT ![p] = 0]
  /\ UNCHANGED <<flaky, stage, holder, seen, age, waited, gap>>

(* RenewDeadline passed: renew goes on to give the Lease up (ReleaseOnCancel), *)
(* a request that may hang past the Lease's duration.  Run cancels the context *)
(* that Lock returned only when renew returns.                                 *)
Lose(p) ==
  /\ stage[p] = "working" /\ since[p] >= RenewDeadline /\ flaky
  /\ stage' = [stage EXCEPT ![p] = "losing"]
  /\ UNCHANGED <<flaky, holder, seen, age, since, waited, gap>>

(* The request to give the Lease up is over. *)
Relinquish(p) ==
  /\ stage[p] = "losing"
  /\ stage' = [stage EXCEPT ![p] = "lost"]
  /\ \/ /\ holder = p
        /\ holder' = Free
        /\ seen' = [q \in Procs |-> FALSE]
     \/ UNCHANGED <<holder, seen>>
  /\ UNCHANGED <<flaky, age, since, waited, gap>>

(* The elector has stopped, and the context that Lock returned ends. *)
Cut(p) ==
  /\ stage[p] = "lost"
  /\ stage' = [stage EXCEPT ![p] = "over"]
  /\ UNCHANGED <<flaky, holder, seen, age, since, waited, gap>>

----------------------------------------------------------------------------
(* Lock, its release, and the scan around them.                            *)

(* Lock receives from held and returns the elector's context. *)
Enter(p) ==
  /\ stage[p] = "acquired"
  /\ stage' = [stage EXCEPT ![p] = "working"]
  /\ UNCHANGED <<flaky, holder, seen, age, since, waited, gap>>

(* Mutant: the timer is not looked at once the caller's context ended. *)
TimeUpListening(p) ==
  /\ stage[p] \in {"waiting", "acquired"}
  /\ waited[p] >= LockWait
  /\ stage' = [stage EXCEPT ![p] = "refusing"]
  /\ UNCHANGED <<flaky, holder, seen, age, since, waited, gap>>

(* lockWait is over, perhaps just as the elector got the Lease. *)
TimeUp(p) ==
  /\ stage[p] \in {"waiting", "deaf", "acquired"}
  /\ waited[p] >= LockWait
  /\ stage' = [stage EXCEPT ![p] = "refusing"]
  /\ UNCHANGED <<flaky, holder, seen, age, since, waited, gap>>

(* The context ends first; an elector that still leads then gives the Lease up. *)
Ended(p) == [stage EXCEPT ![p] = IF stage[p] = "lost" THEN "over" ELSE "ending"]

(* The scan is done: release cancels the elector's context. *)
ReleaseLock(p) ==
  /\ Running(p)
  /\ stage' = Ended(p)
  /\ UNCHANGED <<flaky, holder, seen, age, since, waited, gap>>

(* SIGTERM: the elector stops; Lock goes on waiting for held or lockWait. *)
Sigterm(p) ==
  /\ \/ Candidate(p) /\ stage' = [stage EXCEPT ![p] = "deaf"]
     \/ (stage[p] = "acquired" \/ Running(p)) /\ stage' = Ended(p)
  /\ UNCHANGED <<flaky, holder, seen, age, since, waited, gap>>

Exited(p) == [stage EXCEPT ![p] = IF stage[p] = "refusing" THEN "refused" ELSE "done"]

(* Mutant: release does not wait for the elector, and the process exits first. *)
StoppedEarly(p) ==
  /\ stage[p] \in {"over", "ending", "refusing"}
  /\ stage' = Exited(p)
  /\ UNCHANGED <<flaky, holder, seen, age, since, waited, gap>>

(* The elector gives the Lease up, if it still is the holder, and has stopped; *)
(* only then does the process exit.                                            *)
Stopped(p) ==
  /\ stage[p] \in {"over", "ending", "refusing"}
  /\ stage' = Exited(p)
  /\ \/ /\ stage[p] # "over" /\ holder = p
        /\ holder' = Free
        /\ seen' = [q \in Procs |-> FALSE]
     \/ /\ holder # p \/ flaky
        /\ UNCHANGED <<holder, seen>>
  /\ UNCHANGED <<flaky, age, since, waited, gap>>

(* SIGKILL, OOM or eviction: the Lease still names the process. *)
Crash(p) ==
  /\ Candidate(p) \/ Alive(p)
  /\ stage' = [stage EXCEPT ![p] = "dead"]
  /\ UNCHANGED <<flaky, holder, seen, age, since, waited, gap>>

----------------------------------------------------------------------------
(* Time passes when nobody has something to do that may not wait. *)
Upto(n, bound) == IF n < bound THEN n + 1 ELSE n

Tick ==
  /\ \A p \in Procs :
       /\ stage[p] \notin {"acquired", "lost"}
       /\ Leading(p) => since[p] < RenewDeadline
       /\ Candidate(p) \/ stage[p] = "deaf" => waited[p] < LockWait
       /\ ~flaky => /\ ~CanTake(p)
                    /\ Candidate(p) => seen[p]
                    /\ Leading(p) => since[p] = 0
  /\ age' = [p \in Procs |-> IF Candidate(p) THEN Upto(age[p], LeaseDuration) ELSE age[p]]
  /\ since' = [p \in Procs |-> IF Leading(p) THEN Upto(since[p], RenewDeadline) ELSE since[p]]
  /\ waited' = [p \in Procs |->
       IF stage[p] \in {"waiting", "deaf"} THEN Upto(waited[p], LockWait) ELSE waited[p]]
  /\ gap' = [p \in Procs |->
       IF ~Candidate(p) THEN gap[p]
       ELSE IF \E q \in Procs \ {p} : Alive(q) /\ holder = q THEN 0 ELSE Upto(gap[p], LockWait)]
  /\ UNCHANGED <<flaky, stage, holder, seen>>

Elector(p) ==
  Observe(p) \/ TakeLease(p) \/ Renew(p) \/ Lose(p) \/ Relinquish(p) \/ Cut(p)
Process(p) == Enter(p) \/ TimeUp(p) \/ ReleaseLock(p) \/ Stopped(p)

LockNext == (\E p \in Procs : Start(p) \/ Elector(p) \/ Process(p) \/ Sigterm(p) \/ Crash(p)) \/ Tick

(* Electors and processes run and time passes; a scan ends (ScanRun). *)
LockFairness ==
  /\ WF_lockVars(Tick)
  /\ \A p \in Procs : WF_lockVars(Elector(p)) /\ WF_lockVars(Process(p))

LockSpec == LockInit /\ [][LockNext]_lockVars /\ LockFairness

----------------------------------------------------------------------------
(* Properties.                                                             *)

(* The type of the state; whoever leads is the holder the Lease names. *)
LockTypeOK ==
  /\ flaky \in BOOLEAN
  /\ stage \in [Procs -> {"idle", "waiting", "deaf", "acquired", "working", "losing", "lost",
                          "over", "ending", "refusing", "done", "refused", "dead"}]
  /\ holder \in Procs \cup {Free} /\ \A p \in Procs : Leading(p) => holder = p
  /\ seen \in [Procs -> BOOLEAN]
  /\ age \in [Procs -> 0 .. LeaseDuration]
  /\ since \in [Procs -> 0 .. RenewDeadline]
  /\ waited \in [Procs -> 0 .. LockWait]
  /\ gap \in [Procs -> 0 .. LockWait]

(***************************************************************************)
(* The Lease keeps what ScanMutex promises among the scans whose elector   *)
(* has not given up, although requests fail, processes die and nobody's    *)
(* clocks are compared: only a scan that is losing its Lease can still be  *)
(* at work when the next one enters.                                       *)
(***************************************************************************)
Mutex == INSTANCE ScanMutex WITH running <- {p \in Procs : stage[p] = "working"}
HoldersExclude == Mutex!Spec

(***************************************************************************)
(* docs/architecture.md:171: "Only one scan runs at a time, whatever       *)
(* started it: the scan holds a Lease"; kube.go:67: "the returned context  *)
(* ends if the Lease is lost".  No two processes have a context that Lock  *)
(* returned and that has not ended.                                        *)
(***************************************************************************)
OnlyOneScan == \A p, q \in Procs : Running(p) /\ Running(q) => p = q

(***************************************************************************)
(* A scan is refused only when another one was alive while it waited, and  *)
(* not more than a lease duration before: a holder that died is taken over *)
(* within lockWait, although the duration in its record is counted from    *)
(* when the candidate first read it.  (When requests fail, one may be      *)
(* refused although nobody holds the Lease.)                               *)
(***************************************************************************)
RefusedMeansHeld ==
  ~flaky => \A p \in Procs : stage[p] = "refusing" => gap[p] <= LeaseDuration /\ gap[p] < waited[p]

(***************************************************************************)
(* A process that exits in an orderly way has given the Lease up, so the   *)
(* next scan does not wait for one that is gone (unless the request to     *)
(* give it up failed).                                                     *)
(***************************************************************************)
ExitedHoldsNothing == ~flaky => \A p \in Procs : stage[p] \in {"done", "refused"} => holder # p

(***************************************************************************)
(* Every process that waits for the lock enters, is refused or dies, and   *)
(* every one that entered ends.                                            *)
(***************************************************************************)
EveryProcessEnds ==
  \A p \in Procs : stage[p] = "waiting" ~> stage[p] \in {"done", "refused", "dead"}

----------------------------------------------------------------------------
(* What makes mutual exclusion inductive: no candidate has watched an      *)
(* unchanged record for longer than its leader has gone without renewing.  *)
LeaseOK ==
  /\ \A p, q \in Procs : Leading(p) /\ Candidate(q) /\ seen[q] => age[q] <= since[p]
  /\ \A p \in Procs : stage[p] = "idle" => age[p] = 0
=============================================================================
