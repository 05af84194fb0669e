---------------------------- MODULE ScanLockProofs ----------------------------
(***************************************************************************)
(* The scans whose elector has not given up implement ScanMutex, for any   *)
(* number of processes and for any lease duration that is longer than the  *)
(* renew deadline.                                                         *)
(*                                                                         *)
(* The argument: whoever leads is the holder its Lease names, so there is  *)
(* one leader at most, and a candidate takes a held Lease only when it has *)
(* watched the same record for LeaseDuration.  A leader has renewed within *)
(* RenewDeadline, and nobody has watched the record for longer than that,  *)
(* so a Lease that has a leader is never taken.  (Whoever is losing it     *)
(* leads no more, while its context is alive: see OnlyOneScan.)            *)
(*                                                                         *)
(* A candidate is refused while another one is alive or was shortly        *)
(* before: where requests succeed, one that has waited without the Lease   *)
(* saw it held all along, and a free or overdue Lease is taken (LockInv).  *)
(* Whoever exits in an orderly way has released the Lease first.           *)
(***************************************************************************)
EXTENDS ScanLock, TLAPS

IInv == LockTypeOK /\ LeaseOK

LEMMA InitInv == LockInit => IInv
BY TimesAssumption, FreeAssumption
   DEF LockInit, IInv, LockTypeOK, LeaseOK, Leading, Candidate, LockWait

(* A Lease that has a leader is never taken over. *)
LEMMA TakeOnlyWhenFree ==
  ASSUME IInv, NEW p \in Procs, CanTake(p), NEW q \in Procs
  PROVE  ~Leading(q)
<1>1. SUFFICES ASSUME Leading(q) PROVE FALSE
  OBVIOUS
<1>2. holder = q /\ holder # Free
  BY <1>1, FreeAssumption DEF IInv, LockTypeOK
<1>3. Candidate(p) /\ seen[p] /\ age[p] >= LeaseDuration
  BY <1>2 DEF CanTake
<1>4. age[p] <= since[q]
  BY <1>1, <1>3 DEF IInv, LeaseOK
<1>5. age[p] \in Nat /\ since[q] \in Nat /\ since[q] <= RenewDeadline
  BY TimesAssumption DEF IInv, LockTypeOK
<1> QED BY <1>3, <1>4, <1>5, TimesAssumption

LEMMA TypeStep == IInv /\ [LockNext]_lockVars => LockTypeOK'
<1> SUFFICES ASSUME IInv, [LockNext]_lockVars PROVE LockTypeOK'
  OBVIOUS
<1> USE TimesAssumption, FreeAssumption DEF IInv, LockTypeOK, LockWait, Leading, Candidate
<1>1. ASSUME NEW p \in Procs, Start(p) PROVE LockTypeOK'
  BY <1>1 DEF Start
<1>2. ASSUME NEW p \in Procs, Observe(p) PROVE LockTypeOK'
  BY <1>2 DEF Observe
<1>3. ASSUME NEW p \in Procs, TakeLease(p) PROVE LockTypeOK'
  <2>1. \A q \in Procs : ~Leading(q)
    BY <1>3, TakeOnlyWhenFree DEF TakeLease
  <2>2. \A q \in Procs : Leading(q)' => holder' = q
    BY <1>3, <2>1 DEF TakeLease
  <2> QED BY <1>3, <2>2 DEF TakeLease, Rewritten, CanTake
<1>4. ASSUME NEW p \in Procs, Renew(p) PROVE LockTypeOK'
  BY <1>4 DEF Renew, Rewritten
<1>5. ASSUME NEW p \in Procs, Lose(p) \/ Relinquish(p) \/ Cut(p) PROVE LockTypeOK'
  BY <1>5 DEF Lose, Relinquish, Cut
<1>6. ASSUME NEW p \in Procs, Enter(p) PROVE LockTypeOK'
  BY <1>6 DEF Enter
<1>7. ASSUME NEW p \in Procs, TimeUp(p) PROVE LockTypeOK'
  BY <1>7 DEF TimeUp
<1>8. ASSUME NEW p \in Procs, ReleaseLock(p) PROVE LockTypeOK'
  BY <1>8 DEF ReleaseLock, Ended, Running
<1>9. ASSUME NEW p \in Procs, Stopped(p) PROVE LockTypeOK'
  BY <1>9 DEF Stopped, Exited
<1>10. ASSUME NEW p \in Procs, Sigterm(p) PROVE LockTypeOK'
  BY <1>10 DEF Sigterm, Ended, Running
<1>11. ASSUME NEW p \in Procs, Crash(p) PROVE LockTypeOK'
  BY <1>11 DEF Crash
<1>12. CASE Tick
  BY <1>12 DEF Tick, Upto
<1>13. CASE UNCHANGED lockVars
  BY <1>13 DEF lockVars
<1> QED
  BY <1>1, <1>2, <1>3, <1>4, <1>5, <1>6, <1>7, <1>8, <1>9, <1>10, <1>11, <1>12, <1>13
     DEF LockNext, Elector, Process

LEMMA LeaseStep == IInv /\ [LockNext]_lockVars => LeaseOK'
<1> SUFFICES ASSUME IInv, [LockNext]_lockVars PROVE LeaseOK'
  OBVIOUS
<1> USE TimesAssumption DEF IInv, LockTypeOK, LeaseOK, Leading, Candidate
<1>1. ASSUME NEW p \in Procs, Start(p) PROVE LeaseOK'
  BY <1>1 DEF Start
<1>2. ASSUME NEW p \in Procs, Observe(p) PROVE LeaseOK'
  BY <1>2 DEF Observe
<1>3. ASSUME NEW p \in Procs, TakeLease(p) PROVE LeaseOK'
  <2>1. \A q \in Procs : ~Leading(q)
    BY <1>3, TakeOnlyWhenFree DEF TakeLease
  <2> QED BY <1>3, <2>1 DEF TakeLease, Rewritten, CanTake
<1>4. ASSUME NEW p \in Procs, Renew(p) PROVE LeaseOK'
  BY <1>4 DEF Renew, Rewritten
<1>5. ASSUME NEW p \in Procs, Lose(p) \/ Relinquish(p) \/ Cut(p) PROVE LeaseOK'
  BY <1>5 DEF Lose, Relinquish, Cut
<1>6. ASSUME NEW p \in Procs, Enter(p) PROVE LeaseOK'
  BY <1>6 DEF Enter
<1>7. ASSUME NEW p \in Procs, TimeUp(p) PROVE LeaseOK'
  BY <1>7 DEF TimeUp
<1>8. ASSUME NEW p \in Procs, ReleaseLock(p) PROVE LeaseOK'
  BY <1>8 DEF ReleaseLock, Ended, Running
<1>9. ASSUME NEW p \in Procs, Stopped(p) PROVE LeaseOK'
  BY <1>9 DEF Stopped, Exited
<1>10. ASSUME NEW p \in Procs, Sigterm(p) PROVE LeaseOK'
  BY <1>10 DEF Sigterm, Ended, Running
<1>11. ASSUME NEW p \in Procs, Crash(p) PROVE LeaseOK'
  BY <1>11 DEF Crash
<1>12. CASE Tick
  BY <1>12 DEF Tick, Upto
<1>13. CASE UNCHANGED lockVars
  BY <1>13 DEF lockVars
<1> QED
  BY <1>1, <1>2, <1>3, <1>4, <1>5, <1>6, <1>7, <1>8, <1>9, <1>10, <1>11, <1>12, <1>13
     DEF LockNext, Elector, Process

(* The inductive invariant holds in every reachable state. *)
LEMMA Invariance == LockSpec => []IInv
<1>1. IInv /\ [LockNext]_lockVars => IInv'
  BY TypeStep, LeaseStep DEF IInv
<1> QED BY InitInv, <1>1, PTL DEF LockSpec

(***************************************************************************)
(* The state is well typed, and whoever leads is the holder its Lease      *)
(* names: kube.go's Lock and the elector under it.                         *)
(***************************************************************************)
THEOREM LockTypeCorrect == LockSpec => []LockTypeOK
<1>1. IInv => LockTypeOK
  BY DEF IInv
<1> QED BY Invariance, <1>1, PTL

----------------------------------------------------------------------------

AtWork == {p \in Procs : stage[p] = "working"}

(* A process enters when nobody else is working: it is the holder. *)
LEMMA EntersAlone ==
  ASSUME IInv, NEW p \in Procs, Enter(p)
  PROVE  AtWork = {} /\ AtWork' = {p}
<1>1. \A q \in Procs : stage[q] # "working"
  BY DEF IInv, LockTypeOK, Enter, Leading
<1>2. stage' = [stage EXCEPT ![p] = "working"] /\ DOMAIN stage = Procs
  BY DEF IInv, LockTypeOK, Enter
<1> QED BY <1>1, <1>2 DEF AtWork

(* A process that goes anywhere but to work leaves the running ones, if it was one. *)
LEMMA LeavesOrStutters ==
  ASSUME IInv, NEW p \in Procs, NEW s, s # "working", stage' = [stage EXCEPT ![p] = s]
  PROVE  Mutex!Leave(p) \/ AtWork' = AtWork
<1>1. \A q \in Procs : stage'[q] = IF q = p THEN s ELSE stage[q]
  BY DEF IInv, LockTypeOK
<1>2. AtWork' = AtWork \ {p}
  BY <1>1 DEF AtWork
<1> QED BY <1>2 DEF Mutex!Leave, AtWork

(***************************************************************************)
(* kube.go, Lock: for any number of scans, any lease duration longer than  *)
(* the renew deadline and any requests that fail, a scan enters only when  *)
(* no other one is at work whose elector has not given up; it is one that  *)
(* is losing its Lease that may still be at work beside it.                *)
(***************************************************************************)
THEOREM HoldersAreAlone == LockSpec => HoldersExclude
<1>1. LockInit => Mutex!Init
  BY DEF LockInit, Mutex!Init
<1>2. IInv /\ [LockNext]_lockVars => [Mutex!Next]_AtWork
  <2> SUFFICES ASSUME IInv, [LockNext]_lockVars PROVE [Mutex!Next]_AtWork
    OBVIOUS
  <2>1. ASSUME NEW p \in Procs, Enter(p) PROVE Mutex!Next
    BY <2>1, EntersAlone DEF Mutex!Next, Mutex!Enter, AtWork
  <2>2. ASSUME NEW p \in Procs, NEW s, s # "working", stage' = [stage EXCEPT ![p] = s]
        PROVE  [Mutex!Next]_AtWork
    BY <2>2, LeavesOrStutters DEF Mutex!Next
  <2>3. ASSUME NEW p \in Procs, Start(p) \/ TakeLease(p) \/ Lose(p) \/ Relinquish(p) \/ Cut(p)
        PROVE  [Mutex!Next]_AtWork
    BY <2>2, <2>3 DEF Start, TakeLease, Lose, Relinquish, Cut
  <2>4. ASSUME NEW p \in Procs, TimeUp(p) \/ ReleaseLock(p) \/ Stopped(p) \/ Sigterm(p) \/ Crash(p)
        PROVE  [Mutex!Next]_AtWork
    BY <2>2, <2>4 DEF TimeUp, ReleaseLock, Ended, Stopped, Exited, Sigterm, Crash
  <2>5. ASSUME NEW p \in Procs, Observe(p) \/ Renew(p) PROVE AtWork' = AtWork
    BY <2>5 DEF Observe, Renew, AtWork
  <2>6. Tick \/ UNCHANGED lockVars => AtWork' = AtWork
    BY DEF Tick, lockVars, AtWork
  <2> QED BY <2>1, <2>3, <2>4, <2>5, <2>6 DEF LockNext, Elector, Process
<1> QED BY Invariance, <1>1, <1>2, PTL DEF LockSpec, HoldersExclude, Mutex!Spec, AtWork
----------------------------------------------------------------------------
(* Who is refused, and what an exit leaves behind.                         *)

(* The holder has been a leader; a candidate that was refused has waited.  *)
WaitOK ==
  \A p \in Procs :
    /\ holder = p => stage[p] \notin {"idle", "waiting", "deaf"}
    /\ stage[p] = "idle" => ~seen[p]
    /\ stage[p] = "refusing" => waited[p] >= LockWait
    /\ stage[p] \in {"losing", "lost", "over"} => flaky

(* Without a live holder a candidate only waits while it watches the record *)
(* of one that died, and it takes the Lease when that is a duration old.    *)
GapOK ==
  \A p \in Procs :
    /\ holder = Free \/ (\E q \in Procs : Alive(q) /\ holder = q) => gap[p] = 0
    /\ Candidate(p) /\ seen[p] => gap[p] <= age[p]
    /\ stage[p] \in {"idle", "waiting"} /\ ~seen[p] => gap[p] = 0
    /\ gap[p] <= LeaseDuration

LockInv == WaitOK /\ (~flaky => GapOK) /\ ExitedHoldsNothing

LEMMA InitLock == LockInit => LockInv
BY TimesAssumption, FreeAssumption
   DEF LockInit, LockInv, WaitOK, GapOK, ExitedHoldsNothing, Candidate, Alive, LockWait

(* Where p goes, and that nobody else moves. *)
LEMMA PcMoves ==
  ASSUME IInv, NEW p \in Procs, NEW s, stage' = [stage EXCEPT ![p] = s]
  PROVE  stage'[p] = s /\ \A q \in Procs : q # p => stage'[q] = stage[q]
BY DEF IInv, LockTypeOK

(* A process that moves on its own, between two requests to the API server. *)
LEMMA MoveLock ==
  ASSUME IInv, LockInv, NEW p \in Procs, NEW s, stage' = [stage EXCEPT ![p] = s],
         UNCHANGED <<flaky, holder, seen, age, waited, gap>>,
         \/ stage[p] = "idle" /\ s = "waiting"
         \/ stage[p] = "waiting" /\ s \in {"deaf", "dead"}
         \/ Leading(p) /\ s \in {"working", "ending", "dead"}
         \/ Leading(p) /\ s = "losing" /\ flaky
         \/ stage[p] \in {"losing", "lost"} /\ s \in {"ending", "over", "dead"}
         \/ stage[p] \in {"waiting", "deaf", "acquired"} /\ s = "refusing" /\ waited[p] >= LockWait
         \/ stage[p] \in {"over", "ending", "refusing"} /\ s = "dead"
  PROVE  LockInv'
<1>1. stage'[p] = s /\ \A q \in Procs : q # p => stage'[q] = stage[q]
  BY PcMoves
<1>2. WaitOK'
  BY <1>1 DEF LockInv, WaitOK, Leading, LockWait
<1>3. ~flaky' => GapOK'
  <2> SUFFICES ASSUME ~flaky PROVE GapOK'
    OBVIOUS
  (* Who holds the Lease alive held it alive. *)
  <2>1. ASSUME NEW q \in Procs, Alive(q)', holder = q PROVE Alive(q)
    BY <1>1, <2>1 DEF Alive, Leading, LockInv, WaitOK
  <2>2. \A q \in Procs : Candidate(q)' => Candidate(q) \/ stage[q] = "idle"
    BY <1>1 DEF Candidate, Leading
  <2>3. \A q \in Procs : stage'[q] \in {"idle", "waiting"} => stage[q] \in {"idle", "waiting"}
    BY <1>1 DEF Leading
  <2>4. \A q \in Procs : stage[q] = "idle" => ~seen[q]
    BY DEF LockInv, WaitOK
  <2> QED BY <2>1, <2>2, <2>3, <2>4 DEF LockInv, GapOK
<1>4. ExitedHoldsNothing'
  BY <1>1 DEF LockInv, ExitedHoldsNothing
<1> QED BY <1>2, <1>3, <1>4 DEF LockInv

LEMMA ObserveLock == ASSUME IInv, LockInv, NEW p \in Procs, Observe(p) PROVE LockInv'
<1>1. /\ Candidate(p) /\ ~seen[p] /\ UNCHANGED <<flaky, stage, holder, waited, gap>>
      /\ seen'[p] /\ \A q \in Procs : q # p => seen'[q] = seen[q] /\ age'[q] = age[q]
      /\ age'[p] = 0
  BY DEF Observe, IInv, LockTypeOK
<1>2. WaitOK' /\ ExitedHoldsNothing'
  BY <1>1 DEF LockInv, WaitOK, ExitedHoldsNothing, Candidate
<1>3. ~flaky' => GapOK'
  <2> SUFFICES ASSUME ~flaky PROVE GapOK'
    BY <1>1
  <2>1. gap[p] = 0
    BY <1>1 DEF LockInv, GapOK, Candidate
  <2>2. ASSUME NEW q \in Procs, Candidate(q)', seen'[q] PROVE gap'[q] <= age'[q]
    BY <1>1, <2>1, <2>2 DEF LockInv, GapOK, Candidate
  <2>3. \A q \in Procs : ~seen'[q] => ~seen[q]
    BY <1>1
  <2>4. \A q : Alive(q)' <=> Alive(q)
    BY <1>1 DEF Alive
  <2> QED BY <1>1, <2>2, <2>3, <2>4 DEF LockInv, GapOK
<1> QED BY <1>2, <1>3 DEF LockInv

(* Whoever takes the Lease or gives it up, nobody has waited since. *)
LEMMA AcquireLock == ASSUME IInv, LockInv, NEW p \in Procs, TakeLease(p) PROVE LockInv'
<1>1. /\ stage[p] = "waiting" /\ stage'[p] = "acquired" /\ \A q \in Procs : q # p => stage'[q] = stage[q]
      /\ holder' = p /\ UNCHANGED <<flaky, age, waited>>
      /\ \A q \in Procs : gap'[q] = 0 /\ seen'[q] = (q = p)
  BY DEF TakeLease, CanTake, Candidate, Rewritten, IInv, LockTypeOK
<1>2. WaitOK'
  BY <1>1 DEF LockInv, WaitOK, LockWait
<1>3. ExitedHoldsNothing'
  BY <1>1 DEF ExitedHoldsNothing
<1>4. GapOK'
  <2>1. \A q \in Procs : age'[q] >= 0
    BY <1>1 DEF IInv, LockTypeOK
  <2> QED BY <1>1, <2>1, TimesAssumption DEF GapOK
<1> QED BY <1>2, <1>3, <1>4 DEF LockInv

LEMMA RenewLock == ASSUME IInv, LockInv, NEW p \in Procs, Renew(p) PROVE LockInv'
<1>1. /\ Leading(p) /\ UNCHANGED <<flaky, stage, holder, age, waited, gap>>
      /\ \A q \in Procs : seen'[q] = (q = p)
      /\ holder = p
  BY DEF Renew, Rewritten, IInv, LockTypeOK
<1>2. WaitOK' /\ ExitedHoldsNothing'
  BY <1>1 DEF LockInv, WaitOK, ExitedHoldsNothing, Leading, LockWait
<1>3. ~flaky' => GapOK'
  <2> SUFFICES ASSUME ~flaky PROVE GapOK'
    BY <1>1
  <2>1. \A q \in Procs : gap[q] = 0
    BY <1>1 DEF LockInv, GapOK, Alive, Leading
  <2>2. \A q \in Procs : age[q] >= 0
    BY DEF IInv, LockTypeOK
  <2> QED BY <1>1, <2>1, <2>2, TimesAssumption DEF GapOK
<1> QED BY <1>2, <1>3 DEF LockInv

(* A scan that gives the Lease up before its context ends: requests fail. *)
LEMMA RelinquishLock == ASSUME IInv, LockInv, NEW p \in Procs, Relinquish(p) PROVE LockInv'
<1>1. /\ stage[p] = "losing" /\ stage'[p] = "lost"
      /\ \A q \in Procs : q # p => stage'[q] = stage[q]
      /\ UNCHANGED <<flaky, age, waited, gap>>
      /\ flaky
      /\ holder' \in {holder, Free}
      /\ \A q \in Procs : seen'[q] => seen[q]
  BY DEF Relinquish, IInv, LockTypeOK, LockInv, WaitOK
<1>2. WaitOK'
  BY <1>1, FreeAssumption DEF LockInv, WaitOK, LockWait
<1> QED BY <1>1, <1>2 DEF LockInv, ExitedHoldsNothing

LEMMA StoppedLock == ASSUME IInv, LockInv, NEW p \in Procs, Stopped(p) PROVE LockInv'
<1>1. /\ stage[p] \in {"over", "ending", "refusing"} /\ stage'[p] \in {"done", "refused"}
      /\ \A q \in Procs : q # p => stage'[q] = stage[q]
      /\ UNCHANGED <<flaky, age, waited, gap>>
  BY DEF Stopped, Exited, IInv, LockTypeOK
<1>2. CASE holder = p /\ holder' = Free /\ seen' = [q \in Procs |-> FALSE]
  <2>1. WaitOK' /\ ExitedHoldsNothing'
    BY <1>1, <1>2, FreeAssumption DEF LockInv, WaitOK, ExitedHoldsNothing, LockWait
  <2>2. ~flaky => \A q \in Procs : gap[q] = 0
    BY <1>1, <1>2 DEF LockInv, GapOK, Alive
  <2>3. \A q \in Procs : age[q] >= 0
    BY DEF IInv, LockTypeOK
  <2>4. ~flaky' => GapOK'
    BY <1>1, <2>2, <2>3, TimesAssumption DEF GapOK
  <2> QED BY <2>1, <2>4 DEF LockInv
<1>3. CASE (holder # p \/ flaky) /\ UNCHANGED <<holder, seen>>
  <2>1. WaitOK' /\ ExitedHoldsNothing'
    BY <1>1, <1>3 DEF LockInv, WaitOK, ExitedHoldsNothing, LockWait
  <2>2. \A q \in Procs : (Alive(q)' => Alive(q)) /\ (Candidate(q)' => Candidate(q))
                         /\ (stage'[q] \in {"idle", "waiting"} => stage[q] = stage'[q])
    BY <1>1 DEF Alive, Candidate
  <2>3. ~flaky' => GapOK'
    BY <1>1, <1>3, <2>2 DEF LockInv, GapOK
  <2> QED BY <2>1, <2>3 DEF LockInv
<1> QED BY <1>2, <1>3 DEF Stopped

(* Time passes only while a candidate that could take the Lease does not exist: *)
(* the record it watches is younger than the Lease's duration.                  *)
LEMMA TickLock == ASSUME IInv, LockInv, Tick PROVE LockInv'
<1>1. UNCHANGED <<flaky, stage, holder, seen>>
  BY DEF Tick
<1>2. \A p \in Procs : waited'[p] >= waited[p] /\ waited[p] \in Nat /\ age[p] \in Nat /\ gap[p] \in Nat
  BY TimesAssumption DEF Tick, Upto, IInv, LockTypeOK, LockWait
<1>3. WaitOK' /\ ExitedHoldsNothing'
  <2>1. ASSUME NEW p \in Procs, waited[p] >= LockWait PROVE waited'[p] >= LockWait
    BY <1>2, <2>1, TimesAssumption DEF Tick, Upto, LockWait
  <2>2. WaitOK'
    BY <1>1, <2>1 DEF LockInv, WaitOK, LockWait
  <2> QED BY <1>1, <2>2 DEF LockInv, ExitedHoldsNothing
<1>4. ~flaky' => GapOK'
  <2> SUFFICES ASSUME ~flaky PROVE GapOK'
    BY <1>1
  <2>1. ASSUME NEW p \in Procs, ~Candidate(p) PROVE gap'[p] = gap[p]
    BY <2>1 DEF Tick
  <2>2. ASSUME NEW p \in Procs, Candidate(p)
        PROVE  /\ holder # Free /\ seen[p] /\ age[p] < LeaseDuration
               /\ age'[p] = age[p] + 1
               /\ gap'[p] <= gap[p] + 1 /\ gap[p] <= age[p]
               /\ (\E q \in Procs : Alive(q) /\ holder = q) => gap'[p] = 0
    <3>1. holder # Free /\ seen[p] /\ ~(age[p] >= LeaseDuration)
      BY <2>2 DEF Tick, CanTake
    <3>2. age[p] < LeaseDuration
      BY <1>2, <3>1, TimesAssumption
    <3>3. age'[p] = age[p] + 1
      BY <2>2, <3>2 DEF Tick, Upto
    <3>4. gap'[p] = 0 \/ gap'[p] = Upto(gap[p], LockWait)
      BY <2>2 DEF Tick
    <3>5. gap'[p] <= gap[p] + 1
      BY <1>2, <3>4 DEF Upto
    <3>6. ASSUME NEW q \in Procs, Alive(q), holder = q PROVE gap'[p] = 0
      <4>1. q # p
        BY <2>2, <3>6 DEF Alive, Candidate
      <4> QED BY <2>2, <3>6, <4>1 DEF Tick
    <3> QED BY <2>2, <3>1, <3>2, <3>3, <3>5, <3>6 DEF LockInv, GapOK
  <2>3. \A p \in Procs : (Alive(p)' <=> Alive(p)) /\ (Candidate(p)' <=> Candidate(p))
    BY <1>1 DEF Alive, Candidate
  <2>4. ASSUME NEW p \in Procs, Candidate(p), seen[p] PROVE gap'[p] <= age'[p]
    <3>1. gap'[p] \in Nat
      BY <1>2, <2>4 DEF Tick, Upto
    <3> QED BY <1>2, <2>2, <2>4, <3>1
  <2>5. ASSUME NEW p \in Procs PROVE gap'[p] <= LeaseDuration
    <3>1. CASE Candidate(p)
      <4>1. gap'[p] \in Nat
        BY <1>2, <3>1 DEF Tick, Upto
      <4> QED BY <1>2, <2>2, <3>1, <4>1, TimesAssumption
    <3>2. CASE ~Candidate(p)
      BY <2>1, <3>2 DEF LockInv, GapOK
    <3> QED BY <3>1, <3>2
  <2>6. ASSUME NEW p \in Procs, holder = Free \/ \E q \in Procs : Alive(q) /\ holder = q
        PROVE  gap'[p] = 0
    <3>1. CASE Candidate(p)
      BY <2>2, <2>6, <3>1
    <3>2. CASE ~Candidate(p)
      BY <2>1, <2>6, <3>2 DEF LockInv, GapOK
    <3> QED BY <3>1, <3>2
  <2>7. ASSUME NEW p \in Procs, stage[p] \in {"idle", "waiting"}, ~seen[p] PROVE gap'[p] = 0
    BY <2>1, <2>2, <2>7 DEF LockInv, GapOK
  <2> QED BY <1>1, <2>3, <2>4, <2>5, <2>6, <2>7 DEF GapOK
<1> QED BY <1>3, <1>4 DEF LockInv

LEMMA LockStep == IInv /\ LockInv /\ [LockNext]_lockVars => LockInv'
<1> SUFFICES ASSUME IInv, LockInv, [LockNext]_lockVars PROVE LockInv'
  OBVIOUS
<1>1. ASSUME NEW p \in Procs, Start(p) PROVE LockInv'
  BY <1>1, MoveLock DEF Start
<1>2. ASSUME NEW p \in Procs, Lose(p) \/ Enter(p) \/ Cut(p) \/ ReleaseLock(p) PROVE LockInv'
  <2>1. CASE Lose(p)
    BY <2>1, MoveLock DEF Lose, Leading
  <2>2. CASE Enter(p)
    BY <2>2, MoveLock DEF Enter, Leading
  <2>3. CASE Cut(p)
    BY <2>3, MoveLock DEF Cut
  <2>4. CASE ReleaseLock(p)
    BY <2>4, MoveLock DEF ReleaseLock, Ended, Running, Leading
  <2> QED BY <1>2, <2>1, <2>2, <2>3, <2>4
<1>3. ASSUME NEW p \in Procs, TimeUp(p) PROVE LockInv'
  BY <1>3, MoveLock DEF TimeUp
<1>4. ASSUME NEW p \in Procs, Sigterm(p) PROVE LockInv'
  <2>1. CASE Candidate(p)
    BY <1>4, <2>1, MoveLock DEF Sigterm, Candidate, Running
  <2>2. CASE ~Candidate(p)
    BY <1>4, <2>2, MoveLock DEF Sigterm, Ended, Running, Leading
  <2> QED BY <2>1, <2>2
<1>5. ASSUME NEW p \in Procs, Crash(p) PROVE LockInv'
  BY <1>5, MoveLock DEF Crash, Candidate, Alive, Leading
<1>6. CASE UNCHANGED lockVars
  BY <1>6 DEF lockVars, LockInv, WaitOK, GapOK, ExitedHoldsNothing, Alive, Candidate
<1> QED BY <1>1, <1>2, <1>3, <1>4, <1>5, <1>6, ObserveLock, AcquireLock, RenewLock, RelinquishLock, StoppedLock, TickLock
        DEF LockNext, Elector, Process

LEMMA AlwaysLock == LockSpec => []LockInv
<1> QED BY InitLock, LockStep, Invariance, PTL DEF LockSpec

(***************************************************************************)
(* kube.go, Lock: for any number of processes and any lease duration, a    *)
(* scan that is refused was not left waiting for one that is gone: without *)
(* a live holder it waited a lease duration at most, less than lockWait.   *)
(***************************************************************************)
THEOREM RefusalIsJust == LockSpec => []RefusedMeansHeld
<1>1. IInv /\ LockInv => RefusedMeansHeld
  <2> SUFFICES ASSUME IInv, LockInv, ~flaky, NEW p \in Procs, stage[p] = "refusing"
               PROVE  gap[p] <= LeaseDuration /\ gap[p] < waited[p]
    BY DEF RefusedMeansHeld
  <2>1. gap[p] <= LeaseDuration /\ waited[p] >= LockWait
    BY DEF LockInv, GapOK, WaitOK
  <2>2. gap[p] \in Nat /\ waited[p] \in Nat /\ LeaseDuration \in Nat /\ LeaseDuration > 0
    BY TimesAssumption DEF IInv, LockTypeOK, LockWait
  <2> QED BY <2>1, <2>2 DEF LockWait
<1> QED BY <1>1, Invariance, AlwaysLock, PTL

(* An orderly exit leaves no Lease behind (kube.go: release waits until the  *)
(* elector has stopped), for any number of processes.                        *)
THEOREM ExitFreesLease == LockSpec => []ExitedHoldsNothing
<1>1. LockInv => ExitedHoldsNothing
  BY DEF LockInv
<1> QED BY <1>1, AlwaysLock, PTL
=============================================================================
