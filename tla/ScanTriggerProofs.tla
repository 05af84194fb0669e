-------------------------- MODULE ScanTriggerProofs --------------------------
(***************************************************************************)
(* For any clicks, replicas and seconds: a click is accepted only after    *)
(* every manual scan that was unfinished when it came in.                  *)
(*                                                                         *)
(* The argument: the Jobs a click found unfinished exist, and a Job that   *)
(* exists never becomes unfinished again, since a name is given once.  So  *)
(* when the click sees none unfinished, those it found have ended for      *)
(* good, whatever is created and whatever ends before it is answered.      *)
(*                                                                         *)
(* The status of a replica: while Running asks, no kept answer is served   *)
(* (a request waits for the mutex), so an answer is kept by the poll that  *)
(* read it or by the click that made it true.  A Job not in the list the   *)
(* poll got was created after it was read; a click accepted before the     *)
(* poll began is in that list while its Job is unfinished, and none is     *)
(* accepted on this replica before the poll has ended.                     *)
(***************************************************************************)
EXTENDS ScanTrigger, TLAPS

Found(c) == \A t \in before[c] : jobs[t] # "none"
Clear(c) == click[c] \in {"create", "keep"} \/ answer[c] = 202 => before[c] \cap Unfinished = {}

TriggerInv == TypeOK /\ \A c \in Clicks : Found(c) /\ Clear(c)

LEMMA ClockTyped == 0 \in Seconds /\ -RunningTTL \in Times /\ Seconds \subseteq Times
BY TriggerAssumption DEF Seconds, Times

LEMMA InitTrigger == Init => TriggerInv
<1> SUFFICES ASSUME Init PROVE TriggerInv
  OBVIOUS
<1>1. TypeOK
  BY ClockTyped DEF Init, TypeOK
<1>2. \A c \in Clicks : before[c] = {}
  BY DEF Init
<1> QED BY <1>1, <1>2 DEF TriggerInv, Found, Clear

LEMMA TypeStep == TypeOK /\ [Next]_vars => TypeOK'
<1> SUFFICES ASSUME TypeOK, [Next]_vars PROVE TypeOK'
  OBVIOUS
<1> USE TriggerAssumption, ClockTyped DEF TypeOK, jobVars, clickVars, cacheVars, Answer
<1>1. ASSUME NEW c \in Clicks, Post(c) PROVE TypeOK'
  <2>1. CASE Click(c)
    BY <2>1 DEF Click, Unfinished
  <2>2. CASE GetCronJob(c)
    BY <2>2 DEF GetCronJob
  <2>3. CASE ListJobs(c)
    BY <2>3 DEF ListJobs
  <2>4. CASE CreateJob(c)
    <3>1. /\ jobs' \in [Seconds -> {"none", "active", "ended"}] /\ made' \in [Clicks -> Seconds]
          /\ UNCHANGED <<now, cron, cronShown, before, poll, cacheVars>>
      BY <2>4 DEF CreateJob
    <3>2. \/ \E status \in {409, 500} : Answer(c, status)
          \/ click' = [click EXCEPT ![c] = "keep"] /\ answer' = answer /\ click[c] = "create"
      BY <2>4 DEF CreateJob
    <3> QED BY <3>1, <3>2
  <2>5. CASE KeepRunning(c)
    BY <2>5 DEF KeepRunning
  <2>6. CASE RequestFails(c)
    BY <2>6 DEF RequestFails
  <2> QED BY <1>1, <2>1, <2>2, <2>3, <2>4, <2>5, <2>6 DEF Post
<1>2. ASSUME NEW d \in Dashboards, Status(d) PROVE TypeOK'
  <2>1. CASE Ask(d)
    BY <2>1 DEF Ask
  <2>2. CASE AskCronJob(d)
    BY <2>2 DEF AskCronJob
  <2>3. CASE AskJobs(d)
    BY <2>3 DEF AskJobs, SeesManualJob
  <2>4. CASE Keep(d)
    <3>1. PICK b \in BOOLEAN : running' = [running EXCEPT ![d] = b]
      BY Zenon, <2>4 DEF Keep
    <3>2. PICK b2 \in BOOLEAN : blind' = [blind EXCEPT ![d] = b2]
      BY Zenon, <2>4 DEF Keep
    <3> QED BY <2>4, <3>1, <3>2 DEF Keep
  <2> QED BY <1>2, <2>1, <2>2, <2>3, <2>4 DEF Status
<1>3. CASE Schedule
  BY <1>3 DEF Schedule
<1>7. CASE UpdateStatus
  <2>1. cronShown' \in BOOLEAN
    BY <1>7, Zenon DEF UpdateStatus
  <2> QED BY <1>7, <2>1 DEF UpdateStatus
<1>4. CASE JobEnds
  BY <1>4 DEF JobEnds, Unfinished
<1>5. CASE Tick
  BY <1>5 DEF Tick, Seconds
<1>6. CASE UNCHANGED vars
  BY <1>6 DEF vars
<1> QED BY <1>1, <1>2, <1>3, <1>4, <1>5, <1>6, <1>7 DEF Next

(* Whatever happens, a Job that exists stays, and does not begin again. *)
LEMMA JobsAge ==
  ASSUME TypeOK, [Next]_vars, NEW t \in Seconds, jobs[t] # "none"
  PROVE  jobs'[t] # "none" /\ (t \in Unfinished' => t \in Unfinished)
<1>1. CASE \E c \in Clicks : CreateJob(c)
  BY <1>1 DEF CreateJob, Unfinished, TypeOK
<1>2. CASE JobEnds
  BY <1>2 DEF JobEnds, Unfinished, TypeOK
<1>3. CASE UNCHANGED jobs
  BY <1>3 DEF Unfinished
<1> QED
  BY <1>1, <1>2, <1>3
     DEF Next, Post, Click, GetCronJob, ListJobs, KeepRunning, RequestFails, Status, Ask, AskCronJob,
         AskJobs, Keep, Schedule, UpdateStatus, Tick, vars, jobVars

(* A click that is let through, or stays so, has seen no unfinished Job. *)
LEMMA LetThrough ==
  ASSUME TypeOK, [Next]_vars, NEW c \in Clicks,
         click'[c] \in {"create", "keep"} \/ answer'[c] = 202
  PROVE  /\ before'[c] = before[c]
         /\ click[c] \in {"create", "keep"} \/ answer[c] = 202 \/ Unfinished = {}
<1> USE DEF TypeOK, Answer
<1>1. ASSUME NEW b \in Clicks, Post(b) 
      PROVE /\ before'[c] = before[c]
            /\ (click[c] \in {"create", "keep"} \/ answer[c] = 202 \/ Unfinished = {})
  <2>1. CASE Click(b)
    BY <2>1 DEF Click
  <2>2. CASE GetCronJob(b)
    BY <2>2 DEF GetCronJob
  <2>3. CASE ListJobs(b)
    BY <2>3 DEF ListJobs, SeesManualJob
  <2>4. CASE CreateJob(b)
    BY <2>4 DEF CreateJob
  <2>5. CASE KeepRunning(b)
    BY <2>5 DEF KeepRunning
  <2>6. CASE RequestFails(b)
    BY <2>6 DEF RequestFails
  <2> QED BY <1>1, <2>1, <2>2, <2>3, <2>4, <2>5, <2>6 DEF Post
<1>2. CASE UNCHANGED clickVars
  BY <1>2 DEF clickVars
<1> QED
  BY <1>1, <1>2
     DEF Next, Status, Ask, AskCronJob, AskJobs, Keep, Schedule, UpdateStatus, JobEnds, Tick, vars

LEMMA FoundStep ==
  ASSUME TypeOK, [Next]_vars, NEW c \in Clicks, Found(c)
  PROVE  Found(c)'
<1>1. before'[c] = before[c] \/ (before'[c] = Unfinished /\ jobs' = jobs)
  <2>1. CASE \E b \in Clicks : Click(b)
    BY <2>1 DEF Click, jobVars, TypeOK
  <2>2. CASE before' = before
    BY <2>2
  <2> QED
    BY <2>1, <2>2
       DEF Next, Post, GetCronJob, ListJobs, CreateJob, KeepRunning, RequestFails, Status, Ask, AskCronJob,
           AskJobs, Keep, Schedule, UpdateStatus, JobEnds, Tick, vars, clickVars
<1>2. CASE before'[c] = before[c]
  BY <1>2, JobsAge DEF Found, TypeOK
<1>3. CASE before'[c] = Unfinished /\ jobs' = jobs
  BY <1>3 DEF Found, Unfinished
<1> QED BY <1>1, <1>2, <1>3

LEMMA TriggerStep == TriggerInv /\ [Next]_vars => TriggerInv'
<1> SUFFICES ASSUME TriggerInv, [Next]_vars PROVE TriggerInv'
  OBVIOUS
<1>1. TypeOK /\ TypeOK'
  BY TypeStep DEF TriggerInv
<1>2. ASSUME NEW c \in Clicks PROVE Found(c)' /\ Clear(c)'
  <2>1. Found(c) /\ Clear(c)
    BY DEF TriggerInv
  <2>2. Found(c)'
    BY <1>1, <2>1, FoundStep
  <2>3. ASSUME click'[c] \in {"create", "keep"} \/ answer'[c] = 202, NEW t \in before'[c], t \in Unfinished'
        PROVE  FALSE
    <3>1. before'[c] = before[c]
      BY <1>1, <2>3, LetThrough
    <3>2. t \in Seconds /\ jobs[t] # "none"
      BY <1>1, <2>1, <2>3, <3>1 DEF Found, TypeOK
    <3>3. t \in Unfinished
      BY <1>1, <2>3, <3>2, JobsAge
    <3>4. click[c] \in {"create", "keep"} \/ answer[c] = 202
      BY <1>1, <2>3, <3>3, LetThrough
    <3> QED BY <2>1, <2>3, <3>1, <3>3, <3>4 DEF Clear
  <2>4. Clear(c)'
    BY <2>3 DEF Clear
  <2> QED BY <2>2, <2>4
<1> QED BY <1>1, <1>2 DEF TriggerInv

LEMMA AlwaysTriggerInv == Spec => []TriggerInv
BY InitTrigger, TriggerStep, PTL DEF Spec

(* Type correctness (trigger/kubernetes.go). *)
THEOREM TriggerTypeCorrect == Spec => []TypeOK
<1>1. TriggerInv => TypeOK
  BY DEF TriggerInv
<1> QED BY <1>1, AlwaysTriggerInv, PTL

(* kubernetes.go:53: for any clicks on any replicas, a click is accepted    *)
(* only when every manual scan unfinished at its arrival has ended.         *)
THEOREM AcceptedLater == Spec => []AcceptedAfterOthers
<1>1. TriggerInv => AcceptedAfterOthers
  BY DEF TriggerInv, Clear, AcceptedAfterOthers
<1> QED BY <1>1, AlwaysTriggerInv, PTL
----------------------------------------------------------------------------
(* The status that a replica keeps.                                        *)

(* What a replica answers, or is about to keep, was true when it was read. *)
Since(d) == \A t \in Unfinished : t >= readAt[d]

Reads(d) ==
  /\ readAt[d] <= now
  /\ poll[d] # "idle" => ~Kept(d)
  /\ poll[d] = "keep" /\ ~found[d] => Since(d)
  /\ poll[d] = "idle" /\ Kept(d) /\ ~running[d] /\ ~blind[d] => Since(d)

(* A Job is there before its click is answered; a replica that accepted the *)
(* click and keeps an answer, or is about to, has seen the Job.             *)
Shows(c, d) ==
  /\ click[c] = "keep" \/ answer[c] = 202 => jobs[made[c]] # "none"
  /\ answer[c] = 202 /\ Home[c] = d /\ made[c] \in Unfinished =>
       /\ poll[d] = "keep" => found[d]
       /\ poll[d] = "idle" /\ Kept(d) => running[d] \/ blind[d]

StatusInv == TypeOK /\ \A d \in Dashboards : Reads(d) /\ \A c \in Clicks : Shows(c, d)

LEMMA InitStatus == Init => StatusInv
<1> SUFFICES ASSUME Init PROVE StatusInv
  OBVIOUS
<1>1. TypeOK
  BY InitTrigger DEF TriggerInv
<1>2. ASSUME NEW d \in Dashboards PROVE Reads(d)
  <2>1. now = 0 /\ runningAt[d] = -RunningTTL /\ readAt[d] = -RunningTTL /\ poll[d] = "idle"
    BY DEF Init
  <2>2. ~Kept(d) /\ readAt[d] <= now
    BY <2>1, TriggerAssumption DEF Kept
  <2> QED BY <2>1, <2>2 DEF Reads
<1>3. \A c \in Clicks : click[c] = "idle" /\ answer[c] = 0
  BY DEF Init
<1> QED BY <1>1, <1>2, <1>3 DEF StatusInv, Shows

(* The clock does not go back, and only the Jobs of this second are new. *)
LEMMA ClockAndJobs ==
  ASSUME TypeOK, [Next]_vars
  PROVE  /\ now' \in {now, now + 1} /\ now \in Int
         /\ \A t \in Unfinished' : t \in Unfinished \/ (t = now /\ jobs[t] = "none")
<1>1. ASSUME NEW c \in Clicks, CreateJob(c)
      PROVE  /\ now' = now /\ now \in Int
             /\ \A t \in Unfinished' : t \in Unfinished \/ (t = now /\ jobs[t] = "none")
  <2>1. jobs' = jobs \/ (jobs[now] = "none" /\ jobs' = [jobs EXCEPT ![now] = "active"])
    BY <1>1 DEF CreateJob
  <2>2. now' = now /\ now \in Int /\ jobs \in [Seconds -> {"none", "active", "ended"}]
    BY <1>1 DEF CreateJob, TypeOK, Seconds
  <2> QED BY <2>1, <2>2 DEF Unfinished
<1>2. CASE JobEnds
  <2>1. now' = now /\ now \in Int /\ jobs \in [Seconds -> {"none", "active", "ended"}]
    BY <1>2 DEF JobEnds, TypeOK, Seconds
  <2>2. \A t \in Unfinished' : t \in Unfinished
    BY <1>2, <2>1 DEF JobEnds, Unfinished
  <2> QED BY <2>1, <2>2
<1>3. CASE UNCHANGED jobs /\ now' \in {now, now + 1}
  BY <1>3 DEF Unfinished, TypeOK, Seconds
<1> QED
  BY <1>1, <1>2, <1>3
     DEF Next, Post, Click, GetCronJob, ListJobs, KeepRunning, RequestFails, Status, Ask, AskCronJob,
         AskJobs, Keep, Schedule, UpdateStatus, Tick, vars, jobVars

(* A kept answer only grows older. *)
LEMMA KeptAges ==
  ASSUME TypeOK, [Next]_vars, NEW d \in Dashboards, runningAt'[d] = runningAt[d]
  PROVE  Kept(d)' => Kept(d)
<1>1. runningAt[d] \in Int /\ RunningTTL \in Int
  BY TriggerAssumption DEF TypeOK, Times
<1> QED BY <1>1, ClockAndJobs DEF Kept

(* A Job stays unfinished in what was read before it, and after. *)
LEMMA SinceStays ==
  ASSUME TypeOK, [Next]_vars, NEW d \in Dashboards, readAt'[d] = readAt[d], readAt[d] <= now, Since(d)
  PROVE  Since(d)'
BY ClockAndJobs DEF Since

(* A replica that does nothing. *)
QuietReplica(d) ==
  /\ poll'[d] = poll[d] /\ found'[d] = found[d] /\ running'[d] = running[d]
  /\ runningAt'[d] = runningAt[d] /\ readAt'[d] = readAt[d] /\ blind'[d] = blind[d]

LEMMA QuietReads ==
  ASSUME TypeOK, [Next]_vars, NEW d \in Dashboards, Reads(d), QuietReplica(d)
  PROVE  Reads(d)'
<1>1. readAt'[d] <= now'
  <2>1. readAt[d] \in Int
    BY TriggerAssumption DEF TypeOK, Times
  <2> QED BY <2>1, ClockAndJobs DEF Reads, QuietReplica
<1>2. Kept(d)' => Kept(d)
  BY KeptAges DEF QuietReplica
<1>3. Since(d) => Since(d)'
  BY SinceStays DEF Reads, QuietReplica
<1> QED BY <1>1, <1>2, <1>3 DEF Reads, QuietReplica

(* The replicas that do something. *)
LEMMA WhoMoves ==
  ASSUME TypeOK, [Next]_vars, NEW d \in Dashboards
  PROVE  QuietReplica(d) \/ Status(d) \/ \E c \in Clicks : Home[c] = d /\ KeepRunning(c)
<1> USE DEF QuietReplica, TypeOK, cacheVars
<1>1. ASSUME NEW c \in Clicks, KeepRunning(c), Home[c] # d PROVE QuietReplica(d)
  <2>1. Home[c] \in Dashboards
    BY TriggerAssumption
  <2>2. \A any : /\ [running EXCEPT ![Home[c]] = any][d] = running[d]
                 /\ [runningAt EXCEPT ![Home[c]] = any][d] = runningAt[d]
                 /\ [blind EXCEPT ![Home[c]] = any][d] = blind[d]
    BY <1>1, <2>1
  <2> QED BY <1>1, <2>2 DEF KeepRunning
<1>2. ASSUME NEW e \in Dashboards, Status(e), e # d PROVE QuietReplica(d)
  BY <1>2 DEF Status, Ask, AskCronJob, AskJobs, Keep
<1>3. CASE UNCHANGED <<poll, cacheVars>>
  BY <1>3
<1> QED
  BY <1>1, <1>2, <1>3
     DEF Next, Post, Click, GetCronJob, ListJobs, CreateJob, RequestFails, Schedule, UpdateStatus,
         JobEnds, Tick, vars
(* Running on one replica: what it reads, and what it keeps. *)
LEMMA StatusReads ==
  ASSUME TypeOK, [Next]_vars, NEW d \in Dashboards, Reads(d), Status(d)
  PROVE  Reads(d)'
<1> USE DEF TypeOK
<1>1. now' = now /\ now \in Int /\ jobs' = jobs
  BY DEF Status, Ask, AskCronJob, AskJobs, Keep, jobVars, Seconds
<1>2. Unfinished' = Unfinished
  BY <1>1 DEF Unfinished
<1>3. CASE Ask(d)
  <2>1. /\ poll'[d] = "cronjob" /\ readAt' = readAt /\ runningAt' = runningAt /\ ~Kept(d)
    BY <1>3 DEF Ask, cacheVars
  <2> QED BY <1>1, <2>1 DEF Reads, Kept
<1>4. CASE AskCronJob(d) \/ AskJobs(d)
  <2>1. readAt'[d] = now /\ runningAt' = runningAt /\ poll[d] # "idle"
    BY <1>4 DEF AskCronJob, AskJobs
  <2>2. ~Kept(d)'
    BY <1>1, <2>1 DEF Reads, Kept
  <2>3. poll'[d] = "keep" /\ ~found'[d] => Unfinished' = {}
    <3>1. CASE AskCronJob(d)
      BY <3>1 DEF AskCronJob
    <3>2. CASE AskJobs(d)
      BY <1>2, <3>2 DEF AskJobs, SeesManualJob
    <3> QED BY <1>4, <3>1, <3>2
  <2> QED BY <1>1, <2>1, <2>2, <2>3 DEF Reads, Since
<1>5. CASE Keep(d)
  <2>1. poll'[d] = "idle" /\ readAt' = readAt
    BY <1>5 DEF Keep
  <2>2. ~running'[d] /\ ~blind'[d] => poll[d] = "keep" /\ ~found[d]
    BY <1>5 DEF Keep
  <2> QED BY <1>1, <1>2, <2>1, <2>2 DEF Reads, Since
<1> QED BY <1>3, <1>4, <1>5 DEF Status

LEMMA ReadsStep ==
  ASSUME TypeOK, [Next]_vars, NEW d \in Dashboards, Reads(d)
  PROVE  Reads(d)'
<1>1. ASSUME NEW c \in Clicks, Home[c] = d, KeepRunning(c) PROVE Reads(d)'
  <2>1. /\ now' = now /\ readAt' = readAt /\ poll' = poll /\ poll[d] = "idle" /\ running'[d]
    BY <1>1 DEF KeepRunning, TypeOK
  <2> QED BY <2>1 DEF Reads
<1> QED BY <1>1, WhoMoves, QuietReads, StatusReads

(* Of a click that was answered, its replica and its Job. *)
LEMMA MadeStep ==
  ASSUME TypeOK, [Next]_vars, NEW c \in Clicks, NEW d \in Dashboards, Shows(c, d),
         click'[c] = "keep" \/ answer'[c] = 202
  PROVE  /\ jobs'[made'[c]] # "none"
         /\ answer'[c] = 202 =>
              \/ answer[c] = 202 /\ made'[c] = made[c] /\ (made'[c] \in Unfinished' => made[c] \in Unfinished)
              \/ KeepRunning(c)
<1> USE DEF TypeOK, Answer
<1>1. CASE CreateJob(c)
  BY <1>1 DEF CreateJob
<1>2. CASE ~CreateJob(c)
  <2>1. made'[c] = made[c] /\ (click[c] = "keep" \/ answer[c] = 202)
        /\ (answer'[c] = 202 => answer[c] = 202 \/ KeepRunning(c))
    <3>1. ASSUME NEW b \in Clicks, Post(b)
          PROVE  /\ made'[c] = made[c] /\ (click[c] = "keep" \/ answer[c] = 202)
                 /\ (answer'[c] = 202 => answer[c] = 202 \/ KeepRunning(c))
      <4>1. CASE CreateJob(b)
        BY <1>2, <4>1 DEF CreateJob
      <4>2. CASE KeepRunning(b)
        <5>1. made' = made /\ click[b] = "keep"
          BY <4>2 DEF KeepRunning
        <5>2. b # c => click'[c] = click[c] /\ answer'[c] = answer[c]
          BY <4>2 DEF KeepRunning
        <5> QED BY <4>2, <5>1, <5>2
      <4>3. CASE Click(b) \/ GetCronJob(b) \/ ListJobs(b) \/ RequestFails(b)
        BY <4>3 DEF Click, GetCronJob, ListJobs, RequestFails
      <4> QED BY <3>1, <4>1, <4>2, <4>3 DEF Post
    <3>2. CASE UNCHANGED clickVars
      BY <3>2 DEF clickVars
    <3> QED
      BY <3>1, <3>2
         DEF Next, Status, Ask, AskCronJob, AskJobs, Keep, Schedule, UpdateStatus, JobEnds, Tick, vars
  <2>2. made[c] \in Seconds /\ jobs[made[c]] # "none"
    BY <2>1 DEF Shows
  <2> QED BY <2>1, <2>2, JobsAge
<1> QED BY <1>1, <1>2

LEMMA ShowsStep ==
  ASSUME TypeOK, [Next]_vars, NEW c \in Clicks, NEW d \in Dashboards, Reads(d), Shows(c, d)
  PROVE  Shows(c, d)'
<1> SUFFICES ASSUME answer'[c] = 202, Home[c] = d, made'[c] \in Unfinished'
             PROVE  /\ poll'[d] = "keep" => found'[d]
                    /\ poll'[d] = "idle" /\ Kept(d)' => running'[d] \/ blind'[d]
  BY MadeStep DEF Shows
<1> USE DEF TypeOK
<1>1. ASSUME NEW b \in Clicks, Home[b] = d, KeepRunning(b)
      PROVE  poll'[d] = "idle" /\ running'[d]
  BY <1>1 DEF KeepRunning
<1>2. CASE ~KeepRunning(c)
  <2>1. answer[c] = 202 /\ made[c] \in Unfinished
    BY <1>2, MadeStep
  <2>2. CASE QuietReplica(d)
    <3>1. Kept(d)' => Kept(d)
      BY <2>2, KeptAges DEF QuietReplica
    <3> QED BY <2>1, <2>2, <3>1 DEF Shows, QuietReplica
  <2>3. CASE Ask(d)
    BY <2>3 DEF Ask
  <2>4. CASE AskCronJob(d)
    BY <2>4 DEF AskCronJob
  <2>5. CASE AskJobs(d)
    BY <2>1, <2>5 DEF AskJobs, SeesManualJob
  <2>6. CASE Keep(d)
    <3>1. poll'[d] = "idle"
      BY <2>6 DEF Keep
    <3>2. running'[d] \/ blind'[d]
      BY <2>1, <2>6 DEF Keep, Shows
    <3> QED BY <3>1, <3>2
  <2> QED BY <1>1, <2>2, <2>3, <2>4, <2>5, <2>6, WhoMoves DEF Status
<1> QED BY <1>1, <1>2

LEMMA AlwaysStatusInv == Spec => []StatusInv
<1>1. StatusInv /\ [Next]_vars => StatusInv'
  BY TypeStep, ReadsStep, ShowsStep DEF StatusInv
<1> QED BY <1>1, InitStatus, PTL DEF Spec

(* kubernetes.go:114: for any clicks on any replicas, a status that says idle *)
(* hides no manual scan that began before the Jobs were listed for it.        *)
THEOREM IdleStatusIsRecent == Spec => []IdleIsRecent
<1>1. StatusInv => IdleIsRecent
  BY DEF StatusInv, Reads, Since, IdleIsRecent
<1> QED BY <1>1, AlwaysStatusInv, PTL

(* kubernetes.go:88: the replica that accepted a click shows the scan for as   *)
(* long as its Job is unfinished, unless a request to the API server failed.   *)
THEOREM AcceptedStaysShown == Spec => []AcceptedIsShown
<1>1. StatusInv => AcceptedIsShown
  <2> SUFFICES ASSUME StatusInv, NEW c \in Clicks, NEW d \in Dashboards,
                      answer[c] = 202, Home[c] = d, made[c] \in Unfinished, Kept(d)
               PROVE  running[d] \/ blind[d]
    BY DEF AcceptedIsShown
  <2>1. poll[d] = "idle"
    BY DEF StatusInv, Reads
  <2> QED BY <2>1 DEF StatusInv, Shows
<1> QED BY <1>1, AlwaysStatusInv, PTL
=============================================================================
