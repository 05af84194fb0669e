----------------------------- MODULE ScanTrigger -----------------------------
(***************************************************************************)
(* Manual scans in a cluster: trigger.Kubernetes behind POST               *)
(* /api/scan/trigger and GET /api/status of the dashboards                 *)
(* (internal/trigger/kubernetes.go, internal/dashboard/handler.go).        *)
(*                                                                         *)
(* A click reads the CronJob, lists the manual Jobs and creates a Job, in  *)
(* three requests; every dashboard keeps an answer to "is a scan running"  *)
(* for runningTTL behind a mutex it holds while it asks.  Jobs are also    *)
(* created by the CronJob's schedule, whose status lags.  That the scans   *)
(* of two Jobs do not run together is the lock's business (ScanLock).      *)
(***************************************************************************)
EXTENDS Integers

CONSTANTS
  Clicks,       \* POST requests
  Dashboards,   \* replicas
  Home,         \* [Clicks -> the replica that serves the click]
  RunningTTL,   \* runningTTL, in seconds
  MaxTime,      \* bound: seconds
  Fails         \* TRUE: requests to the API server may fail

Seconds == 0 .. MaxTime

ASSUME TriggerAssumption ==
  /\ Home \in [Clicks -> Dashboards]
  /\ RunningTTL \in Nat \ {0} /\ MaxTime \in Nat /\ Fails \in BOOLEAN

VARIABLES
  now,        \* the clock, in seconds
  jobs,       \* [Seconds -> the manual Job whose name ends in that second]
  cron,       \* the Job of the schedule
  cronShown,  \* CronJob.status.active names it
  click,      \* [Clicks -> where the request is]
  answer,     \* [Clicks -> HTTP status, 0 so far]
  made,       \* [Clicks -> the second in the name of the Job it created]
  before,     \* [Clicks -> unfinished manual Jobs when the click came in]
  poll,       \* [Dashboards -> where Running is while it holds the mutex]
  found,      \* [Dashboards -> Running has found a Job in status.active]
  running,    \* [Dashboards -> the answer kept]
  runningAt,  \* [Dashboards -> when it was kept]
  readAt,     \* [Dashboards -> when the Jobs it is about were listed]
  blind       \* [Dashboards -> the answer was kept because a request failed]

jobVars   == <<jobs, cron, cronShown>>
clickVars == <<click, answer, made, before>>
cacheVars == <<found, running, runningAt, readAt, blind>>
vars == <<now, jobVars, clickVars, poll, cacheVars>>

Unfinished == {t \in Seconds : jobs[t] = "active"}

Init ==
  /\ now = 0
  /\ jobs = [t \in Seconds |-> "none"] /\ cron = "none" /\ cronShown = FALSE
  /\ click = [c \in Clicks |-> "idle"]
  /\ answer = [c \in Clicks |-> 0]
  /\ made = [c \in Clicks |-> 0]
  /\ before = [c \in Clicks |-> {}]
  /\ poll = [d \in Dashboards |-> "idle"]
  /\ found = [d \in Dashboards |-> FALSE]
  /\ running = [d \in Dashboards |-> FALSE]
  /\ runningAt = [d \in Dashboards |-> -RunningTTL]
  /\ readAt = [d \in Dashboards |-> -RunningTTL]
  /\ blind = [d \in Dashboards |-> FALSE]

----------------------------------------------------------------------------
(* POST /api/scan/trigger.                                                 *)

Answer(c, status) == answer' = [answer EXCEPT ![c] = status] /\ click' = [click EXCEPT ![c] = "done"]

Click(c) ==
  /\ click[c] = "idle"
  /\ click' = [click EXCEPT ![c] = "cronjob"]
  /\ before' = [before EXCEPT ![c] = Unfinished]
  /\ UNCHANGED <<now, jobVars, answer, made, poll, cacheVars>>

(* activeJob: the CronJob's own Jobs ... *)
GetCronJob(c) ==
  /\ click[c] = "cronjob"
  /\ IF cronShown THEN Answer(c, 409) ELSE click' = [click EXCEPT ![c] = "jobs"] /\ UNCHANGED answer
  /\ UNCHANGED <<now, jobVars, made, before, poll, cacheVars>>

(* Mutant: the Jobs of the schedule are the only ones looked at. *)
SeesNoManualJob == FALSE
SeesManualJob == Unfinished # {}

(* ... and the manual ones. *)
ListJobs(c) ==
  /\ click[c] = "jobs"
  /\ IF SeesManualJob THEN Answer(c, 409) ELSE click' = [click EXCEPT ![c] = "create"] /\ UNCHANGED answer
  /\ UNCHANGED <<now, jobVars, made, before, poll, cacheVars>>

(* The name carries the second: one Job per second at most. *)
CreateJob(c) ==
  /\ click[c] = "create"
  /\ IF jobs[now] # "none"
     THEN Answer(c, 409) /\ UNCHANGED <<jobs, made>>
     ELSE /\ jobs' = [jobs EXCEPT ![now] = "active"]
          /\ made' = [made EXCEPT ![c] = now]
          /\ \/ click' = [click EXCEPT ![c] = "keep"] /\ UNCHANGED answer
             \/ Fails /\ Answer(c, 500)
  /\ UNCHANGED <<now, cron, cronShown, before, poll, cacheVars>>

(* Mutant: without the mutex. *)
KeepUnlocked(c) ==
  /\ click[c] = "keep"
  /\ running' = [running EXCEPT ![Home[c]] = TRUE]
  /\ runningAt' = [runningAt EXCEPT ![Home[c]] = now]
  /\ blind' = [blind EXCEPT ![Home[c]] = FALSE]
  /\ Answer(c, 202)
  /\ UNCHANGED <<now, jobVars, made, before, poll, found, readAt>>

(* The created Job is the answer kept for the next status requests. *)
KeepRunning(c) ==
  /\ click[c] = "keep"
  /\ poll[Home[c]] = "idle"
  /\ running' = [running EXCEPT ![Home[c]] = TRUE]
  /\ runningAt' = [runningAt EXCEPT ![Home[c]] = now]
  /\ blind' = [blind EXCEPT ![Home[c]] = FALSE]
  /\ Answer(c, 202)
  /\ UNCHANGED <<now, jobVars, made, before, poll, found, readAt>>

RequestFails(c) ==
  /\ Fails /\ click[c] \in {"cronjob", "jobs", "create"}
  /\ Answer(c, 500)
  /\ UNCHANGED <<now, jobVars, made, before, poll, cacheVars>>

----------------------------------------------------------------------------
(* GET /api/status: Running.                                               *)

Kept(d) == now - runningAt[d] < RunningTTL

(* A kept answer changes nothing; otherwise Running asks, under the mutex. *)
Ask(d) ==
  /\ poll[d] = "idle" /\ ~Kept(d)
  /\ poll' = [poll EXCEPT ![d] = "cronjob"]
  /\ UNCHANGED <<now, jobVars, clickVars, cacheVars>>

AskCronJob(d) ==
  /\ poll[d] = "cronjob"
  /\ found' = [found EXCEPT ![d] = cronShown]
  /\ readAt' = [readAt EXCEPT ![d] = now]
  /\ poll' = [poll EXCEPT ![d] = IF cronShown THEN "keep" ELSE "jobs"]
  /\ UNCHANGED <<now, jobVars, clickVars, running, runningAt, blind>>

AskJobs(d) ==
  /\ poll[d] = "jobs"
  /\ found' = [found EXCEPT ![d] = SeesManualJob]
  /\ readAt' = [readAt EXCEPT ![d] = now]
  /\ poll' = [poll EXCEPT ![d] = "keep"]
  /\ UNCHANGED <<now, jobVars, clickVars, running, runningAt, blind>>

(* The answer is kept, "no" when a request failed. *)
Keep(d) ==
  /\ \/ /\ poll[d] = "keep"
        /\ running' = [running EXCEPT ![d] = found[d]]
        /\ blind' = [blind EXCEPT ![d] = FALSE]
     \/ /\ Fails /\ poll[d] \in {"cronjob", "jobs"}
        /\ running' = [running EXCEPT ![d] = FALSE]
        /\ blind' = [blind EXCEPT ![d] = TRUE]
  /\ poll' = [poll EXCEPT ![d] = "idle"]
  /\ runningAt' = [runningAt EXCEPT ![d] = now]
  /\ UNCHANGED <<now, jobVars, clickVars, found, readAt>>

----------------------------------------------------------------------------
(* The cluster: the schedule, the status of the CronJob, Jobs that end.    *)

Schedule ==
  /\ cron = "none"
  /\ cron' = "active"
  /\ UNCHANGED <<now, jobs, cronShown, clickVars, poll, cacheVars>>

UpdateStatus ==
  /\ cronShown # (cron = "active")
  /\ cronShown' = (cron = "active")
  /\ UNCHANGED <<now, jobs, cron, clickVars, poll, cacheVars>>

(* No Job ends within the second in which it was created. *)
JobEnds ==
  /\ \/ /\ cron = "active" /\ cron' = "ended"
        /\ UNCHANGED jobs
     \/ \E t \in Unfinished :
          /\ t < now
          /\ jobs' = [jobs EXCEPT ![t] = "ended"]
          /\ UNCHANGED cron
  /\ UNCHANGED <<now, cronShown, clickVars, poll, cacheVars>>

Tick ==
  /\ now < MaxTime
  /\ now' = now + 1
  /\ UNCHANGED <<jobVars, clickVars, poll, cacheVars>>

Post(c) == Click(c) \/ GetCronJob(c) \/ ListJobs(c) \/ CreateJob(c) \/ KeepRunning(c) \/ RequestFails(c)
Status(d) == Ask(d) \/ AskCronJob(d) \/ AskJobs(d) \/ Keep(d)

Next ==
  \/ \E c \in Clicks : Post(c)
  \/ \E d \in Dashboards : Status(d)
  \/ Schedule \/ UpdateStatus \/ JobEnds \/ Tick

Spec == Init /\ [][Next]_vars

----------------------------------------------------------------------------
(* Properties.                                                             *)

Times == -RunningTTL .. MaxTime

(* The type of the state. *)
TypeOK ==
  /\ now \in Seconds
  /\ jobs \in [Seconds -> {"none", "active", "ended"}]
  /\ cron \in {"none", "active", "ended"} /\ cronShown \in BOOLEAN
  /\ click \in [Clicks -> {"idle", "cronjob", "jobs", "create", "keep", "done"}]
  /\ answer \in [Clicks -> {0, 202, 409, 500}]
  /\ \A c \in Clicks : click[c] = "done" <=> answer[c] # 0
  /\ made \in [Clicks -> Seconds] /\ before \in [Clicks -> SUBSET Seconds]
  /\ poll \in [Dashboards -> {"idle", "cronjob", "jobs", "keep"}]
  /\ found \in [Dashboards -> BOOLEAN] /\ running \in [Dashboards -> BOOLEAN]
  /\ runningAt \in [Dashboards -> Times] /\ readAt \in [Dashboards -> Times]
  /\ blind \in [Dashboards -> BOOLEAN]

(***************************************************************************)
(* A click is accepted only when every manual scan that was unfinished     *)
(* when it came in has ended.                                              *)
(***************************************************************************)
AcceptedAfterOthers ==
  \A c \in Clicks : answer[c] = 202 => before[c] \cap Unfinished = {}

(***************************************************************************)
(* The replica that accepted a click shows the scan until it has ended,    *)
(* although a status request may have been under way: its button stays     *)
(* inert.  (A failed request is answered as "not running".)                *)
(***************************************************************************)
AcceptedIsShown ==
  \A c \in Clicks, d \in Dashboards :
    answer[c] = 202 /\ Home[c] = d /\ made[c] \in Unfinished /\ Kept(d) => running[d] \/ blind[d]

(***************************************************************************)
(* An idle status hides no manual scan that began before the Jobs were     *)
(* listed for it, on any replica, whoever created it.                      *)
(***************************************************************************)
IdleIsRecent ==
  \A d \in Dashboards :
    Kept(d) /\ ~running[d] /\ ~blind[d] => \A t \in Unfinished : t >= readAt[d]
=============================================================================
