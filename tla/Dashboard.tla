------------------------------ MODULE Dashboard ------------------------------
(***************************************************************************)
(* The dashboard process: runDashboard of cmd/update-checker/main.go with  *)
(* what it starts.  Its HTTP server (internal/api/server.go) runs until a  *)
(* signal, drains, shuts down and ends the process, or ends it at once     *)
(* when the listener fails.                                                *)
(*                                                                         *)
(* Mode "local": a click, or the interval, starts `update-checker scan` as *)
(* a child process (internal/trigger/process.go); a scan takes the file    *)
(* lock of the data directory (internal/report/file.go) and leaves if      *)
(* another scan has it.  Two dashboards and a command line share the       *)
(* directory.  Mode "kubernetes": the replicas campaign for a Lease        *)
(* (internal/kube/kube.go), and only a replica whose flag `leading` is set *)
(* exports metrics.  ScanTrigger models the scans this mode starts, and    *)
(* ScanLock the Lease, of which this module uses that it has one holder.   *)
(*                                                                         *)
(* Every process lives once: a restarted one is another member of          *)
(* Dashboards.                                                             *)
(***************************************************************************)
EXTENDS Integers

CONSTANTS
  Dashboards,  \* dashboard processes
  Timed,       \* those started with an --interval
  CommandLine, \* a scan that no dashboard started
  MaxLate      \* bound: callbacks of one elector that have not run yet

ASSUME DashboardAssumption ==
  Timed \subseteq Dashboards /\ CommandLine \notin Dashboards \X {"interval", "click"} /\ MaxLate \in Nat

(* The two places a dashboard calls Trigger from, and every scan process.  *)
Callers  == {"interval", "click"}
Children == Dashboards \X Callers
Scans    == Children \cup {CommandLine}

VARIABLES
  mode,      \* --mode
  server,    \* [Dashboards -> where Server.Run is]
  cancelled, \* [Dashboards -> a signal ended the context of main]
  running,   \* [Dashboards -> Process.running]
  job,       \* [Scans -> the call that starts the scan, then the scan]
  elector,   \* [Dashboards -> where LeaderElector.Run is]
  starting,  \* [Dashboards -> OnStartedLeading goroutines that have not run]
  leading    \* [Dashboards -> the flag the collector asks]

local   == <<running, job>>
cluster == <<elector, starting, leading>>
vars    == <<mode, server, cancelled, local, cluster>>

Init ==
  /\ mode \in {"local", "kubernetes"}
  /\ server = [d \in Dashboards |-> "off"]
  /\ cancelled = [d \in Dashboards |-> FALSE]
  /\ running = [d \in Dashboards |-> FALSE]
  /\ job = [p \in Scans |-> "idle"]
  /\ elector = [d \in Dashboards |-> "off"]
  /\ starting = [d \in Dashboards |-> 0]
  /\ leading = [d \in Dashboards |-> FALSE]

Alive(d) == server[d] \in {"up", "draining", "closing"}

----------------------------------------------------------------------------
(* The life of the process.                                                *)

(* runDashboard: in a cluster the campaign begins before the server.       *)
Start(d) ==
  /\ server[d] = "off"
  /\ server' = [server EXCEPT ![d] = "up"]
  /\ elector' = [elector EXCEPT ![d] = IF mode = "kubernetes" THEN "campaigning" ELSE "off"]
  /\ UNCHANGED <<mode, cancelled, local, starting, leading>>

(* SIGTERM or SIGINT. *)
Signal(d) ==
  /\ Alive(d)
  /\ ~cancelled[d]
  /\ cancelled' = [cancelled EXCEPT ![d] = TRUE]
  /\ UNCHANGED <<mode, server, local, cluster>>

(* Server.Run sees the signal: /ready answers 503 while it sleeps. *)
Drain(d) ==
  /\ server[d] = "up"
  /\ cancelled[d]
  /\ server' = [server EXCEPT ![d] = "draining"]
  /\ UNCHANGED <<mode, cancelled, local, cluster>>

(* Mutant: the child does not belong to the dashboard's context. *)
CanKillNever(p) == FALSE

(* exec.CommandContext kills the child once the context has ended. *)
CanKill(p) == Alive(p[1]) /\ cancelled[p[1]] /\ job[p] \in {"child", "scanning"}

(* The five seconds of drainDelay are over: longer than a fork and a kill. *)
Close(d) ==
  /\ server[d] = "draining"
  /\ \A c \in Callers : ~CanKill(<<d, c>>) /\ job[<<d, c>>] # "forking"
  /\ server' = [server EXCEPT ![d] = "closing"]
  /\ UNCHANGED <<mode, cancelled, local, cluster>>

(* The process is gone; a child it started lives on. *)
Vanish(d) ==
  /\ server' = [server EXCEPT ![d] = "gone"]
  /\ running' = [running EXCEPT ![d] = FALSE]
  /\ job' = [p \in Scans |-> IF p \in {d} \X Callers /\ job[p] \notin {"child", "scanning"}
                             THEN "idle" ELSE job[p]]
  /\ elector' = [elector EXCEPT ![d] = "off"]
  /\ starting' = [starting EXCEPT ![d] = 0]
  /\ leading' = [leading EXCEPT ![d] = FALSE]
  /\ UNCHANGED <<mode, cancelled>>

(* Shutdown returned, or shutdownTimeout passed. *)
Exit(d) == server[d] = "closing" /\ Vanish(d)

(* The port is taken or accepting fails: main returns without waiting. *)
ListenFails(d) == server[d] = "up" /\ Vanish(d)

(* SIGKILL, out of memory, a lost node. *)
Crash(d) == Alive(d) /\ Vanish(d)

----------------------------------------------------------------------------
(* Local mode: trigger.Process and the scans.                              *)

outside == <<mode, server, cancelled, cluster>>

(* One step of what p is: a call of Trigger, then a child process. *)
Moves(p, from, to) == job[p] \in from /\ job' = [job EXCEPT ![p] = to] /\ UNCHANGED outside

(* Mutants: the flag is not looked at; an early return leaves it set. *)
SwapAlways(d) == running' = [running EXCEPT ![d] = TRUE]
ClearNever(p) == UNCHANGED running

Swap(d) == ~running[d] /\ running' = [running EXCEPT ![d] = TRUE]
Clear(p) == running' = [running EXCEPT ![p[1]] = FALSE]

(* Trigger wins the CompareAndSwap; otherwise it answers ErrAlreadyRunning. *)
Trigger(p) ==
  /\ mode = "local"
  /\ Alive(p[1])
  /\ p[2] = "interval" => p[1] \in Timed
  /\ Moves(p, {"idle"}, "won")
  /\ Swap(p[1])

(* cmd.Start: an ended context starts nothing. *)
Look(p) == ~cancelled[p[1]] /\ Moves(p, {"won"}, "forking") /\ UNCHANGED running

Fork(p) == Moves(p, {"forking"}, "child") /\ UNCHANGED running

(* os.Executable or cmd.Start fails, the latter always in an ended context. *)
StartFails(p) == Moves(p, {"won", "forking"}, "idle") /\ Clear(p)

RunScan == mode = "local" /\ Moves(CommandLine, {"idle"}, "child") /\ UNCHANGED running

(* A dead child waits for its dashboard, if that is still there. *)
Ended(p) == IF p \in Children /\ Alive(p[1]) THEN "dead" ELSE "idle"

Locked == \E q \in Scans : job[q] = "scanning"

(* Files.Lock: the scan begins, or has nothing to do since another one has the lock. *)
TakeLock(p) ==
  /\ Moves(p, {"child"}, IF Locked THEN Ended(p) ELSE "scanning")
  /\ UNCHANGED running

(* The scan finishes, fails or is killed; the lock goes with the process. *)
Finish(p) == Moves(p, {"child", "scanning"}, Ended(p)) /\ UNCHANGED running

Kill(p) == CanKill(p) /\ Finish(p)

(* cmd.Wait returns in the goroutine of Trigger. *)
Reap(p) == Moves(p, {"dead"}, "idle") /\ Clear(p)

----------------------------------------------------------------------------
(* Kubernetes mode: Env.Leader and client-go's LeaderElector.              *)

(* The elector writes the Lease and starts OnStartedLeading in a goroutine. *)
Acquire(d) ==
  /\ elector[d] = "campaigning"
  /\ ~cancelled[d]
  /\ \A e \in Dashboards : elector[e] # "holding"
  /\ starting[d] < MaxLate
  /\ elector' = [elector EXCEPT ![d] = "holding"]
  /\ starting' = [starting EXCEPT ![d] = @ + 1]
  /\ UNCHANGED <<mode, server, cancelled, local, leading>>

(* OnStartedLeading, whenever its goroutine runs. *)
StartedLeading(d) ==
  /\ starting[d] > 0
  /\ starting' = [starting EXCEPT ![d] = @ - 1]
  /\ leading' = [leading EXCEPT ![d] = TRUE]
  /\ UNCHANGED <<mode, server, cancelled, local, elector>>

(* Renewing failed for RenewDeadline, or the context ended: the Lease is released. *)
Lose(d) ==
  /\ elector[d] = "holding"
  /\ elector' = [elector EXCEPT ![d] = "lost"]
  /\ UNCHANGED <<mode, server, cancelled, local, starting, leading>>

(* Mutants: no campaign after the first; the flag is not taken back. *)
NextTermNever(d) == "over"
ResetNever(d) == UNCHANGED leading

(* Leader's loop campaigns again, unless the dashboard stops. *)
NextTerm(d) == IF cancelled[d] THEN "over" ELSE "campaigning"
Reset(d) == leading' = [leading EXCEPT ![d] = FALSE]

(* OnStoppedLeading, as LeaderElector.Run returns. *)
StoppedLeading(d) ==
  /\ elector[d] = "lost" \/ (elector[d] = "campaigning" /\ cancelled[d])
  /\ Reset(d)
  /\ elector' = [elector EXCEPT ![d] = NextTerm(d)]
  /\ UNCHANGED <<mode, server, cancelled, local, starting>>

----------------------------------------------------------------------------
Life(d) ==
  Start(d) \/ Signal(d) \/ Drain(d) \/ Close(d) \/ Exit(d) \/ ListenFails(d) \/ Crash(d)

Child(p) ==
  Trigger(p) \/ Look(p) \/ Fork(p) \/ StartFails(p) \/ Kill(p) \/ Reap(p)

Election(d) == Acquire(d) \/ StartedLeading(d) \/ Lose(d) \/ StoppedLeading(d)

Next ==
  \/ \E d \in Dashboards : Life(d) \/ Election(d)
  \/ \E p \in Children : Child(p)
  \/ \E p \in Scans : TakeLock(p) \/ Finish(p)
  \/ RunScan

(***************************************************************************)
(* Goroutines run, and a scan ends: config.Load gives every scan a         *)
(* deadline.  Nobody has to send a signal, click, or lose a Lease.         *)
(***************************************************************************)
Fairness ==
  /\ \A d \in Dashboards :
       /\ WF_vars(Drain(d)) /\ WF_vars(Close(d)) /\ WF_vars(Exit(d))
       /\ WF_vars(Acquire(d)) /\ WF_vars(StartedLeading(d)) /\ WF_vars(StoppedLeading(d))
  /\ \A p \in Children :
       /\ WF_vars(Look(p) \/ Fork(p) \/ StartFails(p))
       /\ WF_vars(Kill(p)) /\ WF_vars(Reap(p))
  /\ \A p \in Scans : WF_vars(Finish(p))

Spec == Init /\ [][Next]_vars /\ Fairness

----------------------------------------------------------------------------
(* Properties.                                                             *)

(* The type of the state. *)
TypeOK ==
  /\ mode \in {"local", "kubernetes"}
  /\ server \in [Dashboards -> {"off", "up", "draining", "closing", "gone"}]
  /\ cancelled \in [Dashboards -> BOOLEAN]
  /\ running \in [Dashboards -> BOOLEAN]
  /\ job \in [Scans -> {"idle", "won", "forking", "child", "scanning", "dead"}]
  /\ elector \in [Dashboards -> {"off", "campaigning", "holding", "lost", "over"}]
  /\ starting \in [Dashboards -> 0 .. MaxLate]
  /\ leading \in [Dashboards -> BOOLEAN]

(***************************************************************************)
(* A dashboard has at most one child, whoever asked for it, and /api/status*)
(* shows it from the moment a click is accepted until it is reaped:        *)
(* Process.running is set exactly while a start or a child is under way.   *)
(***************************************************************************)
RunningTellsTheChild ==
  \A d \in Dashboards : Alive(d) =>
    /\ running[d] <=> \E c \in Callers : job[<<d, c>>] # "idle"
    /\ \A b, c \in Callers : job[<<d, b>>] # "idle" /\ job[<<d, c>>] # "idle" => b = c

(***************************************************************************)
(* process.go: "stopping it stops the scan".  A dashboard that was told to *)
(* stop leaves no child behind, although a click or the interval may start *)
(* one at any moment.  (One whose listener fails may leave one.)           *)
(***************************************************************************)
StoppingStopsTheScan ==
  [][\A d \in Dashboards : Exit(d) =>
       \A c \in Callers : job[<<d, c>>] \notin {"child", "scanning"}]_vars

(***************************************************************************)
(* A dashboard never stays busy: its scan ends and the flag is cleared, so *)
(* the next click is accepted; and a dashboard told to stop does.          *)
(***************************************************************************)
NeverStuck ==
  \A d \in Dashboards :
    /\ running[d] ~> ~running[d]
    /\ cancelled[d] ~> server[d] = "gone"

(***************************************************************************)
(* The alerts go out: while some replica stays up, again and again one of  *)
(* them exports, whichever others lose the Lease, stop or die.             *)
(***************************************************************************)
Exports(d) == server[d] \in {"up", "draining"} /\ leading[d]

SomeoneExports ==
  mode = "kubernetes" =>
    \A d \in Dashboards :
      <>[](server[d] = "up" /\ ~cancelled[d]) => []<>(\E e \in Dashboards : Exports(e))

(***************************************************************************)
(* collector.go:89: "followers stay silent so every alert fires once".  A  *)
(* replica that still campaigns for the Lease exports nothing.             *)
(***************************************************************************)
FollowersStaySilent == \A d \in Dashboards : Exports(d) => elector[d] # "campaigning"

----------------------------------------------------------------------------
(* What makes the safety properties inductive: a dashboard that was not    *)
(* started has done nothing; one that drains was told to stop, and one     *)
(* that shuts down has no child and starts none.                           *)

Untouched(d) ==
  server[d] = "off" => ~running[d] /\ elector[d] = "off" /\ \A c \in Callers : job[<<d, c>>] = "idle"

Stopping(d) ==
  /\ server[d] \in {"draining", "closing"} => cancelled[d]
  /\ server[d] = "closing" => \A c \in Callers : job[<<d, c>>] \notin {"forking", "child", "scanning"}

IInv == TypeOK /\ RunningTellsTheChild /\ \A d \in Dashboards : Untouched(d) /\ Stopping(d)
=============================================================================
