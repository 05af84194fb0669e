--------------------------- MODULE DashboardProofs ---------------------------
(***************************************************************************)
(* For any number of dashboards: Process.running tells whether there is a  *)
(* child, and a dashboard that was told to stop leaves none behind.        *)
(*                                                                         *)
(* The argument: the flag changes hands only where a start begins or its   *)
(* last trace goes, and both call places contend for it.  A server closes  *)
(* only after its context ended, from when on nothing forks, and after     *)
(* what had been forked was killed.                                        *)
(*                                                                         *)
(* Metrics: a scrape of any snapshot is accepted, as every collected group *)
(* keeps one sample per key.  Of the references that look alike the first  *)
(* with an issue is told whole, and nothing is said of the others' issues. *)
(***************************************************************************)
EXTENDS Dashboard, Metrics, FiniteSetTheorems, TLAPS

LEMMA Places ==
  /\ CommandLine \notin Children
  /\ \A d \in Dashboards, c \in Callers : <<d, c>> \in Children
  /\ \A p \in Children : p[1] \in Dashboards /\ p[2] \in Callers /\ p = <<p[1], p[2]>>
  /\ Children \subseteq Scans /\ CommandLine \in Scans
BY DashboardAssumption DEF Children, Callers, Scans

LEMMA InitDashboard == Init => IInv
<1> SUFFICES ASSUME Init PROVE IInv
  OBVIOUS
<1>1. TypeOK
  BY DashboardAssumption DEF Init, TypeOK
<1>2. \A d \in Dashboards :
        server[d] = "off" /\ ~running[d] /\ elector[d] = "off" /\ \A c \in Callers : job[<<d, c>>] = "idle"
  BY Places DEF Init
<1> QED BY <1>1, <1>2 DEF IInv, RunningTellsTheChild, Untouched, Stopping, Alive

(* A step of one scan, which changes nothing of the others. *)
LEMMA Moved ==
  ASSUME TypeOK, NEW p \in Scans, NEW from, NEW to, Moves(p, from, to)
  PROVE  /\ job[p] \in from /\ job'[p] = to
         /\ \A q \in Scans : q # p => job'[q] = job[q]
         /\ UNCHANGED outside
BY DEF Moves, TypeOK

(* What a process that vanishes leaves. *)
LEMMA Vanished ==
  ASSUME TypeOK, NEW d \in Dashboards, Vanish(d)
  PROVE  /\ server'[d] = "gone" /\ ~leading'[d]
         /\ \A e \in Dashboards : e # d => /\ server'[e] = server[e] /\ running'[e] = running[e]
                                           /\ leading'[e] = leading[e] /\ elector'[e] = elector[e]
         /\ \A p \in Children : p[1] # d => job'[p] = job[p]
         /\ cancelled' = cancelled
<1>1. \A p \in Children : p[1] # d => p \notin {d} \X Callers
  OBVIOUS
<1> QED BY <1>1, Places DEF Vanish, TypeOK

LEMMA TypeStep == TypeOK /\ [Next]_vars => TypeOK'
<1> SUFFICES ASSUME TypeOK, [Next]_vars PROVE TypeOK'
  OBVIOUS
<1> USE DashboardAssumption DEF TypeOK, local, cluster, outside
<1>1. ASSUME NEW d \in Dashboards, Vanish(d) PROVE TypeOK'
  <2>1. job' \in [Scans -> {"idle", "won", "forking", "child", "scanning", "dead"}]
    BY <1>1 DEF Vanish
  <2>2. starting' \in [Dashboards -> 0 .. MaxLate]
    BY <1>1 DEF Vanish
  <2> QED BY <1>1, <2>1, <2>2 DEF Vanish
<1>2. ASSUME NEW d \in Dashboards, Life(d) PROVE TypeOK'
  BY <1>1, <1>2 DEF Life, Start, Signal, Drain, Close, Exit, ListenFails, Crash
<1>3. ASSUME NEW d \in Dashboards, Election(d) PROVE TypeOK'
  <2>1. CASE Acquire(d)
    BY <2>1 DEF Acquire
  <2>2. CASE StartedLeading(d)
    BY <2>2 DEF StartedLeading
  <2>3. CASE Lose(d)
    BY <2>3 DEF Lose
  <2>4. CASE StoppedLeading(d)
    BY <2>4 DEF StoppedLeading, Reset, NextTerm
  <2> QED BY <1>3, <2>1, <2>2, <2>3, <2>4 DEF Election
<1>4. ASSUME NEW p \in Scans, NEW from, NEW to \in {"idle", "won", "forking", "child", "scanning", "dead"},
             Moves(p, from, to), running' \in [Dashboards -> BOOLEAN]
      PROVE  TypeOK'
  BY <1>4 DEF Moves
<1>5. ASSUME NEW p \in Children, Child(p) PROVE TypeOK'
  <2>1. running' \in [Dashboards -> BOOLEAN]
    BY <1>5, Places DEF Child, Trigger, Swap, Look, Fork, StartFails, Clear, Kill, Finish, Reap
  <2>2. Ended(p) \in {"idle", "dead"}
    BY DEF Ended
  <2> QED BY <1>4, <1>5, <2>1, <2>2, Places DEF Child, Trigger, Look, Fork, StartFails, Kill, Finish, Reap
<1>6. ASSUME NEW p \in Scans, TakeLock(p) \/ Finish(p) PROVE TypeOK'
  <2>1. Ended(p) \in {"idle", "dead"}
    BY DEF Ended
  <2> QED BY <1>4, <1>6, <2>1 DEF TakeLock, Finish
<1>7. CASE RunScan
  BY <1>4, <1>7, Places DEF RunScan
<1>8. CASE UNCHANGED vars
  BY <1>8 DEF vars
<1> QED BY <1>2, <1>3, <1>5, <1>6, <1>7, <1>8 DEF Next

(* The invariant of one dashboard, and the state it is about. *)
Told(d) ==
  Alive(d) =>
    /\ running[d] <=> \E c \in Callers : job[<<d, c>>] # "idle"
    /\ \A b, c \in Callers : job[<<d, b>>] # "idle" /\ job[<<d, c>>] # "idle" => b = c

Good(d) == Told(d) /\ Untouched(d) /\ Stopping(d)

LEMMA Parts == IInv <=> TypeOK /\ \A d \in Dashboards : Good(d)
BY DEF IInv, Good, Told, RunningTellsTheChild

LEMMA Frame ==
  ASSUME NEW d \in Dashboards, Good(d), server'[d] = server[d], cancelled'[d] = cancelled[d],
         running'[d] = running[d], \A c \in Callers : job'[<<d, c>>] = job[<<d, c>>],
         server[d] = "off" => elector'[d] = elector[d]
  PROVE  Good(d)'
BY DEF Good, Told, Untouched, Stopping, Alive

LEMMA GoneIsGood == ASSUME NEW d \in Dashboards, server'[d] = "gone" PROVE Good(d)'
BY DEF Good, Told, Untouched, Stopping, Alive

LEMMA LifeStep ==
  ASSUME IInv, NEW e \in Dashboards, Life(e)
  PROVE  \A d \in Dashboards : Good(d)'
<1> SUFFICES ASSUME NEW d \in Dashboards PROVE Good(d)'
  OBVIOUS
<1>1. TypeOK /\ Good(d)
  BY Parts
<1>2. CASE Vanish(e)
  <2>1. CASE d = e
    BY <1>1, <1>2, <2>1, Vanished, GoneIsGood
  <2>2. CASE d # e
    <3>1. \A c \in Callers : job'[<<d, c>>] = job[<<d, c>>]
      BY <1>1, <1>2, <2>2, Vanished, Places
    <3> QED BY <1>1, <1>2, <2>2, <3>1, Vanished, Frame
  <2> QED BY <2>1, <2>2
<1>3. CASE Start(e)
  <2>1. CASE d = e
    <3>1. /\ ~running'[d] /\ \A c \in Callers : job'[<<d, c>>] = "idle"
          /\ server'[d] = "up"
      BY <1>1, <1>3, <2>1 DEF Start, Good, Untouched, local, TypeOK
    <3> QED BY <3>1 DEF Good, Told, Untouched, Stopping
  <2>2. CASE d # e
    BY <1>1, <1>3, <2>2, Frame DEF Start, local, TypeOK
  <2> QED BY <2>1, <2>2
<1>4. CASE Signal(e)
  <2>1. server' = server /\ running' = running /\ job' = job /\ (cancelled[d] => cancelled'[d])
        /\ elector' = elector
    BY <1>1, <1>4 DEF Signal, local, cluster, TypeOK
  <2> QED BY <1>1, <2>1 DEF Good, Told, Untouched, Stopping, Alive
<1>5. CASE Drain(e)
  <2>1. CASE d = e
    <3>1. /\ server[d] = "up" /\ server'[d] = "draining" /\ cancelled'[d]
          /\ running' = running /\ job' = job
      BY <1>1, <1>5, <2>1 DEF Drain, local, TypeOK
    <3> QED BY <1>1, <3>1 DEF Good, Told, Untouched, Stopping, Alive
  <2>2. CASE d # e
    BY <1>1, <1>5, <2>2, Frame DEF Drain, local, cluster, TypeOK
  <2> QED BY <2>1, <2>2
<1>6. CASE Close(e)
  <2>1. CASE d = e
    <3>1. /\ server[d] = "draining" /\ server'[d] = "closing"
          /\ cancelled' = cancelled /\ running' = running /\ job' = job
      BY <1>1, <1>6, <2>1 DEF Close, local, TypeOK
    <3>2. cancelled[d] /\ Alive(d)
      BY <1>1, <3>1 DEF Good, Stopping, Alive
    <3>3. \A c \in Callers : job[<<d, c>>] \notin {"forking", "child", "scanning"}
      BY <1>6, <2>1, <3>2 DEF Close, CanKill
    <3> QED BY <1>1, <3>1, <3>2, <3>3 DEF Good, Told, Untouched, Stopping, Alive
  <2>2. CASE d # e
    BY <1>1, <1>6, <2>2, Frame DEF Close, local, cluster, TypeOK
  <2> QED BY <2>1, <2>2
<1> QED BY <1>2, <1>3, <1>4, <1>5, <1>6 DEF Life, Exit, ListenFails, Crash

LEMMA ElectionStep ==
  ASSUME IInv, NEW e \in Dashboards, Election(e)
  PROVE  \A d \in Dashboards : Good(d)'
<1>1. server' = server /\ cancelled' = cancelled /\ running' = running /\ job' = job
  BY DEF Election, Acquire, StartedLeading, Lose, StoppedLeading, local
<1>2. TypeOK /\ \A d \in Dashboards : Good(d)
  BY Parts
<1>3. \A d \in Dashboards : server[d] = "off" => elector'[d] = elector[d]
  <2>1. elector[e] # "off" => server[e] # "off"
    BY <1>2 DEF Good, Untouched
  <2>2. elector[e] = "off" => elector' = elector
    BY DEF Election, Acquire, StartedLeading, Lose, StoppedLeading
  <2>3. \A d \in Dashboards : d # e => elector'[d] = elector[d]
    BY <1>2 DEF Election, Acquire, StartedLeading, Lose, StoppedLeading, TypeOK
  <2> QED BY <2>1, <2>2, <2>3
<1> QED BY <1>1, <1>2, <1>3, Frame

(* What Scans do to a dashboard that is not theirs. *)
LEMMA Others ==
  ASSUME IInv, NEW p \in Scans, NEW from, NEW to, Moves(p, from, to),
         NEW d \in Dashboards, running'[d] = running[d],
         \A c \in Callers : p # <<d, c>>
  PROVE  Good(d)'
<1>1. TypeOK /\ Good(d)
  BY Parts
<1>2. server' = server /\ cancelled' = cancelled
  BY <1>1, Moved DEF outside
<1>3. \A c \in Callers : job'[<<d, c>>] = job[<<d, c>>]
  BY <1>1, Moved, Places
<1>4. elector' = elector
  BY <1>1, Moved DEF outside, cluster
<1> QED BY <1>1, <1>2, <1>3, <1>4, Frame

(* What is under way stays so: the flag stays as well. *)
LEMMA StaysBusy ==
  ASSUME IInv, NEW p \in Children, NEW from, NEW to, Moves(p, from, to), running' = running,
         "idle" \notin from, to # "idle" \/ ~Alive(p[1]),
         to \in {"forking", "child", "scanning"} => server[p[1]] # "closing"
  PROVE  \A d \in Dashboards : Good(d)'
<1> SUFFICES ASSUME NEW d \in Dashboards PROVE Good(d)'
  OBVIOUS
<1>1. TypeOK /\ Good(d)
  BY Parts
<1>2. CASE p[1] # d
  BY <1>2, Others, Places
<1>3. CASE p[1] = d
  <2>1. /\ server' = server /\ cancelled' = cancelled /\ elector' = elector
        /\ job[p] # "idle" /\ job'[p] = to
        /\ \A c \in Callers : c # p[2] => job'[<<d, c>>] = job[<<d, c>>]
    BY <1>1, <1>3, Moved, Places DEF outside, cluster
  <2>2. p = <<d, p[2]>> /\ p[2] \in Callers
    BY <1>3, Places
  <2>3. Told(d)'
    BY <1>1, <1>3, <2>1, <2>2 DEF Good, Told, Alive
  <2>4. Untouched(d)'
    BY <1>1, <2>1, <2>2 DEF Good, Untouched
  <2>5. Stopping(d)'
    BY <1>1, <1>3, <2>1, <2>2 DEF Good, Stopping
  <2> QED BY <2>3, <2>4, <2>5 DEF Good
<1> QED BY <1>2, <1>3

(* The last trace of a child goes, and the flag with it. *)
LEMMA Clears ==
  ASSUME IInv, NEW p \in Children, NEW from, Moves(p, from, "idle"), "idle" \notin from, Clear(p)
  PROVE  \A d \in Dashboards : Good(d)'
<1> SUFFICES ASSUME NEW d \in Dashboards PROVE Good(d)'
  OBVIOUS
<1>1. TypeOK /\ Good(d)
  BY Parts
<1>2. CASE p[1] # d
  <2>1. running'[d] = running[d]
    BY <1>1, <1>2 DEF Clear, TypeOK
  <2> QED BY <1>2, <2>1, Others, Places
<1>3. CASE p[1] = d
  <2>1. /\ server' = server /\ cancelled' = cancelled /\ elector' = elector /\ ~running'[d]
        /\ job[p] # "idle" /\ job'[p] = "idle"
        /\ \A c \in Callers : c # p[2] => job'[<<d, c>>] = job[<<d, c>>]
    BY <1>1, <1>3, Moved, Places DEF outside, cluster, Clear, TypeOK
  <2>2. p = <<d, p[2]>> /\ p[2] \in Callers
    BY <1>3, Places
  <2>3. Told(d)'
    BY <1>1, <2>1, <2>2 DEF Good, Told, Alive
  <2> QED BY <1>1, <2>1, <2>2, <2>3 DEF Good, Untouched, Stopping
<1> QED BY <1>2, <1>3

LEMMA TriggerStep ==
  ASSUME IInv, NEW p \in Children, Trigger(p)
  PROVE  \A d \in Dashboards : Good(d)'
<1> SUFFICES ASSUME NEW d \in Dashboards PROVE Good(d)'
  OBVIOUS
<1>1. TypeOK /\ Good(d)
  BY Parts
<1>2. CASE p[1] # d
  <2>1. running'[d] = running[d]
    BY <1>1, <1>2 DEF Trigger, Swap, TypeOK
  <2> QED BY <1>2, <2>1, Others, Places DEF Trigger
<1>3. CASE p[1] = d
  <2>1. /\ server' = server /\ cancelled' = cancelled /\ ~running[d] /\ running'[d] /\ Alive(d)
        /\ job'[p] = "won"
        /\ \A c \in Callers : c # p[2] => job'[<<d, c>>] = job[<<d, c>>]
    BY <1>1, <1>3, Moved, Places DEF outside, Trigger, Swap, TypeOK
  <2>2. p = <<d, p[2]>> /\ p[2] \in Callers
    BY <1>3, Places
  <2>3. \A c \in Callers : job[<<d, c>>] = "idle"
    BY <1>1, <2>1 DEF Good, Told
  <2>4. Told(d)'
    BY <2>1, <2>2, <2>3 DEF Told, Alive
  <2>5. Untouched(d)'
    BY <2>1 DEF Untouched, Alive
  <2>6. Stopping(d)'
    BY <1>1, <2>1, <2>2 DEF Good, Stopping
  <2> QED BY <2>4, <2>5, <2>6 DEF Good
<1> QED BY <1>2, <1>3

LEMMA ChildStep ==
  ASSUME IInv, NEW p \in Children, Child(p)
  PROVE  \A d \in Dashboards : Good(d)'
<1>1. TypeOK /\ Good(p[1]) /\ p \in Scans
  BY Parts, Places
<1>2. CASE Look(p)
  <2>1. server[p[1]] # "closing"
    BY <1>1, <1>2 DEF Look, Good, Stopping
  <2> QED BY <1>2, <2>1, StaysBusy DEF Look
<1>3. CASE Fork(p)
  <2>1. server[p[1]] # "closing"
    <3>1. job[p] = "forking"
      BY <1>3, Moved, <1>1 DEF Fork
    <3> QED BY <1>1, <3>1, Places DEF Good, Stopping
  <2> QED BY <1>3, <2>1, StaysBusy DEF Fork
<1>4. CASE StartFails(p)
  BY <1>4, Clears DEF StartFails
<1>5. CASE Kill(p)
  <2>1. Alive(p[1]) /\ Ended(p) = "dead"
    BY <1>5 DEF Kill, CanKill, Ended
  <2> QED BY <1>5, <2>1, StaysBusy DEF Kill, Finish
<1>6. CASE Reap(p)
  BY <1>6, Clears DEF Reap
<1> QED BY <1>2, <1>3, <1>4, <1>5, <1>6, TriggerStep DEF Child

LEMMA ScanStep ==
  ASSUME IInv, NEW p \in Scans, TakeLock(p) \/ Finish(p) \/ (RunScan /\ p = CommandLine)
  PROVE  \A d \in Dashboards : Good(d)'
<1>1. CASE p = CommandLine
  <2>1. PICK from, to : Moves(p, from, to) /\ running' = running
    BY <1>1 DEF TakeLock, Finish, RunScan
  <2>2. \A d \in Dashboards, c \in Callers : p # <<d, c>>
    BY <1>1, Places
  <2> QED BY <2>1, <2>2, Others
<1>2. CASE p \in Children
  <2>1. TypeOK /\ Good(p[1])
    BY <1>2, Parts, Places
  <2>2. Ended(p) # "idle" \/ ~Alive(p[1])
    BY <1>2 DEF Ended
  <2>3. Ended(p) \notin {"forking", "child", "scanning"}
    BY DEF Ended
  <2>4. CASE TakeLock(p)
    <3>1. job[p] = "child"
      BY <2>1, <2>4, Moved DEF TakeLock
    <3>2. server[p[1]] # "closing"
      BY <1>2, <2>1, <3>1, Places DEF Good, Stopping
    <3> QED BY <1>2, <2>2, <2>4, <3>2, StaysBusy DEF TakeLock
  <2>5. CASE Finish(p)
    BY <1>2, <2>2, <2>3, <2>5, StaysBusy DEF Finish
  <2>6. p # CommandLine
    BY <1>2, Places
  <2> QED BY <2>4, <2>5, <2>6
<1> QED BY <1>1, <1>2 DEF Scans

LEMMA SafetyStep == IInv /\ [Next]_vars => IInv'
<1> SUFFICES ASSUME IInv, [Next]_vars PROVE IInv'
  OBVIOUS
<1>1. TypeOK'
  BY TypeStep DEF IInv
<1>2. \A d \in Dashboards : Good(d)'
  <2>1. CASE UNCHANGED vars
    BY <2>1, Parts, Frame DEF vars, local, cluster
  <2>2. CASE RunScan
    BY <2>2, ScanStep, Places
  <2> QED BY <2>1, <2>2, LifeStep, ElectionStep, ChildStep, ScanStep DEF Next
<1> QED BY <1>1, <1>2 DEF IInv, Good, Told, RunningTellsTheChild

LEMMA AlwaysIInv == Spec => []IInv
BY InitDashboard, SafetyStep, PTL DEF Spec

(* Type correctness (the state of main, process.go, server.go and kube.go). *)
THEOREM DashboardTypeCorrect == Spec => []TypeOK
<1>1. IInv => TypeOK
  BY DEF IInv
<1> QED BY <1>1, AlwaysIInv, PTL

(* process.go:28: for any number of dashboards, Process.running is set      *)
(* exactly while a start or a child is under way, of which there is one.    *)
THEOREM RunningTellsAlways == Spec => []RunningTellsTheChild
<1>1. IInv => RunningTellsTheChild
  BY DEF IInv
<1> QED BY <1>1, AlwaysIInv, PTL

(* process.go:14: a dashboard that was told to stop leaves no scan behind.  *)
THEOREM StopsTheScan == Spec => StoppingStopsTheScan
<1>1. IInv => \A d \in Dashboards : Exit(d) => \A c \in Callers : job[<<d, c>>] \notin {"child", "scanning"}
  BY DEF IInv, Stopping, Exit
<1>2. IInv /\ [Next]_vars
      => [\A d \in Dashboards : Exit(d) => \A c \in Callers : job[<<d, c>>] \notin {"child", "scanning"}]_vars
  BY <1>1
<1> QED BY <1>2, AlwaysIInv, PTL DEF Spec, StoppingStopsTheScan

----------------------------------------------------------------------------
(* Scrapes: of the samples that would look the same, the first is sent. *)

(* A non-empty set of positions has a first one. *)
LEMMA FirstExists ==
  ASSUME NEW n \in Nat, NEW S \in SUBSET (1 .. n), S # {}
  PROVE  \E i \in S : \A j \in S : i <= j
<1>1. S \subseteq Nat
  OBVIOUS
<1>2. PICK i \in S : \A j \in S : ~ (<<j, i>> \in OpToRel(<, Nat))
  BY <1>1, NatLessThanWellFounded, WFMin
<1>3. ASSUME NEW j \in S PROVE i <= j
  <2>1. i \in Nat /\ j \in Nat
    BY <1>1
  <2>2. ~ (j < i)
    BY <1>2, <2>1 DEF OpToRel
  <2> HIDE <1>2
  <2> QED BY <2>1, <2>2
<1> QED BY <1>3

(* Every element has a first one with its key, and no two are first with one key. *)
LEMMA FirstByKey ==
  ASSUME NEW n \in Nat, NEW S \in SUBSET (1 .. n), NEW key
  PROVE  /\ FirstBy(S, key) \subseteq S
         /\ \A i \in S : \E j \in FirstBy(S, key) : key[j] = key[i]
         /\ \A i, j \in FirstBy(S, key) : key[i] = key[j] => i = j
<1>1. ASSUME NEW i \in S PROVE \E j \in FirstBy(S, key) : key[j] = key[i]
  <2> DEFINE T == {j \in S : key[j] = key[i]}
  <2>1. PICK j \in T : \A k \in T : j <= k
    <3>1. T \in SUBSET (1 .. n) /\ T # {}
      BY <1>1
    <3> HIDE DEF T
    <3> QED BY <3>1, FirstExists
  <2> QED BY <2>1 DEF FirstBy
<1> QED BY <1>1 DEF FirstBy

(* The label values of a failed check tell the reference. *)
LEMMA LabelsTell ==
  ASSUME NEW r, NEW q, NEW k, NEW l, IdentityValues(r) \o <<k>> = IdentityValues(q) \o <<l>>
  PROVE  IdentityValues(r) = IdentityValues(q)
BY DEF IdentityValues

LEMMA SampleIs ==
  ASSUME NEW name, NEW labels, NEW value, NEW at
  PROVE  /\ Sample(name, labels, value, at).name = name
         /\ Sample(name, labels, value, at).labels = labels
         /\ Sample(name, labels, value, at).value = value
BY DEF Sample

(* A sample among them tells. *)
LEMMA TellsBy ==
  ASSUME NEW samples, NEW name, NEW labels, NEW value, NEW at, Sample(name, labels, value, at) \in samples
  PROVE  Tells(samples, name, labels)
BY SampleIs DEF Tells

(* The reports a scrape may find: any number of results and repository scans. *)
Reported(s) ==
  /\ s.results \in Seq(Range(s.results)) /\ s.repos \in Seq(Range(s.repos))
  /\ \A i \in DOMAIN s.repos : s.repos[i].success \in Nat

(* One of those that look like the i-th has an issue and is told whole. *)
ToldAmong(samples, rs, i) ==
  \E j \in DOMAIN rs :
    HasIssue(rs[j]) /\ IdentityValues(rs[j]) = IdentityValues(rs[i]) /\ TellsIssue(samples, rs[j])

LEMMA ResultsTold ==
  ASSUME NEW rs, rs \in Seq(Range(rs))
  PROVE  /\ Accepted(Outdated(rs)) /\ Accepted(Drift(rs)) /\ Accepted(Issues(rs)) /\ Accepted(Scanned(rs))
         /\ \A a \in Outdated(rs) : a.name = "outdated"
         /\ \A a \in Drift(rs) : a.name = "drift"
         /\ \A a \in Issues(rs) : a.name \in {"failed", "skipped"}
         /\ \A a \in Scanned(rs) : a.name = "scanned"
         /\ \A i \in DOMAIN rs :
              LET id == IdentityValues(rs[i]) IN
              /\ rs[i].behind => Tells(Outdated(rs), "outdated", id \o ChangeValues(rs[i]))
              /\ rs[i].moved => Tells(Drift(rs), "drift", id)
              /\ HasIssue(rs[i]) => ToldAmong(Issues(rs), rs, i)
              /\ \E a \in Scanned(rs) : /\ a.name = "scanned"
                                        /\ a.labels = <<Bound[rs[i].source], rs[i].type>>
                                        /\ a.value > 0
<1> DEFINE n == Len(rs)
<1>0. n \in Nat /\ DOMAIN rs = 1 .. n
  OBVIOUS
<1> HIDE DEF n
<1> USE SampleIs
<1>1. /\ Accepted(Outdated(rs)) /\ \A a \in Outdated(rs) : a.name = "outdated"
      /\ \A i \in DOMAIN rs : rs[i].behind =>
           Tells(Outdated(rs), "outdated", IdentityValues(rs[i]) \o ChangeValues(rs[i]))
  <2> DEFINE key == [i \in DOMAIN rs |-> IdentityValues(rs[i]) \o ChangeValues(rs[i])]
             S == {j \in DOMAIN rs : rs[j].behind}
  <2>1. Outdated(rs) = {Sample("outdated", key[i], 1, i) : i \in FirstBy(S, key)}
    BY DEF Outdated
  <2>2. S \in SUBSET (1 .. n)
    BY <1>0
  <2>3. \A i \in DOMAIN rs : key[i] = IdentityValues(rs[i]) \o ChangeValues(rs[i])
    OBVIOUS
  <2>4. \A i \in DOMAIN rs : rs[i].behind => i \in S
    OBVIOUS
  <2> HIDE DEF key, S
  <2>5. /\ \A i \in S : \E j \in FirstBy(S, key) : key[j] = key[i]
        /\ \A i, j \in FirstBy(S, key) : key[i] = key[j] => i = j
    BY <1>0, <2>2, FirstByKey
  <2>6. Accepted(Outdated(rs)) /\ \A a \in Outdated(rs) : a.name = "outdated"
    BY <2>1, <2>5 DEF Accepted
  <2>7. ASSUME NEW i \in DOMAIN rs, rs[i].behind PROVE Tells(Outdated(rs), "outdated", key[i])
    <3>1. PICK j \in FirstBy(S, key) : key[j] = key[i]
      BY <2>4, <2>5, <2>7
    <3>2. Sample("outdated", key[j], 1, j) \in Outdated(rs)
      BY <2>1
    <3>3. Tells(Outdated(rs), "outdated", key[j])
      BY Zenon, <3>2, TellsBy
    <3> QED BY Zenon, <3>1, <3>3
  <2> QED BY <2>3, <2>6, <2>7
<1>a. \A i \in DOMAIN rs : Identity(rs)[i] = IdentityValues(rs[i])
  BY DEF Identity
<1>2. /\ Accepted(Drift(rs)) /\ \A a \in Drift(rs) : a.name = "drift"
      /\ \A i \in DOMAIN rs : rs[i].moved => Tells(Drift(rs), "drift", IdentityValues(rs[i]))
  <2> DEFINE S == {j \in DOMAIN rs : rs[j].moved}
  <2>1. Drift(rs) = {Sample("drift", Identity(rs)[i], 1, i) : i \in FirstBy(S, Identity(rs))}
    BY DEF Drift
  <2>2. S \in SUBSET (1 .. n) /\ \A i \in DOMAIN rs : rs[i].moved => i \in S
    BY <1>0
  <2> HIDE DEF S
  <2>3. /\ \A i \in S : \E j \in FirstBy(S, Identity(rs)) : Identity(rs)[j] = Identity(rs)[i]
        /\ \A i, j \in FirstBy(S, Identity(rs)) : Identity(rs)[i] = Identity(rs)[j] => i = j
    BY <1>0, <2>2, FirstByKey
  <2>4. Accepted(Drift(rs)) /\ \A a \in Drift(rs) : a.name = "drift"
    BY <2>1, <2>3 DEF Accepted
  <2>5. ASSUME NEW i \in DOMAIN rs, rs[i].moved PROVE Tells(Drift(rs), "drift", Identity(rs)[i])
    <3>1. PICK j \in FirstBy(S, Identity(rs)) : Identity(rs)[j] = Identity(rs)[i]
      BY <2>2, <2>3, <2>5
    <3>2. Sample("drift", Identity(rs)[j], 1, j) \in Drift(rs)
      BY <2>1
    <3> QED BY <3>1, <3>2, TellsBy
  <2> QED BY <1>a, <2>4, <2>5
<1>3. /\ Accepted(Issues(rs)) /\ \A a \in Issues(rs) : a.name \in {"failed", "skipped"}
      /\ \A i \in DOMAIN rs : HasIssue(rs[i]) => ToldAmong(Issues(rs), rs, i)
  <2> DEFINE S == {i \in DOMAIN rs : HasIssue(rs[i])}
             Failed == {Sample("failed", Identity(rs)[i] \o <<KindLabel(rs[i].error)>>, 1, i) :
                          i \in {j \in Shown(rs) : rs[j].error # ""}}
             Skipped == {Sample("skipped", Identity(rs)[i], rs[i].skipped, i) :
                           i \in {j \in Shown(rs) : rs[j].skipped > 0}}
  <2>1. Issues(rs) = Failed \cup Skipped /\ Shown(rs) = FirstBy(S, Identity(rs))
    BY DEF Issues, Shown
  <2>2. S \in SUBSET (1 .. n) /\ \A i \in DOMAIN rs : HasIssue(rs[i]) <=> i \in S
    BY <1>0
  <2>3. /\ Shown(rs) \subseteq DOMAIN rs
        /\ \A i \in Shown(rs) : HasIssue(rs[i])
        /\ \A i \in S : \E j \in Shown(rs) : Identity(rs)[j] = Identity(rs)[i]
        /\ \A i, j \in Shown(rs) : Identity(rs)[i] = Identity(rs)[j] => i = j
    <3> HIDE DEF S
    <3>1. /\ FirstBy(S, Identity(rs)) \subseteq S
          /\ \A i \in S : \E j \in FirstBy(S, Identity(rs)) : Identity(rs)[j] = Identity(rs)[i]
          /\ \A i, j \in FirstBy(S, Identity(rs)) : Identity(rs)[i] = Identity(rs)[j] => i = j
      BY <1>0, <2>2, FirstByKey
    <3>2. S \subseteq DOMAIN rs
      BY <1>0, <2>2
    <3>3. Shown(rs) = FirstBy(S, Identity(rs))
      BY <2>1
    <3> HIDE DEF Failed, Skipped
    <3>4. \A i \in Shown(rs) : i \in DOMAIN rs /\ HasIssue(rs[i])
      BY <2>2, <3>1, <3>2, <3>3
    <3> QED BY <3>1, <3>3, <3>4
  <2> HIDE DEF S
  <2>4. ASSUME NEW a \in Failed, NEW b \in Failed, a.labels = b.labels PROVE a = b
    <3>1. PICK i \in Shown(rs) : a = Sample("failed", Identity(rs)[i] \o <<KindLabel(rs[i].error)>>, 1, i)
      OBVIOUS
    <3>2. PICK j \in Shown(rs) : b = Sample("failed", Identity(rs)[j] \o <<KindLabel(rs[j].error)>>, 1, j)
      OBVIOUS
    <3>a. i \in DOMAIN rs /\ j \in DOMAIN rs
      BY <2>3
    <3>b. /\ a.labels = Identity(rs)[i] \o <<KindLabel(rs[i].error)>>
          /\ b.labels = Identity(rs)[j] \o <<KindLabel(rs[j].error)>>
      <4> DEFINE x == Identity(rs)[i] \o <<KindLabel(rs[i].error)>>
                 y == Identity(rs)[j] \o <<KindLabel(rs[j].error)>>
      <4>1. a = Sample("failed", x, 1, i) /\ b = Sample("failed", y, 1, j)
        BY <3>1, <3>2
      <4> HIDE DEF Failed, x, y
      <4>2. a.labels = x /\ b.labels = y
        BY ONLY <4>1, SampleIs
      <4> QED BY <4>2 DEF x, y
    <3>c. Identity(rs)[i] = IdentityValues(rs[i]) /\ Identity(rs)[j] = IdentityValues(rs[j])
      BY <1>a, <3>a
    <3>3. IdentityValues(rs[i]) \o <<KindLabel(rs[i].error)>> = IdentityValues(rs[j]) \o <<KindLabel(rs[j].error)>>
      BY <2>4, <3>b, <3>c
    <3>d. IdentityValues(rs[i]) = IdentityValues(rs[j])
      <4> HIDE DEF Failed, Skipped
      <4> QED BY ONLY <3>3, LabelsTell
    <3>4. Identity(rs)[i] = Identity(rs)[j]
      BY <3>c, <3>d
    <3> QED BY <2>3, <3>1, <3>2, <3>4
  <2>5. ASSUME NEW a \in Skipped, NEW b \in Skipped, a.labels = b.labels PROVE a = b
    <3>1. PICK i \in Shown(rs) : a = Sample("skipped", Identity(rs)[i], rs[i].skipped, i)
      OBVIOUS
    <3>2. PICK j \in Shown(rs) : b = Sample("skipped", Identity(rs)[j], rs[j].skipped, j)
      OBVIOUS
    <3> QED BY <2>3, <2>5, <3>1, <3>2
  <2>6. (\A a \in Failed : a.name = "failed") /\ (\A a \in Skipped : a.name = "skipped")
    <3>1. ASSUME NEW a \in Failed PROVE a.name = "failed"
      <4>1. PICK i \in Shown(rs) : a = Sample("failed", Identity(rs)[i] \o <<KindLabel(rs[i].error)>>, 1, i)
        OBVIOUS
      <4> HIDE DEF Failed
      <4> QED BY <4>1
    <3>2. ASSUME NEW a \in Skipped PROVE a.name = "skipped"
      <4>1. PICK i \in Shown(rs) : a = Sample("skipped", Identity(rs)[i], rs[i].skipped, i)
        OBVIOUS
      <4> HIDE DEF Skipped
      <4> QED BY <4>1
    <3> QED BY <3>1, <3>2
  <2>7. ASSUME NEW i \in DOMAIN rs, HasIssue(rs[i]) PROVE ToldAmong(Issues(rs), rs, i)
    <3>1. PICK j \in Shown(rs) : Identity(rs)[j] = Identity(rs)[i]
      BY <2>2, <2>3, <2>7
    <3>2. j \in DOMAIN rs /\ HasIssue(rs[j]) /\ Identity(rs)[j] = IdentityValues(rs[j])
      BY <1>a, <2>3
    <3>3. IdentityValues(rs[j]) = IdentityValues(rs[i])
      BY <1>a, <2>7, <3>1, <3>2
    <3>4. ASSUME rs[j].skipped > 0
          PROVE  \E a \in Issues(rs) : /\ a.name = "skipped" /\ a.labels = IdentityValues(rs[j])
                                       /\ a.value = rs[j].skipped
      <4>1. Sample("skipped", Identity(rs)[j], rs[j].skipped, j) \in Issues(rs)
        BY <2>1, <3>4
      <4> QED BY ONLY <3>2, <4>1, SampleIs
    <3>5. ASSUME rs[j].error # ""
          PROVE  Tells(Issues(rs), "failed", IdentityValues(rs[j]) \o <<KindLabel(rs[j].error)>>)
      <4>1. Sample("failed", Identity(rs)[j] \o <<KindLabel(rs[j].error)>>, 1, j) \in Issues(rs)
        BY <2>1, <3>5
      <4> QED BY <3>2, <4>1, TellsBy
    <3> HIDE DEF Failed, Skipped
    <3> QED BY <3>2, <3>3, <3>4, <3>5 DEF ToldAmong, TellsIssue
  <2> HIDE DEF Failed, Skipped
  <2>8. Accepted(Issues(rs)) /\ \A a \in Issues(rs) : a.name \in {"failed", "skipped"}
    BY <2>1, <2>4, <2>5, <2>6 DEF Accepted
  <2> QED BY <2>7, <2>8
<1>4. /\ Accepted(Scanned(rs)) /\ \A a \in Scanned(rs) : a.name = "scanned"
      /\ \A i \in DOMAIN rs : \E a \in Scanned(rs) :
           a.name = "scanned" /\ a.labels = <<Bound[rs[i].source], rs[i].type>> /\ a.value > 0
  <2> DEFINE key == [i \in DOMAIN rs |-> <<Bound[rs[i].source], rs[i].type>>]
             count(k) == Cardinality({i \in DOMAIN rs : key[i] = k})
  <2>1. Scanned(rs) = {Sample("scanned", k, count(k), 0) : k \in {key[i] : i \in DOMAIN rs}}
    BY DEF Scanned
  <2>2. \A i \in DOMAIN rs : key[i] = <<Bound[rs[i].source], rs[i].type>>
    OBVIOUS
  <2>3. ASSUME NEW i \in DOMAIN rs PROVE count(key[i]) > 0
    <3> DEFINE T == {j \in DOMAIN rs : key[j] = key[i]}
    <3>1. IsFiniteSet(1 .. n)
      BY <1>0, FS_Interval
    <3>2. T \subseteq 1 .. n /\ T # {}
      BY <1>0
    <3>3. count(key[i]) = Cardinality(T)
      OBVIOUS
    <3> HIDE DEF T, count
    <3>4. IsFiniteSet(T)
      BY <3>1, <3>2, FS_Subset
    <3>5. Cardinality(T) \in Nat /\ Cardinality(T) # 0
      BY <3>2, <3>4, FS_CardinalityType, FS_EmptySet
    <3> QED BY <3>3, <3>5
  <2> HIDE DEF key, count
  <2>4. Accepted(Scanned(rs)) /\ \A a \in Scanned(rs) : a.name = "scanned"
    BY <2>1 DEF Accepted
  <2>5. ASSUME NEW i \in DOMAIN rs
        PROVE  \E a \in Scanned(rs) : a.name = "scanned" /\ a.labels = key[i] /\ a.value > 0
    <3> DEFINE a == Sample("scanned", key[i], count(key[i]), 0)
    <3>1. a \in Scanned(rs)
      BY <2>1
    <3>2. a.name = "scanned" /\ a.labels = key[i] /\ a.value = count(key[i])
      OBVIOUS
    <3> HIDE DEF a
    <3> QED BY <2>3, <3>1, <3>2
  <2> QED BY <2>2, <2>4, <2>5
<1> QED BY <1>1, <1>2, <1>3, <1>4

LEMMA ReposTold ==
  ASSUME NEW rps, rps \in Seq(Range(rps)), \A i \in DOMAIN rps : rps[i].success \in Nat
  PROVE  /\ Accepted(Failures(rps)) /\ Accepted(LastScan(rps))
         /\ \A a \in Failures(rps) : a.name = "repo_failed"
         /\ \A a \in LastScan(rps) : a.name = "last_scan"
         /\ \A i \in DOMAIN rps : rps[i].error # "" =>
              Tells(Failures(rps), "repo_failed", <<Bound[rps[i].name], KindLabel(rps[i].error)>>)
<1> DEFINE n == Len(rps)
<1>0. n \in Nat /\ DOMAIN rps = 1 .. n
  OBVIOUS
<1> HIDE DEF n
<1> USE SampleIs
<1>1. /\ Accepted(Failures(rps)) /\ \A a \in Failures(rps) : a.name = "repo_failed"
      /\ \A i \in DOMAIN rps : rps[i].error # "" =>
           Tells(Failures(rps), "repo_failed", <<Bound[rps[i].name], KindLabel(rps[i].error)>>)
  <2> DEFINE kind(rp) == IF rp.error = "" THEN "" ELSE KindLabel(rp.error)
             key == [i \in DOMAIN rps |-> <<Bound[rps[i].name], kind(rps[i])>>]
             value(i) == IF rps[i].error = "" THEN 0 ELSE 1
  <2>1. Failures(rps) = {Sample("repo_failed", key[i], value(i), i) : i \in FirstBy(DOMAIN rps, key)}
    BY DEF Failures
  <2>2. \A i \in DOMAIN rps : rps[i].error # "" => key[i] = <<Bound[rps[i].name], KindLabel(rps[i].error)>>
    OBVIOUS
  <2> HIDE DEF key, value, kind
  <2>3. /\ \A i \in DOMAIN rps : \E j \in FirstBy(DOMAIN rps, key) : key[j] = key[i]
        /\ \A i, j \in FirstBy(DOMAIN rps, key) : key[i] = key[j] => i = j
    BY <1>0, FirstByKey
  <2>4. Accepted(Failures(rps)) /\ \A a \in Failures(rps) : a.name = "repo_failed"
    BY <2>1, <2>3 DEF Accepted
  <2>5. ASSUME NEW i \in DOMAIN rps PROVE Tells(Failures(rps), "repo_failed", key[i])
    <3>1. PICK j \in FirstBy(DOMAIN rps, key) : key[j] = key[i]
      BY <2>3
    <3>2. Sample("repo_failed", key[j], value(j), j) \in Failures(rps)
      BY <2>1
    <3> QED BY <3>1, <3>2, TellsBy
  <2>6. ASSUME NEW i \in DOMAIN rps, rps[i].error # ""
        PROVE  Tells(Failures(rps), "repo_failed", <<Bound[rps[i].name], KindLabel(rps[i].error)>>)
    <3>1. key[i] = <<Bound[rps[i].name], KindLabel(rps[i].error)>>
      BY <2>2, <2>6
    <3>2. Tells(Failures(rps), "repo_failed", key[i])
      BY <2>5, <2>6
    <3> QED BY <3>1, <3>2
  <2> QED BY <2>4, <2>6
<1>2. Accepted(LastScan(rps)) /\ \A a \in LastScan(rps) : a.name = "last_scan"
  <2> DEFINE times == {rps[i].success : i \in DOMAIN rps}
             latest == {u \in times : u > 0 /\ \A v \in times : v <= u}
  <2>1. LastScan(rps) = {Sample("last_scan", <<>>, t, 0) : t \in latest}
    BY DEF LastScan
  <2>2. times \subseteq Nat
    OBVIOUS
  <2>3. \A t, u \in latest : t = u
    <3> HIDE DEF times
    <3>1. \A t, u \in latest : t <= u /\ u <= t /\ t \in Nat /\ u \in Nat
      BY <2>2
    <3> QED BY <3>1
  <2> HIDE DEF latest
  <2> QED BY <2>1, <2>3 DEF Accepted
<1> QED BY <1>1, <1>2

(***************************************************************************)
(* Whatever the reports say, however many they are and however alike they  *)
(* look after their labels are cut, a scrape is accepted by the registry,  *)
(* every update, moved digest and failed repository is told, and of the    *)
(* references under one set of labels that have an issue, one is told      *)
(* whole (collector.go, Collect and collectIssues).  It is not so that     *)
(* each of them is: FailedChecksTold.                                      *)
(***************************************************************************)
THEOREM ScrapesTell == ASSUME scraped # NoSnapshot => Reported(scraped) PROVE EveryScrapeTells
<1> DEFINE s == scraped
           rs == s.results
           rps == s.repos
<1> SUFFICES ASSUME s # NoSnapshot PROVE ScrapeTells(s)
  BY DEF EveryScrapeTells
<1>1. /\ rs \in Seq(Range(rs)) /\ rps \in Seq(Range(rps))
      /\ \A i \in DOMAIN rps : rps[i].success \in Nat
  BY DEF Reported
<1>2. Collect(s) = Outdated(rs) \cup Drift(rs) \cup Issues(rs) \cup Scanned(rs) \cup Failures(rps) \cup LastScan(rps)
  BY DEF Collect
<1> HIDE DEF rs, rps
<1>3. \A samples, name, labels :
        samples \subseteq Collect(s) /\ Tells(samples, name, labels) => Tells(Collect(s), name, labels)
  BY DEF Tells
<1>4. Accepted(Collect(s))
  <2>1. /\ \A a \in Outdated(rs) : a.name = "outdated"
        /\ \A a \in Drift(rs) : a.name = "drift"
        /\ \A a \in Issues(rs) : a.name \in {"failed", "skipped"}
        /\ \A a \in Scanned(rs) : a.name = "scanned"
        /\ \A a \in Failures(rps) : a.name = "repo_failed"
        /\ \A a \in LastScan(rps) : a.name = "last_scan"
    BY <1>1, ResultsTold, ReposTold
  <2>2. /\ Accepted(Outdated(rs)) /\ Accepted(Drift(rs)) /\ Accepted(Issues(rs))
        /\ Accepted(Scanned(rs)) /\ Accepted(Failures(rps)) /\ Accepted(LastScan(rps))
    BY <1>1, ResultsTold, ReposTold
  <2> SUFFICES ASSUME NEW a \in Collect(s), NEW b \in Collect(s), a.name = b.name, a.labels = b.labels
               PROVE  a = b
    BY DEF Accepted
  <2> HIDE DEF s
  <2>3. CASE a \in Outdated(rs)
    BY <1>2, <2>1, <2>2, <2>3 DEF Accepted
  <2>4. CASE a \in Drift(rs)
    BY <1>2, <2>1, <2>2, <2>4 DEF Accepted
  <2>5. CASE a \in Issues(rs)
    BY <1>2, <2>1, <2>2, <2>5 DEF Accepted
  <2>6. CASE a \in Scanned(rs)
    BY <1>2, <2>1, <2>2, <2>6 DEF Accepted
  <2>7. CASE a \in Failures(rps)
    BY <1>2, <2>1, <2>2, <2>7 DEF Accepted
  <2>8. CASE a \in LastScan(rps)
    BY <1>2, <2>1, <2>2, <2>8 DEF Accepted
  <2> QED BY <1>2, <2>3, <2>4, <2>5, <2>6, <2>7, <2>8
<1>5. ASSUME NEW i \in DOMAIN rs
      PROVE  /\ rs[i].behind => Tells(Collect(s), "outdated", IdentityValues(rs[i]) \o ChangeValues(rs[i]))
             /\ rs[i].moved => Tells(Collect(s), "drift", IdentityValues(rs[i]))
             /\ HasIssue(rs[i]) => ToldAmong(Issues(rs), rs, i)
             /\ \E a \in Collect(s) : /\ a.name = "scanned"
                                      /\ a.labels = <<Bound[rs[i].source], rs[i].type>>
                                      /\ a.value > 0
  BY <1>1, <1>2, <1>3, ResultsTold
<1>6. \A i \in DOMAIN rps : rps[i].error # "" =>
        Tells(Collect(s), "repo_failed", <<Bound[rps[i].name], KindLabel(rps[i].error)>>)
  BY <1>1, <1>2, <1>3, ReposTold
<1>7. ASSUME NEW i \in DOMAIN rs, HasIssue(rs[i]) PROVE ToldAmong(Collect(s), rs, i)
  <2>1. Issues(rs) \subseteq Collect(s) /\ ToldAmong(Issues(rs), rs, i)
    BY <1>2, <1>5, <1>7
  <2>2. PICK j \in DOMAIN rs : /\ HasIssue(rs[j]) /\ IdentityValues(rs[j]) = IdentityValues(rs[i])
                              /\ TellsIssue(Issues(rs), rs[j])
    BY <2>1 DEF ToldAmong
  <2>3. TellsIssue(Collect(s), rs[j])
    BY <1>3, <2>1, <2>2 DEF TellsIssue
  <2> QED BY <2>2, <2>3 DEF ToldAmong
<1> QED BY <1>4, <1>5, <1>6, <1>7 DEF ScrapeTells, ToldAmong, rs, rps
=============================================================================
