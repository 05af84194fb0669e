-------------------------- MODULE ReportWriterProofs --------------------------
(***************************************************************************)
(* The report writer, for any repositories, references, releases and       *)
(* outcomes, with crashes and failing calls anywhere.                      *)
(*                                                                         *)
(* Type correctness (TypeCorrect) and the agreement of a report with its   *)
(* own history (HistoriesAgree) need no hypothesis.  The rest is about     *)
(* behaviours with one release in a namespace, in which []OneScan: that    *)
(* dependencies stay reachable (NoLostHandle), how far a Repo call has     *)
(* come while it writes (InTouch), what a Prune has still to delete        *)
(* (PruneSound), and what a report counts (AllCounted).  The last two      *)
(* theorems also need names that tell references apart (DistinctNames).    *)
(***************************************************************************)
EXTENDS ReportWriter, FiniteSetTheorems, SequenceTheorems, TLAPS

(* A set of references has a natural number of elements: the counts of a scan are counts. *)
LEMMA CountsOfType ==
  ASSUME NEW results \in Results
  PROVE  CountsOf(results) \in Counts
  <1>1. PICK S \in SUBSET Refs : results \in [S -> Outcomes]
    BY DEF Results
  <1>2. DOMAIN results \subseteq Refs
    BY <1>1
  <1>3. ASSUME NEW T \in SUBSET DOMAIN results
        PROVE  Cardinality(T) \in Nat
    BY <1>2, RefsAssumption, FS_Subset, FS_CardinalityType
  <1>4. QED
    BY <1>3 DEF CountsOf, Counts

(* Capping a history at History runs yields a history. *)
LEMMA PushType ==
  ASSUME NEW entry \in Run, NEW h \in Seq(Run)
  PROVE  Push(entry, h) \in Seq(Run)
  <1>1. <<entry>> \o h \in Seq(Run) /\ Len(<<entry>> \o h) = Len(h) + 1
    OBVIOUS
  <1>2. (IF Len(h) + 1 <= History THEN Len(h) + 1 ELSE History) \in 0 .. Len(h) + 1
    BY BoundsAssumption
  <1>3. QED
    BY <1>1, <1>2 DEF Push

(* What next builds is a Dependency. *)
LEMMA NextDepType ==
  ASSUME NEW w \in Releases, NEW o \in Outcomes, NEW prev \in Dependency \cup {NoDep}, NEW now \in Times
  PROVE  NextDep(w, o, prev, now) \in Dependency
  <1>1. o.behind \in BOOLEAN /\ o.failed \in BOOLEAN /\ o.moved \in BOOLEAN
    BY OutcomesAssumption
  <1>2. DigestMoved(o, prev) \in BOOLEAN
    BY <1>1 DEF DigestMoved
  <1>3. OutdatedSince(o, prev, now) \in Times
    BY BoundsAssumption DEF OutdatedSince, Dependency, Times
  <1>4. LatestSeenAt(o, prev, now) \in Times
    BY BoundsAssumption DEF LatestSeenAt, Dependency, Times
  <1>5. w \in Labels /\ o.latest \in Versions /\ o.digest \in Digests
    BY DEF Labels, Versions, Digests
  <1>6. QED
    BY <1>1, <1>2, <1>3, <1>4, <1>5 DEF NextDep, Dependency

(* The RepositoryScan a finished call puts is one. *)
LEMMA ScanAfterType ==
  ASSUME NEW w \in Releases, NEW c \in CallType, c.scan \in RepositoryScan
  PROVE  ScanAfter(w, c) \in RepositoryScan
  <1> DEFINE counts == IF c.error = "none" THEN CountsOf(c.results) ELSE c.scan.counts
             phase  == IF c.error = "none" THEN "Succeeded" ELSE "Failed"
             entry  == [time |-> c.now, phase |-> phase, counts |-> counts, error |-> c.error]
  <1>1. counts \in Counts
    BY CountsOfType DEF CallType, RepositoryScan
  <1>2. phase \in Phases
    BY DEF Phases
  <1>3. c.now \in Times /\ c.error \in Errors /\ c.scan.history \in Seq(Run) /\ c.scan.lastSuccess \in Times
    BY DEF CallType, RepositoryScan
  <1>4. entry \in Run
    BY <1>1, <1>2, <1>3 DEF Run
  <1>5. Push(entry, c.scan.history) \in Seq(Run)
    BY <1>3, <1>4, PushType
  <1>6. w \in Labels
    BY DEF Labels
  <1>7. QED
    BY <1>1, <1>2, <1>3, <1>5, <1>6 DEF ScanAfter, RepositoryScan

LEMMA FreshScanType == FreshScan \in RepositoryScan
  <1>1. NoCounts \in Counts
    BY DEF NoCounts, Counts
  <1>2. 0 \in Times
    BY BoundsAssumption DEF Times
  <1>3. QED
    BY <1>1, <1>2 DEF FreshScan, RepositoryScan, Labels, Phases, Errors

LEMMA NoCallType == NoCall \in CallType
  <1>1. 0 \in Times
    BY BoundsAssumption DEF Times
  <1>2. NoResults \in Results
    <2>1. NoResults \in [{} -> Outcomes]
      BY DEF NoResults
    <2>2. QED
      BY <2>1 DEF Results
  <1>3. QED
    BY <1>1, <1>2 DEF NoCall, CallType, Errors

LEMMA NoRunType == NoRun \in RunType
  BY DEF NoRun, RunType

----------------------------------------------------------------------------
(* Init and every step of the specification keep TypeOK and InFlightOK.       *)

LEMMA InitType == Init => TypeOK /\ InFlightOK
  <1> SUFFICES ASSUME Init PROVE TypeOK /\ InFlightOK
    OBVIOUS
  <1>1. 0 \in Times
    BY BoundsAssumption DEF Times
  <1>2. TypeOK
    BY <1>1, NoCallType, NoRunType DEF Init, TypeOK
  <1>3. NoCall.pc = "idle" /\ NoCall.left = {} /\ NoRun.pc = "idle"
    BY DEF NoCall, NoRun
  <1>4. InFlightOK
    BY <1>3 DEF Init, InFlightOK
  <1>5. QED
    BY <1>2, <1>4

(* The steps of a process outside Writer.Repo.  *)
LEMMA ScanStepType ==
  ASSUME NEW w \in Releases, TypeOK, InFlightOK,
         StartScan(w) \/ PruneStep(w) \/ EndScan(w) \/ Crash(w)
  PROVE  TypeOK' /\ InFlightOK'
  <1>0. run \in [Releases -> RunType] /\ run[w] \in RunType
    BY DEF TypeOK
  <1>1. CASE StartScan(w)
    <2> DEFINE Start(conf) ==
          [NoRun EXCEPT !.pc = "prune", !.conf = conf,
             !.victims = {r \in Repos \ conf : scans[r] # NoScan /\ ~Foreign(w, r)}]
    <2>1. PICK conf \in SUBSET Repos \ {{}} : run' = [run EXCEPT ![w] = Start(conf)]
      BY <1>1 DEF StartScan
    <2>2. Start(conf) \in RunType /\ Start(conf).pc = "prune"
      BY NoRunType DEF RunType, NoRun
    <2> HIDE DEF Start
    <2>3. run' \in [Releases -> RunType]
      BY <1>0, <2>1, <2>2
    <2>4. TypeOK'
      BY <1>1, <2>3 DEF StartScan, TypeOK, store, ghosts
    <2>5. InFlightOK'
      BY <1>0, <1>1, <2>1, <2>2 DEF StartScan, InFlightOK
    <2>6. QED
      BY <2>4, <2>5
  <1>2. CASE PruneVictim(w)
    <2>1. PICK r \in run[w].victims :
            run' = [run EXCEPT ![w].pc = "delete", ![w].victim = r, ![w].doomed = Stored(r),
                               ![w].victims = @ \ {r}]
      BY <1>2 DEF PruneVictim
    <2>2. r \in Repos /\ Stored(r) \in SUBSET Names
      BY <1>0 DEF RunType, Stored
    <2>3. run' \in [Releases -> RunType]
      BY <1>0, <2>1, <2>2 DEF RunType
    <2>4. TypeOK'
      BY <1>2, <2>3 DEF PruneVictim, TypeOK, store, ghosts
    <2>5. run[w].pc = "prune" /\ call' = call
      BY <1>2 DEF PruneVictim
    <2>6. InFlightOK'
      BY <1>0, <2>1, <2>2, <2>5 DEF InFlightOK, RunType
    <2>7. QED
      BY <2>4, <2>6
  <1>3. CASE PruneDependency(w)
    <2>1. PICK n \in run[w].doomed :
            /\ deps' = [deps EXCEPT ![run[w].victim][n] = NoDep]
            /\ run' = [run EXCEPT ![w].doomed = @ \ {n}]
      BY <1>3 DEF PruneDependency
    <2>2. deps' \in [Repos -> [Names -> Dependency \cup {NoDep}]]
      BY <2>1 DEF TypeOK
    <2>3. run' \in [Releases -> RunType]
      BY <1>0, <2>1 DEF RunType
    <2>4. torn' \subseteq Repos
      BY <1>3 DEF PruneDependency, InFlightOK, TypeOK
    <2>5. TypeOK'
      BY <1>3, <2>2, <2>3, <2>4 DEF PruneDependency, TypeOK
    <2>6. run[w].pc = "delete" /\ call' = call
      BY <1>3 DEF PruneDependency
    <2>7. InFlightOK'
      BY <1>0, <2>1, <2>6 DEF InFlightOK, RunType
    <2>8. QED
      BY <2>5, <2>7
  <1>4. CASE PruneRepositoryScan(w)
    <2>1. /\ run[w].pc = "delete"
          /\ scans' = [scans EXCEPT ![run[w].victim] = NoScan]
          /\ run' = [run EXCEPT ![w].pc = "prune", ![w].victim = None]
          /\ deps' = deps /\ call' = call /\ clock' = clock /\ torn' = torn /\ headless' = headless
      BY <1>4 DEF PruneRepositoryScan, ghosts
    <2>2. run' \in [Releases -> RunType]
      BY <1>0, <2>1 DEF RunType
    <2>3. TypeOK'
      BY <2>1, <2>2 DEF TypeOK
    <2>4. InFlightOK'
      BY <1>0, <2>1 DEF InFlightOK, RunType
    <2>5. QED
      BY <2>3, <2>4
  <1>5. CASE PruneDone(w)
    <2>1. /\ run[w].pc = "prune"
          /\ run' = [run EXCEPT ![w].pc = "scan"]
          /\ UNCHANGED <<store, call, clock, ghosts>>
      BY <1>5 DEF PruneDone
    <2>2. run' \in [Releases -> RunType]
      BY <1>0, <2>1 DEF RunType
    <2>3. TypeOK'
      BY <2>1, <2>2 DEF TypeOK, store, ghosts
    <2>4. InFlightOK'
      BY <1>0, <2>1 DEF InFlightOK, RunType
    <2>5. QED
      BY <2>3, <2>4
  <1>6. CASE PruneFails(w)
    <2>1. run[w].pc \in {"prune", "delete"} /\ run' = [run EXCEPT ![w] = NoRun] /\ UNCHANGED <<store, call, clock, ghosts>>
      BY <1>6 DEF PruneFails
    <2>2. TypeOK'
      BY <2>1, NoRunType DEF TypeOK, store, ghosts
    <2>3. InFlightOK'
      BY <1>0, <2>1 DEF InFlightOK, NoRun
    <2>4. QED
      BY <2>2, <2>3
  <1>7. CASE EndScan(w)
    <2>1. /\ \A r \in Repos : call[w][r].pc = "idle"
          /\ run' = [run EXCEPT ![w] = NoRun] /\ UNCHANGED <<store, call, clock, ghosts>>
      BY <1>7 DEF EndScan
    <2>2. TypeOK'
      BY <2>1, NoRunType DEF TypeOK, store, ghosts
    <2>3. InFlightOK'
      BY <1>0, <2>1 DEF InFlightOK, NoRun
    <2>4. QED
      BY <2>2, <2>3
  <1>8. CASE Crash(w)
    <2>1. /\ run' = [run EXCEPT ![w] = NoRun]
          /\ call' = [call EXCEPT ![w] = [r \in Repos |-> NoCall]]
          /\ UNCHANGED <<store, clock, ghosts>>
      BY <1>8 DEF Crash
    <2>2. TypeOK'
      BY <2>1, NoRunType, NoCallType DEF TypeOK, store, ghosts
    <2>3. NoCall.pc = "idle" /\ NoCall.left = {} /\ NoRun.pc = "idle"
      BY DEF NoCall, NoRun
    <2>4. InFlightOK'
      BY <1>0, <2>1, <2>3 DEF InFlightOK, TypeOK
    <2>5. QED
      BY <2>2, <2>4
  <1>9. QED
    BY <1>1, <1>2, <1>3, <1>4, <1>5, <1>6, <1>7, <1>8 DEF PruneStep

(* The steps of Writer.Repo. *)
LEMMA RepoStepType ==
  ASSUME NEW w \in Releases, NEW r \in Repos, TypeOK, InFlightOK, RepoStep(w, r)
  PROVE  TypeOK' /\ InFlightOK'
  <1> DEFINE c == call[w][r]
  <1>0. /\ run \in [Releases -> RunType] /\ run[w] \in RunType
        /\ call \in [Releases -> [Repos -> CallType]] /\ c \in CallType
    BY DEF TypeOK
  <1>a. NoCall.pc = "idle" /\ NoCall.left = {} /\ NoCall.results = NoResults
    BY DEF NoCall
  <1>b. ASSUME Calls(w, r)
        PROVE  /\ clock' \in Times /\ run[w].pc = "scan"
               /\ run' \in [Releases -> RunType]
               /\ \A v \in Releases : run'[v].pc = run[v].pc /\ run'[v].victim = run[v].victim
    <2>1. clock' \in Times /\ run[w].pc = "scan"
      BY <1>b, BoundsAssumption DEF Calls, TypeOK, Times
    <2>2. run' = [run EXCEPT ![w].done = @ \cup {r}]
      BY <1>b DEF Calls
    <2>3. QED
      BY <1>0, <2>1, <2>2 DEF RunType
  <1>c. Current(r) \in RepositoryScan
    BY FreshScanType DEF Current, TypeOK
  (* Replacing the call of r by a well-formed one keeps both invariants. *)
  <1>d. ASSUME NEW d \in CallType, call' = [call EXCEPT ![w][r] = d],
               d.pc # "idle" => run'[w].pc = "scan" /\ d.scan \in RepositoryScan,
               d.left \subseteq DOMAIN d.results,
               \A v \in Releases : run'[v].pc = run[v].pc /\ run'[v].victim = run[v].victim
        PROVE  call' \in [Releases -> [Repos -> CallType]] /\ InFlightOK'
    <2>1. \A v \in Releases, q \in Repos : call'[v][q] = IF v = w /\ q = r THEN d ELSE call[v][q]
      BY <1>0, <1>d
    <2>2. InFlightOK'
      BY <1>d, <2>1 DEF InFlightOK
    <2>3. QED
      BY <1>0, <1>d, <2>2
  <1>1. CASE RepoRefused(w, r)
    <2>1. Calls(w, r) /\ UNCHANGED <<store, call, ghosts>>
      BY <1>1 DEF RepoRefused
    <2>2. TypeOK'
      BY <1>b, <2>1 DEF TypeOK, store, ghosts
    <2>3. InFlightOK'
      BY <1>b, <2>1 DEF InFlightOK
    <2>4. QED
      BY <2>2, <2>3
  <1>2. CASE RepoFailed(w, r)
    <2> DEFINE d == [NoCall EXCEPT !.pc = "put", !.now = clock', !.error = "failed", !.scan = Current(r)]
    <2>1. Calls(w, r) /\ call' = [call EXCEPT ![w][r] = d] /\ UNCHANGED <<store, ghosts>>
      BY <1>2 DEF RepoFailed
    <2>2. d \in CallType /\ d.scan = Current(r) /\ d.left = {}
      BY <1>b, <1>c, <2>1, NoCallType DEF CallType, NoCall, Errors
    <2>3. call' \in [Releases -> [Repos -> CallType]] /\ InFlightOK'
      <3> HIDE DEF d
      <3> QED
        BY <1>b, <1>c, <1>d, <2>1, <2>2
    <2>4. TypeOK'
      BY <1>b, <2>1, <2>3 DEF TypeOK, store, ghosts
    <2>5. QED
      BY <2>3, <2>4
  <1>3. CASE RepoScanned(w, r)
    <2> DEFINE over(res) == Cardinality(DOMAIN res) > MaxDependencies
               d(res) == [NoCall EXCEPT !.now = clock', !.scan = Current(r),
                            !.pc      = IF over(res) THEN "put" ELSE "list",
                            !.error   = IF over(res) THEN "too_large" ELSE "none",
                            !.results = IF over(res) THEN NoResults ELSE res]
    <2>1. Calls(w, r) /\ UNCHANGED <<store, ghosts>>
      BY <1>3 DEF RepoScanned
    <2>2. PICK res \in Results : call' = [call EXCEPT ![w][r] = d(res)]
      BY <1>3 DEF RepoScanned
    <2>3. d(res) \in CallType /\ d(res).scan = Current(r) /\ d(res).left = {}
      <3>1. NoResults \in Results
        BY NoCallType DEF CallType, NoCall
      <3> HIDE DEF over
      <3> QED
        BY <1>b, <1>c, <2>1, <3>1, NoCallType DEF CallType, NoCall, Errors
    <2>4. call' \in [Releases -> [Repos -> CallType]] /\ InFlightOK'
      <3> HIDE DEF d
      <3> QED
        BY <1>b, <1>c, <1>d, <2>1, <2>2, <2>3
    <2>5. TypeOK'
      BY <1>b, <2>1, <2>4 DEF TypeOK, store, ghosts
    <2>6. QED
      BY <2>4, <2>5
  <1>e. ASSUME run' = run
        PROVE  \A v \in Releases : run'[v].pc = run[v].pc /\ run'[v].victim = run[v].victim
    BY <1>e
  <1>f. c.pc # "idle" => run[w].pc = "scan" /\ c.scan \in RepositoryScan
    BY DEF InFlightOK
  <1>4. CASE ListDependencies(w, r)
    <2> DEFINE d == [c EXCEPT !.pc = "write", !.old = Old(w, r), !.left = DOMAIN c.results,
                              !.gone = {n \in Names : Old(w, r)[n] # NoDep} \ NamesOf(c.results)]
    <2>1. c.pc = "list" /\ call' = [call EXCEPT ![w][r] = d] /\ UNCHANGED <<store, run, clock, ghosts>>
      BY <1>4 DEF ListDependencies
    <2>2. Old(w, r) \in [Names -> Dependency \cup {NoDep}]
      BY DEF Old, TypeOK
    <2>3. DOMAIN c.results \in SUBSET Refs
      BY <1>0 DEF CallType, Results
    <2>4. d \in CallType /\ d.left = DOMAIN d.results /\ d.scan = c.scan
      BY <1>0, <2>2, <2>3 DEF CallType
    <2>5. call' \in [Releases -> [Repos -> CallType]] /\ InFlightOK'
      <3> HIDE DEF d
      <3> QED
        BY <1>d, <1>e, <1>f, <2>1, <2>4
    <2>6. TypeOK'
      BY <2>1, <2>5 DEF TypeOK, store, ghosts
    <2>7. QED
      BY <2>5, <2>6
  <1>5. CASE PutDependency(w, r)
    <2> DEFINE new(x) == NextDep(w, c.results[x], c.old[NameOf[x]], c.now)
    <2>1. PICK x \in c.left :
            /\ call' = [call EXCEPT ![w][r].left = @ \ {x}]
            /\ \/ UNCHANGED <<deps, ghosts>>
               \/ /\ deps' = [deps EXCEPT ![r][NameOf[x]] = new(x)]
                  /\ torn' = torn \cup {r}
                  /\ headless' = IF scans[r] = NoScan THEN headless \cup {r} ELSE headless
      BY <1>5 DEF PutDependency
    <2>2. c.pc = "write" /\ UNCHANGED <<scans, run, clock>>
      BY <1>5 DEF PutDependency
    <2>3. x \in DOMAIN c.results
      BY DEF InFlightOK
    <2>4. c.results[x] \in Outcomes /\ NameOf[x] \in Names
      BY <1>0, <2>3, RefsAssumption DEF CallType, Results
    <2>5. new(x) \in Dependency
      BY <1>0, <2>4, NextDepType DEF CallType
    <2> HIDE DEF new
    <2>6. deps' \in [Repos -> [Names -> Dependency \cup {NoDep}]]
      <3>1. deps \in [Repos -> [Names -> Dependency \cup {NoDep}]]
        BY DEF TypeOK
      <3>2. CASE deps' = [deps EXCEPT ![r][NameOf[x]] = new(x)]
        BY <2>5, <3>1, <3>2
      <3>3. QED
        BY <2>1, <3>1, <3>2 DEF ghosts
    <2>7. torn' \subseteq Repos /\ headless' \subseteq Repos
      BY <2>1 DEF TypeOK, ghosts
    <2> DEFINE d == [c EXCEPT !.left = @ \ {x}]
    <2>8. d \in CallType /\ d.left = c.left \ {x} /\ d.results = c.results /\ d.scan = c.scan /\ d.pc = c.pc
      BY <1>0 DEF CallType
    <2>9. c.left \subseteq DOMAIN c.results
      BY DEF InFlightOK
    <2>10. call' = [call EXCEPT ![w][r] = d]
      BY <1>0, <2>1
    <2>11. call' \in [Releases -> [Repos -> CallType]] /\ InFlightOK'
      <3> HIDE DEF d
      <3> QED
        BY <1>d, <1>e, <1>f, <2>2, <2>8, <2>9, <2>10
    <2>12. TypeOK'
      BY <2>2, <2>6, <2>7, <2>11 DEF TypeOK
    <2>13. QED
      BY <2>11, <2>12
  <1>6. CASE DeleteDependency(w, r)
    <2>1. PICK n \in c.gone :
            /\ call' = [call EXCEPT ![w][r].gone = @ \ {n}]
            /\ deps' = [deps EXCEPT ![r][n] = NoDep]
      BY <1>6 DEF DeleteDependency
    <2>2. /\ c.pc = "write" /\ c.left = {} /\ torn' = torn \cup {r}
          /\ UNCHANGED <<scans, run, clock, headless>>
      BY <1>6 DEF DeleteDependency
    <2>3. deps' \in [Repos -> [Names -> Dependency \cup {NoDep}]]
      BY <2>1 DEF TypeOK
    <2> DEFINE d == [c EXCEPT !.gone = @ \ {n}]
    <2>4. d \in CallType /\ d.left = c.left /\ d.results = c.results /\ d.scan = c.scan /\ d.pc = c.pc
      BY <1>0 DEF CallType
    <2>5. call' = [call EXCEPT ![w][r] = d]
      BY <1>0, <2>1
    <2>6. call' \in [Releases -> [Repos -> CallType]] /\ InFlightOK'
      <3> HIDE DEF d
      <3> QED
        BY <1>d, <1>e, <1>f, <2>2, <2>4, <2>5
    <2>7. TypeOK'
      BY <2>2, <2>3, <2>6 DEF TypeOK
    <2>8. QED
      BY <2>6, <2>7
  <1>7. CASE PutRepositoryScan(w, r)
    <2>1. /\ Ready(c)
          /\ scans' = [scans EXCEPT ![r] = ScanAfter(w, c)]
          /\ call' = [call EXCEPT ![w][r] = NoCall]
          /\ torn' = IF c.error = "none" /\ Owned(w, r) = Stored(r) THEN torn \ {r} ELSE torn
          /\ headless' = headless \ {r}
          /\ UNCHANGED <<deps, run, clock>>
      BY <1>7 DEF PutRepositoryScan
    <2>2. ScanAfter(w, c) \in RepositoryScan
      BY <1>0, <1>f, <2>1, ScanAfterType DEF Ready
    <2>3. call' \in [Releases -> [Repos -> CallType]] /\ InFlightOK'
      BY <1>a, <1>d, <1>e, <2>1, NoCallType
    <2>4. TypeOK'
      BY <2>1, <2>2, <2>3 DEF TypeOK
    <2>5. QED
      BY <2>3, <2>4
  <1>8. CASE RepoFails(w, r)
    <2>1. call' = [call EXCEPT ![w][r] = NoCall] /\ UNCHANGED <<store, run, clock, ghosts>>
      BY <1>8 DEF RepoFails
    <2>2. call' \in [Releases -> [Repos -> CallType]] /\ InFlightOK'
      BY <1>a, <1>d, <1>e, <2>1, NoCallType
    <2>3. TypeOK'
      BY <2>1, <2>2 DEF TypeOK, store, ghosts
    <2>4. QED
      BY <2>2, <2>3
  <1>9. QED
    BY <1>1, <1>2, <1>3, <1>4, <1>5, <1>6, <1>7, <1>8 DEF RepoStep

(* TypeOK holds in every reachable state. *)
THEOREM TypeCorrect == Spec => [](TypeOK /\ InFlightOK)
  <1>1. TypeOK /\ InFlightOK /\ [Next]_vars => (TypeOK /\ InFlightOK)'
    <2> SUFFICES ASSUME TypeOK, InFlightOK, [Next]_vars
                 PROVE  TypeOK' /\ InFlightOK'
      OBVIOUS
    <2>1. CASE UNCHANGED vars
      BY <2>1 DEF vars, TypeOK, InFlightOK
    <2>2. CASE Next
      BY <2>2, ScanStepType, RepoStepType DEF Next
    <2>3. QED
      BY <2>1, <2>2
  <1>2. QED
    BY <1>1, InitType, PTL DEF Spec

----------------------------------------------------------------------------
(* NoLostHandle, with one release at a time.                               *)

HandleInv == OneScan /\ PruneOK /\ NoLostHandle

(* A step that leaves the store and only moves processes between phases    *)
(* other than "delete" keeps the handles.                                  *)
LEMMA ScanStepHandle ==
  ASSUME OneScan', NEW w \in Releases, TypeOK, InFlightOK, HandleInv,
         StartScan(w) \/ PruneStep(w) \/ EndScan(w) \/ Crash(w)
  PROVE  HandleInv'
  <1>0. run \in [Releases -> RunType] /\ run[w] \in RunType /\ run \in [Releases -> RunType]
    BY DEF TypeOK
  <1>a. NoRun.pc = "idle"
    BY DEF NoRun
  (* The store does not change and w ends up outside "delete". *)
  <1>b. ASSUME UNCHANGED store, headless' = headless,
               \A v \in Releases : v # w => run'[v] = run[v],
               run'[w].pc # "delete"
        PROVE  HandleInv'
    <2>1. \A r : Stored(r)' = Stored(r)
      BY <1>b DEF Stored, store
    <2>2. NoLostHandle'
      BY <1>b, <2>1 DEF HandleInv, NoLostHandle, store
    <2>3. PruneOK'
      BY <1>b, <2>1 DEF HandleInv, PruneOK
    <2>5. QED
      BY <2>2, <2>3 DEF HandleInv
  <1>1. CASE StartScan(w)
    <2> DEFINE Start(conf) ==
          [NoRun EXCEPT !.pc = "prune", !.conf = conf,
             !.victims = {r \in Repos \ conf : scans[r] # NoScan /\ ~Foreign(w, r)}]
    <2>1. PICK conf \in SUBSET Repos \ {{}} : run' = [run EXCEPT ![w] = Start(conf)]
      BY <1>1 DEF StartScan
    <2>2. Start(conf).pc = "prune"
      BY DEF NoRun
    <2> HIDE DEF Start
    <2>3. run'[w].pc = "prune" /\ \A v \in Releases : v # w => run'[v] = run[v]
      BY <1>0, <2>1, <2>2
    <2>4. QED
      BY <1>1, <1>b, <2>3 DEF StartScan, ghosts
  <1>2. CASE PruneVictim(w)
    <2>1. PICK r \in run[w].victims :
            run' = [run EXCEPT ![w].pc = "delete", ![w].victim = r, ![w].doomed = Stored(r),
                               ![w].victims = @ \ {r}]
      BY <1>2 DEF PruneVictim
    <2>2. run[w].pc = "prune" /\ UNCHANGED <<store, headless>>
      BY <1>2 DEF PruneVictim, ghosts
    <2>3. /\ run'[w].pc = "delete" /\ run'[w].victim = r /\ run'[w].doomed = Stored(r)
          /\ \A v \in Releases : v # w => run'[v] = run[v]
      BY <1>0, <2>1 DEF RunType
    <2>4. \A q : Stored(q)' = Stored(q)
      BY <2>2 DEF Stored, store
    <2>5. PruneOK'
      BY <2>3, <2>4 DEF HandleInv, PruneOK
    <2>6. OneScan' /\ NoLostHandle'
      BY <2>2, <2>3, <2>4 DEF HandleInv, OneScan, NoLostHandle, store
    <2>7. QED
      BY <2>5, <2>6 DEF HandleInv
  <1>3. CASE PruneDependency(w)
    <2>1. PICK n \in run[w].doomed :
            /\ deps' = [deps EXCEPT ![run[w].victim][n] = NoDep]
            /\ run' = [run EXCEPT ![w].doomed = @ \ {n}]
      BY <1>3 DEF PruneDependency
    <2>2. run[w].pc = "delete" /\ scans' = scans /\ headless' = headless /\ run[w].victim \in Repos
      BY <1>3 DEF PruneDependency, InFlightOK
    <2>3. /\ run'[w].pc = "delete" /\ run'[w].victim = run[w].victim /\ run'[w].doomed = run[w].doomed \ {n}
          /\ \A v \in Releases : v # w => run'[v] = run[v]
      BY <1>0, <2>1, <2>2 DEF RunType
    <2>4. \A r \in Repos : Stored(r)' = IF r = run[w].victim THEN Stored(r) \ {n} ELSE Stored(r)
      BY <2>1, <2>2 DEF Stored, TypeOK
    <2>5. \A v \in Releases : v # w => run[v].pc = "idle"
      BY <2>2 DEF HandleInv, OneScan
    <2>6. PruneOK'
      BY <2>2, <2>3, <2>4, <2>5 DEF HandleInv, PruneOK
    <2>7. OneScan'
      BY <2>3, <2>5 DEF OneScan
    <2>8. NoLostHandle'
      BY <2>2, <2>4 DEF HandleInv, NoLostHandle
    <2>9. QED
      BY <2>6, <2>7, <2>8 DEF HandleInv
  <1>4. CASE PruneRepositoryScan(w)
    <2>1. /\ run[w].pc = "delete" /\ run[w].doomed = {} /\ run[w].victim \in Repos
          /\ scans' = [scans EXCEPT ![run[w].victim] = NoScan]
          /\ run' = [run EXCEPT ![w].pc = "prune", ![w].victim = None]
          /\ deps' = deps /\ headless' = headless
      BY <1>4 DEF PruneRepositoryScan, ghosts, InFlightOK
    <2>2. run'[w].pc = "prune" /\ \A v \in Releases : v # w => run'[v] = run[v]
      BY <1>0, <2>1 DEF RunType
    <2>3. \A r : Stored(r)' = Stored(r)
      BY <2>1 DEF Stored
    <2>4. Stored(run[w].victim) = {}
      BY <2>1 DEF HandleInv, PruneOK
    <2>5. NoLostHandle'
      BY <2>1, <2>3, <2>4 DEF HandleInv, NoLostHandle, TypeOK
    <2>6. PruneOK' /\ OneScan'
      BY <2>1, <2>2, <2>3 DEF HandleInv, PruneOK, OneScan
    <2>7. QED
      BY <2>5, <2>6 DEF HandleInv
  <1>5. CASE PruneDone(w)
    <2>1. run[w].pc = "prune" /\ run' = [run EXCEPT ![w].pc = "scan"] /\ UNCHANGED <<store, headless>>
      BY <1>5 DEF PruneDone, ghosts
    <2>2. run'[w].pc = "scan" /\ \A v \in Releases : v # w => run'[v] = run[v]
      BY <1>0, <2>1 DEF RunType
    <2>3. QED
      BY <1>b, <2>1, <2>2
  <1>6. CASE PruneFails(w) \/ EndScan(w) \/ Crash(w)
    <2>1. run' = [run EXCEPT ![w] = NoRun] /\ UNCHANGED <<store, headless>>
      BY <1>6 DEF PruneFails, EndScan, Crash, ghosts
    <2>2. run'[w].pc = "idle" /\ \A v \in Releases : v # w => run'[v] = run[v]
      BY <1>0, <1>a, <2>1
    <2>3. QED
      BY <1>b, <2>1, <2>2
  <1>7. QED
    BY <1>1, <1>2, <1>3, <1>4, <1>5, <1>6 DEF PruneStep

(* A first scan marks its repository before its Dependencies can outlive it. *)
LEMMA RepoStepHandle ==
  ASSUME NEW w \in Releases, NEW r \in Repos, TypeOK, InFlightOK, HandleInv, RepoStep(w, r)
  PROVE  HandleInv'
  <1> DEFINE c == call[w][r]
  <1>0. run \in [Releases -> RunType] /\ run[w] \in RunType /\ call[w][r] \in CallType
    BY DEF TypeOK
  <1>1. \A v \in Releases :
          run'[v].pc = run[v].pc /\ run'[v].victim = run[v].victim /\ run'[v].doomed = run[v].doomed
    <2>1. run' = [run EXCEPT ![w].done = @ \cup {r}] \/ run' = run
      BY DEF RepoStep, RepoRefused, RepoFailed, RepoScanned, Calls, ListDependencies,
             PutDependency, DeleteDependency, PutRepositoryScan, RepoFails
    <2>2. QED
      BY <1>0, <2>1 DEF RunType
  <1>2. OneScan'
    BY <1>1 DEF HandleInv, OneScan
  <1>3. ASSUME UNCHANGED store, headless' = headless
        PROVE  PruneOK' /\ NoLostHandle'
    <2>1. \A q : Stored(q)' = Stored(q)
      BY <1>3 DEF Stored, store
    <2>2. QED
      BY <1>1, <1>3, <2>1 DEF HandleInv, PruneOK, NoLostHandle, store
  (* While a call is in flight nobody prunes. *)
  <1>4. ASSUME c.pc # "idle"
        PROVE  \A v \in Releases : run[v].pc # "delete"
    <2>1. run[w].pc = "scan"
      BY <1>4 DEF InFlightOK
    <2>2. QED
      BY <2>1 DEF HandleInv, OneScan
  <1>5. CASE RepoRefused(w, r) \/ RepoFailed(w, r) \/ RepoScanned(w, r) \/ ListDependencies(w, r) \/ RepoFails(w, r)
    <2>1. UNCHANGED store /\ headless' = headless
      BY <1>5 DEF RepoRefused, RepoFailed, RepoScanned, ListDependencies, RepoFails, ghosts
    <2>2. QED
      BY <1>2, <1>3, <2>1 DEF HandleInv
  <1>6. CASE PutDependency(w, r)
    <2>1. c.pc # "idle" /\ scans' = scans
      BY <1>6 DEF PutDependency
    <2>2. PruneOK'
      BY <1>1, <1>4, <2>1 DEF PruneOK
    <2>3. \/ UNCHANGED <<deps, headless>>
          \/ /\ \E n, d : deps' = [deps EXCEPT ![r][n] = d]
             /\ headless' = IF scans[r] = NoScan THEN headless \cup {r} ELSE headless
      BY <1>6 DEF PutDependency, ghosts
    <2>4. CASE UNCHANGED <<deps, headless>>
      BY <1>2, <1>3, <2>1, <2>4 DEF HandleInv, store
    <2>5. CASE /\ \E n, d : deps' = [deps EXCEPT ![r][n] = d]
               /\ headless' = IF scans[r] = NoScan THEN headless \cup {r} ELSE headless
      <3>1. \A q \in Repos : q # r => Stored(q)' = Stored(q)
        BY <2>5 DEF Stored, TypeOK
      <3>2. NoLostHandle'
        BY <2>1, <2>5, <3>1 DEF HandleInv, NoLostHandle
      <3>3. QED
        BY <1>2, <2>2, <3>2 DEF HandleInv
    <2>6. QED
      BY <2>3, <2>4, <2>5
  <1>7. CASE DeleteDependency(w, r)
    <2>1. PICK n \in c.gone : deps' = [deps EXCEPT ![r][n] = NoDep]
      BY <1>7 DEF DeleteDependency
    <2>2. c.pc # "idle" /\ UNCHANGED <<scans, headless>>
      BY <1>7 DEF DeleteDependency
    <2>3. PruneOK'
      BY <1>1, <1>4, <2>2 DEF PruneOK
    <2>4. \A q \in Repos : Stored(q)' \subseteq Stored(q)
      BY <2>1 DEF Stored, TypeOK
    <2>5. NoLostHandle'
      BY <2>2, <2>4 DEF HandleInv, NoLostHandle
    <2>6. QED
      BY <1>2, <2>3, <2>5 DEF HandleInv
  <1>8. CASE PutRepositoryScan(w, r)
    <2>1. /\ Ready(c) /\ scans' = [scans EXCEPT ![r] = ScanAfter(w, c)]
          /\ headless' = headless \ {r} /\ deps' = deps
      BY <1>8 DEF PutRepositoryScan
    <2>2. c.scan \in RepositoryScan
      BY <2>1 DEF Ready, InFlightOK
    <2>3. ScanAfter(w, c) # NoScan
      BY <1>0, <2>2, ScanAfterType, NilAssumption
    <2>4. \A q : Stored(q)' = Stored(q)
      BY <2>1 DEF Stored
    <2>5. PruneOK'
      BY <1>1, <2>4 DEF HandleInv, PruneOK
    <2>6. NoLostHandle'
      BY <2>1, <2>3, <2>4 DEF HandleInv, NoLostHandle, TypeOK
    <2>7. QED
      BY <1>2, <2>5, <2>6 DEF HandleInv
  <1>9. QED
    BY <1>5, <1>6, <1>7, <1>8 DEF RepoStep

LEMMA AlwaysHandle == Spec /\ []OneScan => []HandleInv
  <1>1. Init => HandleInv
    BY DEF Init, HandleInv, OneScan, PruneOK, NoLostHandle, NoRun, Stored
  <1>2. OneScan' /\ TypeOK /\ InFlightOK /\ HandleInv /\ [Next]_vars => HandleInv'
    <2> SUFFICES ASSUME OneScan', TypeOK, InFlightOK, HandleInv, [Next]_vars
                 PROVE  HandleInv'
      OBVIOUS
    <2>1. CASE UNCHANGED vars
      BY <2>1 DEF vars, HandleInv, OneScan, PruneOK, NoLostHandle, Stored
    <2>2. CASE Next
      BY <2>2, ScanStepHandle, RepoStepHandle DEF Next
    <2>3. QED
      BY <2>1, <2>2
  <1>3. QED
    BY <1>1, <1>2, TypeCorrect, PTL DEF Spec

(* With one release at a time, every Dependency a scan left behind can still be *)
(* found through its RepositoryScan, however many scans were cut short, except *)
(* those of a first scan that never wrote one.                                 *)
THEOREM HandlesKept == Spec /\ []OneScan => []NoLostHandle
  <1>1. HandleInv => NoLostHandle
    BY DEF HandleInv
  <1>2. QED
    BY <1>1, AlwaysHandle, PTL
----------------------------------------------------------------------------
(* What a step leaves alone.                                               *)

(* A call that is not its own step's is where it was, or gone with its process. *)
LEMMA CallMoves ==
  ASSUME TypeOK, [Next]_vars, NEW w \in Releases, NEW r \in Repos
  PROVE  call'[w][r] = call[w][r] \/ call'[w][r].pc = "idle" \/ RepoStep(w, r)
  <1>0. call \in [Releases -> [Repos -> CallType]]
    BY DEF TypeOK
  <1>1. ASSUME NEW v \in Releases, NEW q \in Repos, RepoStep(v, q), v # w \/ q # r
        PROVE  call'[w][r] = call[w][r]
    <2> USE <1>0, <1>1
    <2>1. CASE RepoRefused(v, q)
      BY <2>1 DEF RepoRefused
    <2>2. CASE RepoFailed(v, q)
      BY <2>2 DEF RepoFailed
    <2>3. CASE RepoScanned(v, q)
      BY <2>3 DEF RepoScanned
    <2>4. CASE ListDependencies(v, q)
      BY <2>4 DEF ListDependencies
    <2>5. CASE PutDependency(v, q)
      BY <2>5 DEF PutDependency
    <2>6. CASE DeleteDependency(v, q)
      BY <2>6 DEF DeleteDependency
    <2>7. CASE PutRepositoryScan(v, q) \/ RepoFails(v, q)
      BY <2>7 DEF PutRepositoryScan, RepoFails
    <2> QED BY <2>1, <2>2, <2>3, <2>4, <2>5, <2>6, <2>7 DEF RepoStep
  <1>2. ASSUME NEW v \in Releases, Crash(v)
        PROVE  call'[w][r] = call[w][r] \/ call'[w][r].pc = "idle"
    BY <1>0, <1>2 DEF Crash, NoCall
  <1>3. ASSUME NEW v \in Releases, StartScan(v) \/ PruneStep(v) \/ EndScan(v)
        PROVE  call'[w][r] = call[w][r]
    BY <1>3 DEF StartScan, PruneStep, EndScan, PruneVictim, PruneDependency, PruneRepositoryScan,
                PruneDone, PruneFails
  <1>4. CASE UNCHANGED vars
    BY <1>4 DEF vars
  <1> QED BY <1>1, <1>2, <1>3, <1>4 DEF Next

(* A step of Writer.Repo changes nothing of another repository. *)
LEMMA Elsewhere ==
  ASSUME TypeOK, NEW w \in Releases, NEW q \in Repos, RepoStep(w, q), NEW r \in Repos, r # q
  PROVE  /\ scans'[r] = scans[r] /\ deps'[r] = deps[r]
         /\ r \in torn' <=> r \in torn
  <1> USE DEF TypeOK, store, ghosts
  <1>1. scans'[r] = scans[r]
    BY DEF RepoStep, RepoRefused, RepoFailed, RepoScanned, ListDependencies, PutDependency,
           DeleteDependency, PutRepositoryScan, RepoFails
  <1>2. deps'[r] = deps[r]
    <2>1. deps' = deps \/ \E n, d : deps' = [deps EXCEPT ![q][n] = d]
      BY DEF RepoStep, RepoRefused, RepoFailed, RepoScanned, ListDependencies, PutDependency,
             DeleteDependency, PutRepositoryScan, RepoFails
    <2> QED BY <2>1
  <1>3. torn' = torn \/ torn' = torn \cup {q} \/ torn' = torn \ {q}
    BY DEF RepoStep, RepoRefused, RepoFailed, RepoScanned, ListDependencies, PutDependency,
           DeleteDependency, PutRepositoryScan, RepoFails
  <1> QED BY <1>1, <1>2, <1>3

(* The calls that begin: on another release's report none does. *)
LEMMA Begins ==
  ASSUME TypeOK, [Next]_vars, NEW w \in Releases, NEW r \in Repos,
         call[w][r].pc = "idle", call'[w][r].pc # "idle"
  PROVE  /\ UNCHANGED store /\ Calls(w, r) /\ ~Foreign(w, r)
         /\ call'[w][r].scan = Current(r) /\ call'[w][r].now = clock'
         /\ call'[w][r].pc \in {"list", "put"}
         /\ call'[w][r].error # "none" <=> call'[w][r].pc = "put"
  <1>0. call \in [Releases -> [Repos -> CallType]]
    BY DEF TypeOK
  <1>1. RepoFailed(w, r) \/ RepoScanned(w, r)
    BY CallMoves DEF RepoStep, RepoRefused, ListDependencies, PutDependency, DeleteDependency,
                     PutRepositoryScan, Ready, RepoFails
  <1>2. CASE RepoFailed(w, r)
    BY <1>0, <1>2 DEF RepoFailed, NoCall
  <1>3. CASE RepoScanned(w, r)
    <2>1. PICK results \in Results :
            LET over == Cardinality(DOMAIN results) > MaxDependencies IN
            call' = [call EXCEPT ![w][r] =
                       [NoCall EXCEPT !.now = clock', !.scan = Current(r),
                          !.pc      = IF over THEN "put" ELSE "list",
                          !.error   = IF over THEN "too_large" ELSE "none",
                          !.results = IF over THEN NoResults ELSE results]]
      BY <1>3 DEF RepoScanned
    <2>2. CASE Cardinality(DOMAIN results) > MaxDependencies
      BY <1>0, <1>3, <2>1, <2>2 DEF RepoScanned, NoCall
    <2>3. CASE ~(Cardinality(DOMAIN results) > MaxDependencies)
      BY <1>0, <1>3, <2>1, <2>3 DEF RepoScanned, NoCall
    <2> QED BY <2>2, <2>3
  <1> QED BY <1>1, <1>2, <1>3

(* A call that goes on keeps what it began with. *)
LEMMA GoesOn ==
  ASSUME TypeOK, [Next]_vars, NEW w \in Releases, NEW r \in Repos,
         call[w][r].pc # "idle", call'[w][r].pc # "idle", r \in run[w].done
  PROVE  /\ call'[w][r].scan = call[w][r].scan /\ call'[w][r].now = call[w][r].now
         /\ call'[w][r].error = call[w][r].error /\ call'[w][r].results = call[w][r].results
         /\ call'[w][r].pc = "put" <=> call[w][r].pc = "put"
         /\ \/ call'[w][r] = call[w][r]
            \/ ListDependencies(w, r) \/ PutDependency(w, r) \/ DeleteDependency(w, r)
  <1> DEFINE c == call[w][r]
  <1>0. call \in [Releases -> [Repos -> CallType]] /\ c \in CallType
    BY DEF TypeOK
  <1>1. call'[w][r] = c \/ ListDependencies(w, r) \/ PutDependency(w, r) \/ DeleteDependency(w, r)
    <2>1. ~PutRepositoryScan(w, r) /\ ~RepoFails(w, r)
      BY <1>0 DEF PutRepositoryScan, RepoFails, NoCall
    <2>2. ~RepoRefused(w, r) /\ ~RepoFailed(w, r) /\ ~RepoScanned(w, r)
      BY DEF RepoRefused, RepoFailed, RepoScanned, Calls
    <2> QED BY <2>1, <2>2, CallMoves DEF RepoStep
  <1>2. CASE ListDependencies(w, r)
    <2>1. call'[w][r] = [c EXCEPT !.pc = "write", !.old = Old(w, r), !.left = DOMAIN c.results,
                           !.gone = {n \in Names : Old(w, r)[n] # NoDep} \ NamesOf(c.results)]
      BY <1>0, <1>2 DEF ListDependencies
    <2> QED BY <1>0, <1>2, <2>1 DEF ListDependencies, CallType
  <1>3. CASE PutDependency(w, r)
    <2>1. PICK x \in c.left : call' = [call EXCEPT ![w][r].left = @ \ {x}]
      BY <1>3 DEF PutDependency
    <2>2. call'[w][r] = [c EXCEPT !.left = @ \ {x}]
      BY <1>0, <2>1
    <2> QED BY <1>0, <1>3, <2>2 DEF CallType
  <1>4. CASE DeleteDependency(w, r)
    <2>a. PICK n \in c.gone : call' = [call EXCEPT ![w][r].gone = @ \ {n}]
      BY <1>4 DEF DeleteDependency
    <2>1. call'[w][r] = [c EXCEPT !.gone = @ \ {n}]
      BY <1>0, <2>a
    <2> QED BY <1>0, <1>4, <2>1 DEF CallType
  <1> QED BY <1>1, <1>2, <1>3, <1>4

LEMMA DoneGrows ==
  ASSUME TypeOK, InFlightOK, [Next]_vars, NEW w \in Releases, NEW r \in Repos,
         call[w][r].pc # "idle", call'[w][r].pc # "idle"
  PROVE  run[w].done \subseteq run'[w].done
  <1>0. run \in [Releases -> RunType] /\ call \in [Releases -> [Repos -> CallType]]
    BY DEF TypeOK
  <1>1. run[w].pc = "scan"
    BY DEF InFlightOK
  <1>2. ASSUME NEW v \in Releases, \E d : run' = [run EXCEPT ![v] = d], v # w
        PROVE  run'[w] = run[w]
    BY <1>0, <1>2
  <1>3. ASSUME NEW v \in Releases, StartScan(v) \/ PruneStep(v) \/ EndScan(v) \/ Crash(v)
        PROVE  run'[w] = run[w]
    <2>1. v # w
      <3>1. Crash(w) => call'[w][r] = NoCall
        BY <1>0 DEF Crash
      <3>2. ~Crash(w)
        BY <3>1 DEF NoCall
      <3>3. ~EndScan(w) /\ ~StartScan(w)
        BY <1>1 DEF EndScan, StartScan
      <3>4. ~PruneStep(w)
        BY <1>1 DEF PruneStep, PruneVictim, PruneDependency, PruneRepositoryScan, PruneDone, PruneFails
      <3> QED BY <1>3, <3>2, <3>3, <3>4
    <2>2. \E d : run' = [run EXCEPT ![v] = d]
      BY <1>3 DEF StartScan, PruneStep, EndScan, Crash, PruneVictim, PruneDependency,
            PruneRepositoryScan, PruneDone, PruneFails
    <2> QED BY <1>2, <2>1, <2>2
  <1>4. ASSUME NEW v \in Releases, NEW q \in Repos, RepoStep(v, q)
        PROVE  run[w].done \subseteq run'[w].done
    <2>1. run' = run \/ run' = [run EXCEPT ![v].done = @ \cup {q}]
      BY <1>4 DEF RepoStep, RepoRefused, RepoFailed, RepoScanned, Calls, ListDependencies,
            PutDependency, DeleteDependency, PutRepositoryScan, RepoFails
    <2> QED BY <1>0, <2>1 DEF RunType
  <1>5. CASE UNCHANGED vars
    BY <1>5 DEF vars
  <1> QED BY <1>3, <1>4, <1>5 DEF Next

LEMMA ClockGrows == ASSUME TypeOK, [Next]_vars PROVE clock' \in {clock, clock + 1} /\ clock \in Nat
  <1>1. clock \in Nat
    BY BoundsAssumption DEF TypeOK, Times
  <1>2. ASSUME NEW w \in Releases, NEW r \in Repos, RepoStep(w, r)
        PROVE  clock' \in {clock, clock + 1}
    BY <1>1, <1>2 DEF RepoStep, RepoRefused, RepoFailed, RepoScanned, Calls, ListDependencies,
          PutDependency, DeleteDependency, PutRepositoryScan, RepoFails
  <1>3. ASSUME NEW w \in Releases, StartScan(w) \/ PruneStep(w) \/ EndScan(w) \/ Crash(w)
        PROVE  clock' = clock
    BY <1>3 DEF StartScan, PruneStep, EndScan, Crash, PruneVictim, PruneDependency, PruneRepositoryScan,
          PruneDone, PruneFails
  <1> QED BY <1>1, <1>2, <1>3 DEF Next, vars

(* What changes a RepositoryScan. *)
LEMMA ScansMove ==
  ASSUME TypeOK, InFlightOK, [Next]_vars, NEW r \in Repos
  PROVE  \/ scans'[r] = scans[r]
         \/ \E w \in Releases : PutRepositoryScan(w, r)
         \/ \E w \in Releases : PruneRepositoryScan(w) /\ run[w].victim = r
  <1> USE DEF TypeOK, store
  <1>1. ASSUME NEW w \in Releases, NEW q \in Repos, RepoStep(w, q)
        PROVE  scans'[r] = scans[r] \/ PutRepositoryScan(w, r)
    <2>1. CASE q = r
      BY <1>1, <2>1 DEF RepoStep, RepoRefused, RepoFailed, RepoScanned, ListDependencies, PutDependency,
                        DeleteDependency, RepoFails
    <2> QED BY <1>1, <2>1, Elsewhere
  <1>2. ASSUME NEW w \in Releases, StartScan(w) \/ PruneStep(w) \/ EndScan(w) \/ Crash(w)
        PROVE  scans'[r] = scans[r] \/ (PruneRepositoryScan(w) /\ run[w].victim = r)
    BY <1>2 DEF StartScan, PruneStep, EndScan, Crash, PruneVictim, PruneDependency, PruneRepositoryScan,
                PruneDone, PruneFails
  <1>3. CASE UNCHANGED vars
    BY <1>3 DEF vars
  <1> QED BY <1>1, <1>2, <1>3 DEF Next

(* What changes the Dependencies of a repository; it is torn then. *)
LEMMA DepsMove ==
  ASSUME TypeOK, InFlightOK, [Next]_vars, NEW r \in Repos
  PROVE  \/ deps'[r] = deps[r]
         \/ /\ r \in torn'
            /\ \/ \E w \in Releases : PutDependency(w, r) \/ DeleteDependency(w, r)
               \/ \E w \in Releases : PruneDependency(w) /\ run[w].victim = r
  <1> USE DEF TypeOK, store, ghosts
  <1>1. ASSUME NEW w \in Releases, NEW q \in Repos, RepoStep(w, q)
        PROVE  deps'[r] = deps[r] \/ (r \in torn' /\ (PutDependency(w, r) \/ DeleteDependency(w, r)))
    <2>1. CASE q = r
      BY <1>1, <2>1 DEF RepoStep, RepoRefused, RepoFailed, RepoScanned, ListDependencies, PutDependency,
                        DeleteDependency, PutRepositoryScan, RepoFails
    <2> QED BY <1>1, <2>1, Elsewhere
  <1>2. ASSUME NEW w \in Releases, PruneDependency(w)
        PROVE  deps'[r] = deps[r] \/ (r \in torn' /\ run[w].victim = r)
    <2>1. torn' = torn \cup {run[w].victim} /\ \E n : deps' = [deps EXCEPT ![run[w].victim][n] = NoDep]
      BY <1>2 DEF PruneDependency
    <2> QED BY <2>1
  <1>3. ASSUME NEW w \in Releases, StartScan(w) \/ PruneStep(w) \/ EndScan(w) \/ Crash(w), ~PruneDependency(w)
        PROVE  deps'[r] = deps[r]
    BY <1>3 DEF StartScan, PruneStep, EndScan, Crash, PruneVictim, PruneRepositoryScan, PruneDone, PruneFails
  <1>4. CASE UNCHANGED vars
    BY <1>4 DEF vars
  <1> QED BY <1>1, <1>2, <1>3, <1>4 DEF Next

----------------------------------------------------------------------------
(* The history of a report, and the dates.                                 *)

(* What Push yields, run by run. *)
LEMMA PushRuns ==
  ASSUME NEW entry \in Run, NEW h \in Seq(Run)
  PROVE  /\ Push(entry, h) \in Seq(Run)
         /\ Len(Push(entry, h)) = IF Len(h) + 1 <= History THEN Len(h) + 1 ELSE History
         /\ \A i \in 1 .. Len(Push(entry, h)) : Push(entry, h)[i] = IF i = 1 THEN entry ELSE h[i - 1]
  <1> DEFINE s == <<entry>> \o h
             n == IF Len(h) + 1 <= History THEN Len(h) + 1 ELSE History
  <1>1. /\ s \in Seq(Run) /\ Len(s) = Len(h) + 1
        /\ \A i \in 1 .. Len(h) + 1 : s[i] = IF i = 1 THEN entry ELSE h[i - 1]
    OBVIOUS
  <1>2. n \in 0 .. Len(h) + 1 /\ n \in Nat
    BY BoundsAssumption
  <1>3. Push(entry, h) = SubSeq(s, 1, n)
    BY DEF Push
  <1>4. Len(SubSeq(s, 1, n)) = n /\ \A i \in 1 .. n : SubSeq(s, 1, n)[i] = s[i]
    <2> HIDE DEF s, n
    <2> QED BY <1>1, <1>2
  <1>5. \A i \in 1 .. n : i \in 1 .. Len(h) + 1
    BY <1>2
  <1> HIDE DEF s, n
  <1>6. Len(Push(entry, h)) = n /\ \A i \in 1 .. n : Push(entry, h)[i] = IF i = 1 THEN entry ELSE h[i - 1]
    BY <1>1, <1>3, <1>4, <1>5
  <1> QED BY <1>6, PushType DEF n

(* A history and a last success that are no newer than the last scan; unlike *)
(* HistoryOf, it holds of the RepositoryScan a first scan starts from.        *)
Past(s) ==
  /\ Len(s.history) <= History
  /\ \A i, j \in DOMAIN s.history : i < j => s.history[i].time > s.history[j].time
  /\ \A i \in DOMAIN s.history :
       /\ s.history[i].time <= s.lastScan
       /\ s.history[i].phase = "Succeeded" => s.history[i].time <= s.lastSuccess
  /\ \/ \E i \in DOMAIN s.history : s.history[i].phase = "Succeeded" /\ s.history[i].time = s.lastSuccess
     \/ \A i \in DOMAIN s.history : s.lastSuccess < s.history[i].time
  /\ s.lastSuccess <= s.lastScan

LEMMA RunTimes ==
  ASSUME NEW h \in Seq(Run)
  PROVE  \A i \in DOMAIN h : h[i].time \in Nat
  <1>1. \A i \in DOMAIN h : h[i] \in Run
    OBVIOUS
  <1>2. \A e \in Run : e.time \in Nat
    BY BoundsAssumption DEF Run, Times
  <1> QED BY <1>1, <1>2

LEMMA FreshIsPast == Past(FreshScan)
  BY BoundsAssumption DEF Past, FreshScan

LEMMA HistoryIsPast ==
  ASSUME NEW s \in RepositoryScan, HistoryOf(s)
  PROVE  Past(s)
  <1> DEFINE h == s.history
  <1>1. h \in Seq(Run) /\ s.lastScan \in Nat /\ s.lastSuccess \in Nat
    BY BoundsAssumption DEF RepositoryScan, Times
  <1>2. \A i \in DOMAIN h : h[i].time \in Nat
    BY <1>1, RunTimes
  <1>3. DOMAIN h = 1 .. Len(h) /\ Len(h) \in Nat /\ Len(h) <= History
    BY <1>1 DEF HistoryOf
  <1>4. ASSUME NEW i \in DOMAIN h PROVE h[i].time <= s.lastScan
    <2>1. History > 0 /\ 1 \in DOMAIN h
      BY <1>3, BoundsAssumption
    <2>2. h[1].time = s.lastScan
      BY <2>1 DEF HistoryOf
    <2>3. CASE i = 1
      BY <1>1, <2>2, <2>3
    <2>4. CASE i # 1
      <3>1. 1 < i
        BY <1>3, <2>4
      <3> QED BY <1>1, <1>2, <2>1, <2>2, <3>1 DEF HistoryOf
    <2> QED BY <2>3, <2>4
  <1> QED BY <1>1, <1>2, <1>3, <1>4 DEF HistoryOf, Past

(* A report keeps its history: newest first, capped, and in agreement with its status. *)
LEMMA HistoryAfter ==
  ASSUME NEW w \in Releases, NEW c \in CallType, c.scan \in RepositoryScan,
         Past(c.scan), c.scan.lastScan < c.now
  PROVE  HistoryOf(ScanAfter(w, c))
  <1> DEFINE ok     == c.error = "none"
             counts == IF ok THEN CountsOf(c.results) ELSE c.scan.counts
             phase  == IF ok THEN "Succeeded" ELSE "Failed"
             entry  == [time |-> c.now, phase |-> phase, counts |-> counts, error |-> c.error]
             last   == IF ok THEN c.now ELSE c.scan.lastSuccess
             h      == c.scan.history
             p      == Push(entry, h)
             s      == ScanAfter(w, c)
  <1>1. entry \in Run /\ counts \in Counts /\ phase \in Phases
    BY CountsOfType DEF CallType, RepositoryScan, Run, Phases
  <1>2. h \in Seq(Run) /\ c.now \in Nat /\ c.scan.lastScan \in Nat /\ c.scan.lastSuccess \in Nat
    BY BoundsAssumption DEF CallType, RepositoryScan, Times
  <1>3. /\ s.history = p /\ s.lastScan = c.now /\ s.lastSuccess = last
        /\ s.phase = phase /\ s.counts = counts /\ s.error = c.error
    BY DEF ScanAfter
  <1>4. entry.time = c.now /\ entry.phase = phase
    OBVIOUS
  <1>5. last \in Nat /\ (ok => last = c.now) /\ (~ok => last = c.scan.lastSuccess)
        /\ (phase = "Succeeded" <=> ok)
    BY <1>2
  <1>6. /\ s.phase = entry.phase
        /\ entry = [time |-> s.lastScan, phase |-> s.phase, counts |-> s.counts, error |-> s.error]
    BY <1>3
  <1> HIDE DEF entry, counts, phase, last, ok, s
  <1>7. /\ p \in Seq(Run)
        /\ Len(p) = IF Len(h) + 1 <= History THEN Len(h) + 1 ELSE History
        /\ \A i \in 1 .. Len(p) : p[i] = IF i = 1 THEN entry ELSE h[i - 1]
    BY <1>1, <1>2, PushRuns
  <1> HIDE DEF p
  <1>8. /\ DOMAIN h = 1 .. Len(h) /\ Len(h) \in Nat /\ Len(h) <= History
        /\ DOMAIN p = 1 .. Len(p) /\ Len(p) \in Nat /\ Len(p) <= History /\ Len(p) <= Len(h) + 1
        /\ (History > 0 => Len(p) >= 1)
    BY <1>2, <1>7, BoundsAssumption DEF Past
  <1>9. \A i \in DOMAIN h : h[i].time \in Nat
    BY <1>2, RunTimes
  (* The runs that stay are those of the history, one place further. *)
  <1>10. ASSUME NEW i \in DOMAIN p, i # 1
         PROVE  i - 1 \in DOMAIN h /\ p[i] = h[i - 1] /\ h[i - 1].time \in Nat /\ h[i - 1].time < c.now
    <2>1. i - 1 \in DOMAIN h /\ p[i] = h[i - 1]
      BY <1>7, <1>8, <1>10
    <2>2. h[i - 1].time <= c.scan.lastScan
      BY <2>1 DEF Past
    <2> QED BY <1>2, <1>9, <2>1, <2>2
  <1>11. 1 \in DOMAIN p => p[1] = entry
    BY <1>7, <1>8
  <1>12. \A i, j \in DOMAIN p : i < j => p[i].time > p[j].time
    <2> SUFFICES ASSUME NEW i \in DOMAIN p, NEW j \in DOMAIN p, i < j PROVE p[i].time > p[j].time
      OBVIOUS
    <2>1. j # 1 /\ i \in Int /\ j \in Int
      BY <1>8
    <2>2. CASE i = 1
      BY <1>2, <1>4, <1>10, <1>11, <2>1, <2>2
    <2>3. CASE i # 1
      <3>1. i - 1 < j - 1
        BY <2>1
      <3> QED BY <1>10, <2>1, <2>3, <3>1 DEF Past
    <2> QED BY <2>2, <2>3
  <1>13. History > 0 => p # <<>> /\ p[1] = entry
    BY <1>8, <1>11
  <1>14. \A i \in DOMAIN p : p[i].phase = "Succeeded" => p[i].time <= last
    <2> SUFFICES ASSUME NEW i \in DOMAIN p, p[i].phase = "Succeeded" PROVE p[i].time <= last
      OBVIOUS
    <2>1. CASE i = 1
      BY <1>2, <1>4, <1>5, <1>11, <2>1
    <2>2. CASE i # 1
      <3>1. h[i - 1].time <= c.scan.lastSuccess
        BY <1>10, <2>2 DEF Past
      <3> QED BY <1>2, <1>5, <1>10, <2>2, <3>1
    <2> QED BY <2>1, <2>2
  <1>15. \/ \E i \in DOMAIN p : p[i].phase = "Succeeded" /\ p[i].time = last
         \/ \A i \in DOMAIN p : last < p[i].time
    <2>1. CASE ok
      BY <1>4, <1>5, <1>8, <1>11, <2>1
    <2>2. CASE ~ok
      <3>1. c.scan.lastSuccess < c.now
        BY <1>2 DEF Past
      <3>2. CASE \A i \in DOMAIN h : c.scan.lastSuccess < h[i].time
        BY <1>4, <1>5, <1>10, <1>11, <2>2, <3>1, <3>2
      <3>3. ASSUME NEW k \in DOMAIN h, h[k].phase = "Succeeded", h[k].time = c.scan.lastSuccess
            PROVE  \/ \E i \in DOMAIN p : p[i].phase = "Succeeded" /\ p[i].time = last
                   \/ \A i \in DOMAIN p : last < p[i].time
        <4>1. CASE k + 1 \in DOMAIN p
          <5>1. k + 1 # 1 /\ (k + 1) - 1 = k
            BY <1>8
          <5>2. p[k + 1] = h[k]
            BY <1>10, <4>1, <5>1
          <5> QED BY <1>5, <2>2, <3>3, <4>1, <5>2
        <4>2. CASE k + 1 \notin DOMAIN p
          <5> SUFFICES ASSUME NEW i \in DOMAIN p PROVE last < p[i].time
            OBVIOUS
          <5>1. CASE i = 1
            BY <1>4, <1>5, <1>11, <2>2, <3>1, <5>1
          <5>2. CASE i # 1
            <6>1. i - 1 \in DOMAIN h /\ i - 1 < k
              BY <1>8, <1>10, <4>2, <5>2
            <6>2. h[i - 1].time > h[k].time
              BY <6>1 DEF Past
            <6> QED BY <1>5, <1>9, <1>10, <2>2, <3>3, <5>2, <6>2
          <5> QED BY <5>1, <5>2
        <4> QED BY <4>1, <4>2
      <3> QED BY <3>2, <3>3 DEF Past
    <2> QED BY <2>1, <2>2
  <1>16. last <= c.now
    BY <1>2, <1>5 DEF Past
  <1> DEFINE successes == {s.history[i].time : i \in {j \in DOMAIN s.history : s.history[j].phase = "Succeeded"}}
  <1>17. s.history = p /\ s.lastScan = c.now /\ s.lastSuccess = last
    BY <1>3
  <1>18. \A t \in successes : t <= s.lastSuccess
    BY <1>14, <1>17
  <1>19. s.lastSuccess \in successes \/ \A i \in DOMAIN s.history : s.lastSuccess < s.history[i].time
    BY <1>15, <1>17
  <1>20. History > 0 => s.history # <<>> /\ s.history[1] = [time |-> s.lastScan, phase |-> s.phase,
                                                          counts |-> s.counts, error |-> s.error]
    BY <1>6, <1>13, <1>17
  <1>21. /\ Len(s.history) <= History
         /\ \A i, j \in DOMAIN s.history : i < j => s.history[i].time > s.history[j].time
         /\ s.lastSuccess <= s.lastScan
    BY <1>8, <1>12, <1>16, <1>17
  <1> QED BY <1>18, <1>19, <1>20, <1>21 DEF HistoryOf, successes, s

(* A behind reference has the time since when, a known version the time it was seen. *)
DatesSet(d) ==
  /\ d.behind => d.since # 0
  /\ d.latest # None => d.seen # 0

LEMMA NextDepDates ==
  ASSUME NEW w \in Releases, NEW o \in Outcomes, NEW prev \in Dependency \cup {NoDep},
         NEW now \in Times, now # 0
  PROVE  DatesSet(NextDep(w, o, prev, now))
  BY DEF DatesSet, NextDep, OutdatedSince, LatestSeenAt

(* A call in flight is the only one of its scan for its repository, is later *)
(* than the report it started from, and puts at once when it has an error.   *)
UnderWay(w, r) ==
  /\ r \in run[w].done
  /\ call[w][r].error # "none" <=> call[w][r].pc = "put"
  /\ 0 < call[w][r].now /\ call[w][r].now <= clock
  /\ call[w][r].scan.lastScan < call[w][r].now
  /\ Past(call[w][r].scan)

Dated ==
  /\ \A r \in Repos : scans[r] # NoScan => scans[r].lastScan <= clock /\ HistoryOf(scans[r])
  /\ \A r \in Repos, n \in Names : deps[r][n] # NoDep => DatesSet(deps[r][n])
  /\ \A w \in Releases, r \in Repos : call[w][r].pc # "idle" => UnderWay(w, r)

LEMMA UnderWayStep ==
  ASSUME TypeOK, InFlightOK, Dated, [Next]_vars, TypeOK', NEW w \in Releases, NEW r \in Repos,
         call'[w][r].pc # "idle"
  PROVE  UnderWay(w, r)'
  <1>1. clock' \in {clock, clock + 1} /\ clock \in Nat
    BY ClockGrows
  <1>2. CASE call[w][r].pc = "idle"
    <2>1. /\ clock' = clock + 1
          /\ call'[w][r].scan = Current(r) /\ call'[w][r].now = clock'
          /\ call'[w][r].error # "none" <=> call'[w][r].pc = "put"
      BY <1>2, Begins DEF Calls
    <2>2. r \in run'[w].done
      <3>1. run' = [run EXCEPT ![w].done = @ \cup {r}]
        BY <1>2, Begins DEF Calls
      <3>2. run \in [Releases -> RunType]
        BY DEF TypeOK
      <3> QED BY <3>1, <3>2 DEF RunType
    <2>3. Past(Current(r)) /\ Current(r).lastScan <= clock
      <3>1. CASE scans[r] = NoScan
        BY <1>1, <3>1, FreshIsPast DEF Current, FreshScan
      <3>2. CASE scans[r] # NoScan
        <4>1. scans[r] \in RepositoryScan /\ Current(r) = scans[r]
          BY <3>2 DEF TypeOK, Current
        <4> QED BY <3>2, <4>1, HistoryIsPast DEF Dated
      <3> QED BY <3>1, <3>2
    <2>4. Current(r).lastScan \in Nat
      <3>1. Current(r) \in RepositoryScan
        BY FreshScanType DEF Current, TypeOK
      <3> QED BY <3>1, BoundsAssumption DEF RepositoryScan, Times
    <2> QED BY <1>1, <2>1, <2>2, <2>3, <2>4 DEF UnderWay
  <1>3. CASE call[w][r].pc # "idle"
    <2>1. UnderWay(w, r)
      BY <1>3 DEF Dated
    <2>2. /\ call'[w][r].scan = call[w][r].scan /\ call'[w][r].now = call[w][r].now
          /\ call'[w][r].error = call[w][r].error
          /\ call'[w][r].pc = "put" <=> call[w][r].pc = "put"
      BY <1>3, <2>1, GoesOn DEF UnderWay
    <2>3. r \in run'[w].done
      BY <1>3, <2>1, DoneGrows DEF UnderWay
    <2>4. call[w][r].now \in Nat
      BY BoundsAssumption DEF TypeOK, CallType, Times
    <2> QED BY <1>1, <2>1, <2>2, <2>3, <2>4 DEF UnderWay
  <1> QED BY <1>2, <1>3

LEMMA DatedStep ==
  ASSUME TypeOK, InFlightOK, Dated, [Next]_vars, TypeOK'
  PROVE  Dated'
  <1>1. clock' \in {clock, clock + 1} /\ clock \in Nat
    BY ClockGrows
  <1>2. ASSUME NEW r \in Repos, scans'[r] # NoScan
        PROVE  scans'[r].lastScan <= clock' /\ HistoryOf(scans'[r])
    <2>1. CASE scans'[r] = scans[r]
      <3>1. scans[r] \in RepositoryScan
        BY <1>2, <2>1 DEF TypeOK
      <3>2. scans[r].lastScan \in Nat
        BY <3>1, BoundsAssumption DEF RepositoryScan, Times
      <3> QED BY <1>1, <1>2, <2>1, <3>2 DEF Dated
    <2>2. ASSUME NEW w \in Releases, PutRepositoryScan(w, r)
          PROVE  scans'[r].lastScan <= clock' /\ HistoryOf(scans'[r])
      <3> DEFINE c == call[w][r]
      <3>1. Ready(c) /\ scans'[r] = ScanAfter(w, c)
        BY <2>2 DEF PutRepositoryScan, TypeOK
      <3>2. c.pc # "idle" /\ c \in CallType
        BY <3>1 DEF Ready, TypeOK
      <3>3. c.scan \in RepositoryScan /\ UnderWay(w, r)
        BY <3>2 DEF InFlightOK, Dated
      <3>4. HistoryOf(ScanAfter(w, c))
        BY <3>2, <3>3, HistoryAfter DEF UnderWay
      <3>5. ScanAfter(w, c).lastScan = c.now /\ c.now <= clock /\ c.now \in Nat
        BY <3>2, <3>3, BoundsAssumption DEF ScanAfter, UnderWay, CallType, Times
      <3> QED BY <1>1, <3>1, <3>4, <3>5
    <2>3. ASSUME NEW w \in Releases, PruneRepositoryScan(w), run[w].victim = r
          PROVE  FALSE
      BY <1>2, <2>3 DEF PruneRepositoryScan, TypeOK
    <2> QED BY <2>1, <2>2, <2>3, ScansMove
  <1>3. ASSUME NEW r \in Repos, NEW n \in Names, deps'[r][n] # NoDep
        PROVE  DatesSet(deps'[r][n])
    <2>1. CASE deps'[r] = deps[r]
      BY <1>3, <2>1 DEF Dated
    <2>2. ASSUME NEW w \in Releases, PutDependency(w, r)
          PROVE  DatesSet(deps'[r][n])
      <3> DEFINE c == call[w][r]
      <3>1. PICK x \in c.left :
              \/ deps' = deps
              \/ deps' = [deps EXCEPT ![r][NameOf[x]] = NextDep(w, c.results[x], c.old[NameOf[x]], c.now)]
        BY <2>2 DEF PutDependency
      <3>2. c.pc = "write" /\ c \in CallType /\ UnderWay(w, r) /\ x \in DOMAIN c.results
        BY <2>2 DEF PutDependency, TypeOK, Dated, InFlightOK
      <3>3. c.results[x] \in Outcomes /\ NameOf[x] \in Names
        BY <3>2, RefsAssumption DEF CallType, Results
      <3>4. DatesSet(NextDep(w, c.results[x], c.old[NameOf[x]], c.now))
        <4>1. c.old[NameOf[x]] \in Dependency \cup {NoDep} /\ c.now \in Times /\ c.now # 0
          BY <3>2, <3>3, BoundsAssumption DEF CallType, UnderWay, Times
        <4> QED BY <3>3, <4>1, NextDepDates
      <3>5. deps'[r][n] = deps[r][n] \/ deps'[r][n] = NextDep(w, c.results[x], c.old[NameOf[x]], c.now)
        BY <3>1 DEF TypeOK
      <3> QED BY <1>3, <3>4, <3>5 DEF Dated
    <2>3. ASSUME NEW w \in Releases, DeleteDependency(w, r) \/ (PruneDependency(w) /\ run[w].victim = r)
          PROVE  deps'[r][n] = deps[r][n]
      <3>1. \E m : deps' = [deps EXCEPT ![r][m] = NoDep]
        BY <2>3 DEF DeleteDependency, PruneDependency
      <3> QED BY <1>3, <3>1 DEF TypeOK
    <2> QED BY <1>3, <2>1, <2>2, <2>3, DepsMove DEF Dated
  <1> QED BY <1>2, <1>3, UnderWayStep DEF Dated

LEMMA AlwaysDated == Spec => []Dated
  <1>1. Init => Dated
    BY DEF Init, Dated, NoCall
  <1>2. TypeOK /\ InFlightOK /\ TypeOK' /\ Dated /\ [Next]_vars => Dated'
    BY DatedStep
  <1> QED BY <1>1, <1>2, TypeCorrect, PTL DEF Spec

(* For any number of scans, cut short wherever they may be and overlapping or *)
(* not: the history of a report is the last runs, newest first, its head the  *)
(* status beside it, and its last success the newest success (writer.go).     *)
THEOREM HistoriesAgree == Spec => []HistoryAgrees
  <1>1. Dated => HistoryAgrees
    BY DEF Dated, HistoryAgrees
  <1> QED BY <1>1, AlwaysDated, PTL

----------------------------------------------------------------------------
(* One release at a time: what a call in flight knows stays true.          *)

(* Who starts a scan prunes first. *)
LEMMA StartsInPrune ==
  ASSUME TypeOK, NEW v \in Releases, StartScan(v)
  PROVE  /\ run[v].pc = "idle" /\ run'[v].pc = "prune"
         /\ \A w \in Releases \ {v} : run'[w] = run[w]
  <1>1. run \in [Releases -> RunType] /\ NoRun.pc = "idle"
    BY DEF TypeOK, NoRun
  <1>2. PICK conf \in SUBSET Repos \ {{}} :
          run' = [run EXCEPT ![v] =
                   [NoRun EXCEPT !.pc = "prune", !.conf = conf,
                      !.victims = {r \in Repos \ conf : scans[r] # NoScan /\ ~Foreign(v, r)}]]
    BY DEF StartScan
  <1> QED BY <1>1, <1>2 DEF StartScan, NoRun

LEMMA OnlyActor ==
  ASSUME OneScan', TypeOK, InFlightOK, HandleInv, [Next]_vars, NEW w \in Releases, NEW r \in Repos,
         call[w][r].pc # "idle", call'[w][r].pc # "idle"
  PROVE  (\E q \in Repos : RepoStep(w, q)) \/ UNCHANGED vars
  <1>0. call \in [Releases -> [Repos -> CallType]]
    BY DEF TypeOK
  <1>1. run[w].pc = "scan" /\ \A v \in Releases : run[v].pc # "idle" => v = w
    BY DEF InFlightOK, HandleInv, OneScan
  <1>2. ASSUME NEW v \in Releases, NEW q \in Repos, RepoStep(v, q) PROVE v = w
    <2>1. run[v].pc = "scan"
      BY <1>2 DEF RepoStep, RepoRefused, RepoFailed, RepoScanned, Calls, ListDependencies, PutDependency,
                  DeleteDependency, PutRepositoryScan, Ready, RepoFails, InFlightOK
    <2> QED BY <1>1, <2>1
  <1>3. ASSUME NEW v \in Releases PROVE ~StartScan(v) /\ ~PruneStep(v) /\ ~EndScan(v) /\ ~Crash(v)
    <2>1. ASSUME StartScan(v) PROVE FALSE
      <3>1. v # w /\ run'[v].pc = "prune" /\ run'[w].pc = "scan"
        BY <1>1, <2>1, StartsInPrune
      <3> QED BY <3>1 DEF OneScan
    <2>2. ~PruneStep(v)
      BY <1>1 DEF PruneStep, PruneVictim, PruneDependency, PruneRepositoryScan, PruneDone, PruneFails
    <2>3. ~EndScan(v)
      BY <1>1 DEF EndScan
    <2>4. ASSUME Crash(v) PROVE FALSE
      <3>1. v = w
        BY <1>1, <2>4 DEF Crash
      <3> QED BY <1>0, <2>4, <3>1 DEF Crash, NoCall
    <2> QED BY <2>1, <2>2, <2>3, <2>4
  <1> QED BY <1>2, <1>3 DEF Next

(* The names of a call whose references are all still to be written. *)
Pending(c, n) == \A x \in DOMAIN c.results : NameOf[x] = n => x \in c.left

(* While a call writes: a name it has not come to is as it was listed, the   *)
(* others say what a result says, and what is not in the results is still to *)
(* be deleted.                                                               *)
Progress(w, r) ==
  LET c == call[w][r] IN
  /\ \A n \in NamesOf(c.results) :
       IF Pending(c, n) THEN Old(w, r)[n] = c.old[n]
       ELSE n \in Owned(w, r) /\ \E x \in DOMAIN c.results : NameOf[x] = n /\ Says(deps[r][n], c.results[x])
  /\ Owned(w, r) \ NamesOf(c.results) \subseteq c.gone
  /\ c.gone \cap NamesOf(c.results) = {}

InTouch(w, r) ==
  /\ call[w][r].scan = Current(r)
  /\ ~Foreign(w, r)
  /\ call[w][r].pc = "write" => Progress(w, r)

AllInTouch == \A w \in Releases, r \in Repos : call[w][r].pc # "idle" => InTouch(w, r)

LEMMA SaysNext ==
  ASSUME NEW w, NEW o, NEW prev, NEW now
  PROVE  Says(NextDep(w, o, prev, now), o) /\ NextDep(w, o, prev, now).owner = w
  <1>1. Kept \ {"moved"} = {"latest", "behind", "failed", "digest"}
    BY DEF Kept
  <1> QED BY <1>1 DEF Says, NextDep

LEMMA OwnedOld ==
  ASSUME NEW w, NEW r
  PROVE  /\ \A n \in Names : n \in Owned(w, r) <=> deps[r][n] # NoDep /\ ~ForeignOwner(w, deps[r][n].owner)
         /\ \A n \in Names : Old(w, r)[n] = IF n \in Owned(w, r) THEN deps[r][n] ELSE NoDep
         /\ Owned(w, r) \subseteq Names
  BY DEF Owned, Old, Stored

LEMMA ListProgress ==
  ASSUME TypeOK, NEW w \in Releases, NEW r \in Repos, ListDependencies(w, r)
  PROVE  Progress(w, r)'
  <1> DEFINE c == call[w][r]
  <1>0. call \in [Releases -> [Repos -> CallType]] /\ c \in CallType
    BY DEF TypeOK
  <1>1. /\ call'[w][r].results = c.results /\ call'[w][r].left = DOMAIN c.results
        /\ call'[w][r].old = Old(w, r) /\ deps' = deps
        /\ call'[w][r].gone = {n \in Names : Old(w, r)[n] # NoDep} \ NamesOf(c.results)
    BY <1>0 DEF ListDependencies, CallType, store
  <1>2. Old(w, r)' = Old(w, r) /\ Owned(w, r)' = Owned(w, r)
    BY <1>1 DEF Old, Owned, Stored
  <1>3. \A n \in Owned(w, r) : n \in Names /\ Old(w, r)[n] # NoDep
    BY OwnedOld
  <1>4. \A n : Pending(call'[w][r], n)
    BY <1>1 DEF Pending
  <1> QED BY <1>1, <1>2, <1>3, <1>4 DEF Progress

LEMMA PutProgress ==
  ASSUME TypeOK, InFlightOK, NEW w \in Releases, NEW r \in Repos, PutDependency(w, r), Progress(w, r)
  PROVE  Progress(w, r)'
  <1> DEFINE c == call[w][r]
             d == call'[w][r]
  <1>0. call \in [Releases -> [Repos -> CallType]] /\ c \in CallType
        /\ deps \in [Repos -> [Names -> Dependency \cup {NoDep}]]
    BY DEF TypeOK
  <1>1. PICK x \in c.left :
          LET n == NameOf[x]
              e == NextDep(w, c.results[x], c.old[n], c.now) IN
          /\ call' = [call EXCEPT ![w][r].left = @ \ {x}]
          /\ \/ c.old[n] # NoDep /\ c.old[n] = e /\ deps' = deps
             \/ deps' = [deps EXCEPT ![r][n] = e]
    BY DEF PutDependency, Same
  <1> DEFINE m == NameOf[x]
             e == NextDep(w, c.results[x], c.old[m], c.now)
  <1>2. x \in DOMAIN c.results /\ m \in Names /\ m \in NamesOf(c.results) /\ c.results[x] \in Outcomes
    BY <1>0, <1>1, RefsAssumption DEF InFlightOK, CallType, Results, NamesOf
  <1>3. /\ d.results = c.results /\ d.left = c.left \ {x} /\ d.old = c.old /\ d.gone = c.gone
    BY <1>0, <1>1 DEF CallType
  <1>4. e \in Dependency /\ e # NoDep /\ e.owner = w /\ Says(e, c.results[x])
    <2>1. c.old[m] \in Dependency \cup {NoDep} /\ c.now \in Times
      BY <1>0, <1>2 DEF CallType
    <2>2. e \in Dependency
      BY <1>2, <2>1, NextDepType
    <2> QED BY <2>2, SaysNext, NilAssumption
  <1>5. ~ForeignOwner(w, e.owner)
    BY <1>4 DEF ForeignOwner
  <1>6. (c.old[m] = e /\ deps' = deps) \/ deps' = [deps EXCEPT ![r][m] = e]
    BY <1>1
  <1> HIDE DEF e
  (* The names that are not this reference's. *)
  <1>7. ASSUME NEW n \in Names, n # m
        PROVE  /\ deps'[r][n] = deps[r][n] /\ (n \in Owned(w, r)' <=> n \in Owned(w, r))
               /\ Old(w, r)'[n] = Old(w, r)[n]
               /\ Pending(d, n) <=> Pending(c, n)
    <2>1. deps'[r][n] = deps[r][n]
      BY <1>0, <1>6, <1>7
    <2>2. n \in Owned(w, r)' <=> n \in Owned(w, r)
      BY <2>1, OwnedOld DEF Owned, Stored
    <2>3. Old(w, r)'[n] = Old(w, r)[n]
      BY <2>1, <2>2 DEF Old
    <2>4. Pending(d, n) <=> Pending(c, n)
      BY <1>3, <1>7 DEF Pending
    <2> QED BY <2>1, <2>2, <2>3, <2>4
  (* Its own name. *)
  <1>8. ~Pending(d, m)
    BY <1>2, <1>3 DEF Pending
  <1>9. m \in Owned(w, r)' /\ \E y \in DOMAIN c.results : NameOf[y] = m /\ Says(deps'[r][m], c.results[y])
    <2>1. CASE deps'[r][m] = e
      BY <1>2, <1>4, <1>5, <2>1 DEF Owned, Stored
    <2>2. CASE c.old[m] = e /\ deps' = deps
      <3>1. CASE Pending(c, m)
        <4>1. Old(w, r)[m] = e
          BY <1>2, <2>2, <3>1 DEF Progress
        <4>2. deps[r][m] = e
          BY <1>2, <1>4, <4>1 DEF Old
        <4> QED BY <2>1, <2>2, <4>2
      <3>2. CASE ~Pending(c, m)
        <4>1. m \in Owned(w, r) /\ \E y \in DOMAIN c.results : NameOf[y] = m /\ Says(deps[r][m], c.results[y])
          BY <1>2, <3>2 DEF Progress
        <4>2. Owned(w, r)' = Owned(w, r)
          BY <2>2 DEF Owned, Stored
        <4> QED BY <2>2, <4>1, <4>2
      <3> QED BY <3>1, <3>2
    <2>3. deps' = [deps EXCEPT ![r][m] = e] => deps'[r][m] = e
      BY <1>0, <1>2
    <2> QED BY <1>6, <2>1, <2>2, <2>3
  <1>10. \A n \in NamesOf(c.results) : n \in Names
    BY <1>0, RefsAssumption DEF NamesOf, CallType, Results
  <1>11. ASSUME NEW n \in NamesOf(c.results)
         PROVE  IF Pending(d, n) THEN Old(w, r)'[n] = d.old[n]
                ELSE n \in Owned(w, r)' /\ \E y \in DOMAIN d.results : NameOf[y] = n /\ Says(deps'[r][n], d.results[y])
    <2>1. CASE n = m
      BY <1>3, <1>8, <1>9, <2>1
    <2>2. CASE n # m
      BY <1>3, <1>7, <1>10, <2>2 DEF Progress
    <2> QED BY <2>1, <2>2
  <1>12. Owned(w, r)' \ NamesOf(c.results) \subseteq c.gone
    <2>1. \A n \in Owned(w, r)' : n \in Names
      BY DEF Owned, Stored
    <2> QED BY <1>2, <1>7, <2>1 DEF Progress
  <1>13. NamesOf(d.results) = NamesOf(c.results)
    BY <1>3
  <1> QED BY <1>3, <1>11, <1>12, <1>13 DEF Progress

LEMMA DeleteProgress ==
  ASSUME TypeOK, InFlightOK, NEW w \in Releases, NEW r \in Repos, DeleteDependency(w, r), Progress(w, r)
  PROVE  Progress(w, r)'
  <1> DEFINE c == call[w][r]
             d == call'[w][r]
  <1>0. call \in [Releases -> [Repos -> CallType]] /\ c \in CallType
        /\ deps \in [Repos -> [Names -> Dependency \cup {NoDep}]]
    BY DEF TypeOK
  <1>1. PICK m \in c.gone :
          /\ call' = [call EXCEPT ![w][r].gone = @ \ {m}]
          /\ deps' = [deps EXCEPT ![r][m] = NoDep]
    BY DEF DeleteDependency
  <1>2. /\ d.results = c.results /\ d.left = c.left /\ d.old = c.old /\ d.gone = c.gone \ {m}
    BY <1>0, <1>1 DEF CallType
  <1>3. m \notin NamesOf(c.results) /\ \A n \in NamesOf(c.results) : n \in Names
    BY <1>0, RefsAssumption DEF Progress, NamesOf, CallType, Results
  <1>4. ASSUME NEW n \in Names, n # m
        PROVE  /\ deps'[r][n] = deps[r][n] /\ (n \in Owned(w, r)' <=> n \in Owned(w, r))
               /\ Old(w, r)'[n] = Old(w, r)[n]
    <2>1. deps'[r][n] = deps[r][n]
      BY <1>0, <1>1, <1>4
    <2>2. n \in Owned(w, r)' <=> n \in Owned(w, r)
      BY <2>1, OwnedOld DEF Owned, Stored
    <2> QED BY <2>1, <2>2 DEF Old
  <1>5. m \notin Owned(w, r)' /\ \A n \in Owned(w, r)' : n \in Names
    BY <1>0, <1>1 DEF Owned, Stored
  <1>6. \A n : Pending(d, n) <=> Pending(c, n)
    BY <1>2 DEF Pending
  <1>7. ASSUME NEW n \in NamesOf(c.results)
        PROVE  IF Pending(d, n) THEN Old(w, r)'[n] = d.old[n]
               ELSE n \in Owned(w, r)' /\ \E y \in DOMAIN d.results : NameOf[y] = n /\ Says(deps'[r][n], d.results[y])
    BY <1>2, <1>3, <1>4, <1>6 DEF Progress
  <1>8. Owned(w, r)' \ NamesOf(c.results) \subseteq c.gone \ {m}
    BY <1>4, <1>5 DEF Progress
  <1>9. NamesOf(d.results) = NamesOf(c.results)
    BY <1>2
  <1>10. (c.gone \ {m}) \cap NamesOf(c.results) = {}
    BY DEF Progress
  <1> QED BY <1>2, <1>7, <1>8, <1>9, <1>10 DEF Progress

LEMMA InTouchStep ==
  ASSUME OneScan', TypeOK, InFlightOK, HandleInv, Dated, AllInTouch, [Next]_vars,
         NEW w \in Releases, NEW r \in Repos, call'[w][r].pc # "idle"
  PROVE  InTouch(w, r)'
  <1> DEFINE c == call[w][r]
  <1>1. CASE c.pc = "idle"
    <2>1. /\ UNCHANGED store /\ ~Foreign(w, r) /\ call'[w][r].scan = Current(r)
          /\ call'[w][r].pc \in {"list", "put"}
      BY <1>1, Begins
    <2>2. Current(r)' = Current(r) /\ (Foreign(w, r)' <=> Foreign(w, r))
      BY <2>1 DEF Current, Foreign, store
    <2> QED BY <2>1, <2>2 DEF InTouch
  <1>2. CASE c.pc # "idle"
    <2>1. InTouch(w, r) /\ r \in run[w].done
      BY <1>2 DEF AllInTouch, Dated, UnderWay
    <2>2. /\ call'[w][r].scan = c.scan
          /\ \/ call'[w][r] = c
             \/ ListDependencies(w, r) \/ PutDependency(w, r) \/ DeleteDependency(w, r)
      BY <1>2, <2>1, GoesOn
    <2>3. ASSUME scans'[r] = scans[r]
          PROVE  call'[w][r].scan = Current(r)' /\ ~Foreign(w, r)'
      BY <2>1, <2>2, <2>3 DEF InTouch, Current, Foreign
    <2>4. CASE ListDependencies(w, r)
      BY <2>3, <2>4, ListProgress DEF InTouch, ListDependencies, store
    <2>5. CASE PutDependency(w, r)
      <3>1. c.pc = "write" /\ scans' = scans
        BY <2>5 DEF PutDependency
      <3> QED BY <2>1, <2>3, <2>5, <3>1, PutProgress DEF InTouch
    <2>6. CASE DeleteDependency(w, r)
      <3>1. c.pc = "write" /\ scans' = scans
        BY <2>6 DEF DeleteDependency
      <3> QED BY <2>1, <2>3, <2>6, <3>1, DeleteProgress DEF InTouch
    (* A step for another repository, or one that leaves the call where it was. *)
    <2>7. CASE call'[w][r] = c
      <3>1. \/ \E q \in Repos : q # r /\ RepoStep(w, q)
            \/ RepoStep(w, r)
            \/ UNCHANGED vars
        BY <1>2, OnlyActor
      <3>2. ASSUME scans'[r] = scans[r], deps'[r] = deps[r] PROVE InTouch(w, r)'
        <4>1. Old(w, r)' = Old(w, r) /\ Owned(w, r)' = Owned(w, r)
          BY <3>2 DEF Old, Owned, Stored
        <4>2. Progress(w, r) => Progress(w, r)'
          BY <2>7, <3>2, <4>1 DEF Progress
        <4> QED BY <2>1, <2>3, <2>7, <3>2, <4>2 DEF InTouch
      <3>3. CASE \E q \in Repos : q # r /\ RepoStep(w, q)
        BY <3>2, <3>3, Elsewhere
      <3>4. CASE RepoStep(w, r)
        <4>1. call \in [Releases -> [Repos -> CallType]]
          BY DEF TypeOK
        <4>2. ~PutRepositoryScan(w, r) /\ ~RepoFails(w, r)
          BY <1>2, <2>7, <4>1 DEF PutRepositoryScan, RepoFails, NoCall
        <4>3. ~RepoRefused(w, r) /\ ~RepoFailed(w, r) /\ ~RepoScanned(w, r)
          BY <2>1 DEF RepoRefused, RepoFailed, RepoScanned, Calls
        <4> QED BY <2>4, <2>5, <2>6, <3>4, <4>2, <4>3 DEF RepoStep
      <3>5. CASE UNCHANGED vars
        BY <3>2, <3>5 DEF vars
      <3> QED BY <3>1, <3>3, <3>4, <3>5
    <2> QED BY <2>2, <2>4, <2>5, <2>6, <2>7
  <1> QED BY <1>1, <1>2

LEMMA AlwaysInTouch == Spec /\ []OneScan => []AllInTouch
  <1>1. Init => AllInTouch
    BY DEF Init, AllInTouch, NoCall
  <1>2. OneScan' /\ TypeOK /\ InFlightOK /\ HandleInv /\ Dated /\ AllInTouch /\ [Next]_vars => AllInTouch'
    BY InTouchStep DEF AllInTouch
  <1> QED BY <1>1, <1>2, TypeCorrect, AlwaysHandle, AlwaysDated, PTL DEF Spec

(* Once a call that found no error may put, the Dependencies are what it found. *)
LEMMA ReadyIsExact ==
  ASSUME TypeOK, InFlightOK, Dated, AllInTouch, NEW w \in Releases, NEW r \in Repos,
         Ready(call[w][r]), call[w][r].error = "none"
  PROVE  /\ Owned(w, r) = NamesOf(call[w][r].results)
         /\ \A n \in Owned(w, r) : \E x \in DOMAIN call[w][r].results :
              NameOf[x] = n /\ Says(deps[r][n], call[w][r].results[x])
  <1> DEFINE c == call[w][r]
  <1>1. c.pc = "write" /\ c.left = {} /\ c.gone = {}
    BY DEF Ready, Dated, UnderWay
  <1>2. Progress(w, r)
    BY <1>1 DEF AllInTouch, InTouch
  <1>3. \A n \in NamesOf(c.results) : ~Pending(c, n)
    BY <1>1 DEF Pending, NamesOf
  <1>4. \A n \in NamesOf(c.results) :
          n \in Owned(w, r) /\ \E x \in DOMAIN c.results : NameOf[x] = n /\ Says(deps[r][n], c.results[x])
    BY <1>2, <1>3 DEF Progress
  <1>5. Owned(w, r) \subseteq NamesOf(c.results)
    BY <1>1, <1>2 DEF Progress
  <1> QED BY <1>4, <1>5

(* For any references and names, one release at a time: a scan that reports     *)
(* success has stored exactly what it found (writer.go, Repo), whatever earlier *)
(* scans left half done and whichever records it skipped as unchanged.          *)
THEOREM Exact == Spec /\ []OneScan => RecordedExactly
  <1>1. TypeOK /\ InFlightOK /\ Dated /\ AllInTouch /\ [Next]_vars =>
          [\A w \in Releases, r \in Repos :
             PutRepositoryScan(w, r) /\ call[w][r].error = "none" =>
               /\ Owned(w, r) = NamesOf(call[w][r].results)
               /\ \A n \in Owned(w, r) : \E x \in DOMAIN call[w][r].results :
                    NameOf[x] = n /\ Says(deps[r][n], call[w][r].results[x])]_vars
    BY ReadyIsExact DEF PutRepositoryScan
  <1> QED BY <1>1, TypeCorrect, AlwaysDated, AlwaysInTouch, PTL DEF Spec, RecordedExactly

----------------------------------------------------------------------------
(* One release at a time: what becomes of a report.                        *)

(* The process that works on a repository is the only one. *)
LEMMA OneWriter ==
  ASSUME InFlightOK, HandleInv, NEW v \in Releases, NEW w \in Releases, NEW r \in Repos,
         call[w][r].pc # "idle"
  PROVE  /\ \A q \in Repos : call[v][q].pc # "idle" => v = w
         /\ run[v].pc # "delete"
  BY DEF InFlightOK, HandleInv, OneScan

(* writer.go, Repo: recording a failure touches no Dependency and keeps the  *)
(* counts and the last success, for any repositories and any cut-short scans. *)
THEOREM FailureIsHarmless == Spec /\ []OneScan => FailureKeepsReports
  <1>1. ASSUME TypeOK, InFlightOK, HandleInv, Dated, AllInTouch, [Next]_vars,
               NEW w \in Releases, NEW r \in Repos, call[w][r].pc # "idle", call[w][r].error # "none"
        PROVE  /\ deps'[r] = deps[r]
               /\ scans'[r] # scans[r] /\ scans[r] # NoScan =>
                    /\ scans'[r].phase = "Failed"
                    /\ scans'[r].counts = scans[r].counts
                    /\ scans'[r].lastSuccess = scans[r].lastSuccess
    <2>1. call[w][r].pc = "put" /\ call[w][r].scan = Current(r)
      BY <1>1 DEF Dated, UnderWay, AllInTouch, InTouch
    <2>2. deps'[r] = deps[r]
      <3>1. ASSUME NEW v \in Releases, PutDependency(v, r) \/ DeleteDependency(v, r) PROVE FALSE
        <4>1. call[v][r].pc = "write"
          BY <3>1 DEF PutDependency, DeleteDependency
        <4> QED BY <1>1, <2>1, <4>1, OneWriter
      <3>2. ASSUME NEW v \in Releases, PruneDependency(v) PROVE FALSE
        BY <1>1, <3>2, OneWriter DEF PruneDependency
      <3> QED BY <1>1, <3>1, <3>2, DepsMove
    <2>3. ASSUME NEW v \in Releases, PutRepositoryScan(v, r), scans[r] # NoScan
          PROVE  /\ scans'[r].phase = "Failed"
                 /\ scans'[r].counts = scans[r].counts
                 /\ scans'[r].lastSuccess = scans[r].lastSuccess
      <3>1. Ready(call[v][r]) /\ scans'[r] = ScanAfter(v, call[v][r])
        BY <1>1, <2>3 DEF PutRepositoryScan, TypeOK
      <3>2. v = w
        BY <1>1, <3>1, OneWriter DEF Ready
      <3>3. call[w][r].scan = scans[r]
        BY <2>1, <2>3 DEF Current
      <3> QED BY <1>1, <3>1, <3>2, <3>3 DEF ScanAfter
    <2>4. ASSUME NEW v \in Releases, PruneRepositoryScan(v) PROVE FALSE
      BY <1>1, <2>4, OneWriter DEF PruneRepositoryScan
    <2> QED BY <1>1, <2>2, <2>3, <2>4, ScansMove
  <1>2. TypeOK /\ InFlightOK /\ HandleInv /\ Dated /\ AllInTouch /\ [Next]_vars =>
          [\A w \in Releases, r \in Repos :
             call[w][r].pc # "idle" /\ call[w][r].error # "none" =>
               /\ deps'[r] = deps[r]
               /\ scans'[r] # scans[r] /\ scans[r] # NoScan =>
                    /\ scans'[r].phase = "Failed"
                    /\ scans'[r].counts = scans[r].counts
                    /\ scans'[r].lastSuccess = scans[r].lastSuccess]_vars
    BY <1>1
  <1> QED BY <1>2, TypeCorrect, AlwaysHandle, AlwaysDated, AlwaysInTouch, PTL DEF Spec, FailureKeepsReports

(* While Prune is at work: its victims are the release's own, and of what left *)
(* the config, everything that is neither gone nor another release's is one.   *)
Pruning(w) ==
  /\ \A r \in run[w].victims : ~Foreign(w, r)
  /\ run[w].pc = "delete" => ~Foreign(w, run[w].victim)
  /\ \A r \in Repos \ run[w].conf :
       \/ r \in run[w].victims \/ scans[r] = NoScan \/ Foreign(w, r)
       \/ run[w].pc = "delete" /\ run[w].victim = r

PruneSound == \A w \in Releases : run[w].pc \in {"prune", "delete"} => Pruning(w)

LEMMA PruneMoves ==
  ASSUME OneScan', TypeOK, InFlightOK, HandleInv, [Next]_vars, NEW w \in Releases,
         run'[w].pc \in {"prune", "delete"}
  PROVE  \/ StartScan(w) \/ PruneVictim(w) \/ PruneDependency(w) \/ PruneRepositoryScan(w)
         \/ UNCHANGED vars
  <1>0. run \in [Releases -> RunType]
    BY DEF TypeOK
  <1>1. \A v \in Releases : run[v].pc # "idle" /\ run[w].pc # "idle" => v = w
    BY DEF HandleInv, OneScan
  <1>2. ASSUME NEW v \in Releases, \E d : run' = [run EXCEPT ![v] = d], v # w
        PROVE  run[w].pc \in {"prune", "delete"} /\ run[v].pc = "idle"
    <2>1. run'[w] = run[w]
      BY <1>0, <1>2
    <2> QED BY <1>1, <1>2, <2>1
  <1>3. ASSUME NEW v \in Releases, NEW q \in Repos, RepoStep(v, q) PROVE FALSE
    <2>1. run[v].pc = "scan"
      BY <1>3 DEF RepoStep, RepoRefused, RepoFailed, RepoScanned, Calls, ListDependencies, PutDependency,
                  DeleteDependency, PutRepositoryScan, Ready, RepoFails, InFlightOK
    <2>2. run' = run \/ run' = [run EXCEPT ![v].done = @ \cup {q}]
      BY <1>3 DEF RepoStep, RepoRefused, RepoFailed, RepoScanned, Calls, ListDependencies,
            PutDependency, DeleteDependency, PutRepositoryScan, RepoFails
    <2>3. run'[w].pc = run[w].pc
      BY <1>0, <2>2 DEF RunType
    <2> QED BY <1>1, <2>1, <2>3
  <1>4. ASSUME NEW v \in Releases, v # w, StartScan(v) \/ PruneStep(v) \/ EndScan(v) \/ Crash(v)
        PROVE  FALSE
    <2>1. \E d : run' = [run EXCEPT ![v] = d]
      BY <1>4 DEF StartScan, PruneStep, EndScan, Crash, PruneVictim, PruneDependency,
            PruneRepositoryScan, PruneDone, PruneFails
    <2>2. StartScan(v)
      BY <1>2, <1>4, <2>1 DEF PruneStep, EndScan, Crash, PruneVictim, PruneDependency,
            PruneRepositoryScan, PruneDone, PruneFails
    <2>3. run'[v].pc # "idle" /\ run'[w].pc # "idle"
      BY <2>2, StartsInPrune
    <2> QED BY <1>4, <2>3 DEF OneScan
  <1>5. ~PruneFails(w) /\ ~EndScan(w) /\ ~Crash(w)
    BY <1>0 DEF PruneFails, EndScan, Crash, NoRun
  <1>6. ~PruneDone(w)
    BY <1>0 DEF PruneDone, RunType
  <1> QED BY <1>3, <1>4, <1>5, <1>6 DEF Next, PruneStep

LEMMA PruneSoundStep ==
  ASSUME OneScan', TypeOK, InFlightOK, HandleInv, PruneSound, [Next]_vars
  PROVE  PruneSound'
  <1>0. run \in [Releases -> RunType]
    BY DEF TypeOK
  <1> SUFFICES ASSUME NEW w \in Releases, run'[w].pc \in {"prune", "delete"}
               PROVE  Pruning(w)'
    BY DEF PruneSound
  (* The reports are as they were, and so is whose they are. *)
  <1>a. ASSUME scans' = scans
        PROVE  \A r : Foreign(w, r)' <=> Foreign(w, r)
    BY <1>a DEF Foreign
  <1>b. run[w].pc \in {"prune", "delete"} => Pruning(w)
    BY DEF PruneSound
  <1>1. CASE StartScan(w)
    <2>1. PICK conf \in SUBSET Repos \ {{}} :
            run' = [run EXCEPT ![w] =
                      [NoRun EXCEPT !.pc = "prune", !.conf = conf,
                         !.victims = {r \in Repos \ conf : scans[r] # NoScan /\ ~Foreign(w, r)}]]
      BY <1>1 DEF StartScan
    <2>2. /\ run'[w].pc = "prune" /\ run'[w].conf = conf /\ scans' = scans
          /\ run'[w].victims = {r \in Repos \ conf : scans[r] # NoScan /\ ~Foreign(w, r)}
      BY <1>0, <1>1, <2>1 DEF NoRun, StartScan, store
    <2> QED BY <1>a, <2>2 DEF Pruning
  <1>2. CASE PruneVictim(w)
    <2>1. PICK r \in run[w].victims :
            run' = [run EXCEPT ![w].pc = "delete", ![w].victim = r, ![w].doomed = Stored(r),
                               ![w].victims = @ \ {r}]
      BY <1>2 DEF PruneVictim
    <2>2. /\ run[w].pc = "prune" /\ run'[w].pc = "delete" /\ run'[w].victim = r /\ run'[w].conf = run[w].conf
          /\ run'[w].victims = run[w].victims \ {r} /\ scans' = scans
      BY <1>0, <1>2, <2>1 DEF PruneVictim, RunType, store
    <2> QED BY <1>a, <1>b, <2>2 DEF Pruning
  <1>3. CASE PruneDependency(w)
    <2>1. /\ run[w].pc = "delete" /\ run'[w].pc = "delete" /\ run'[w].victim = run[w].victim
          /\ run'[w].conf = run[w].conf /\ run'[w].victims = run[w].victims /\ scans' = scans
      BY <1>0, <1>3 DEF PruneDependency, RunType
    <2> QED BY <1>a, <1>b, <2>1 DEF Pruning
  <1>4. CASE PruneRepositoryScan(w)
    <2>1. /\ run[w].pc = "delete" /\ run'[w].pc = "prune"
          /\ run'[w].conf = run[w].conf /\ run'[w].victims = run[w].victims
          /\ scans' = [scans EXCEPT ![run[w].victim] = NoScan]
      BY <1>0, <1>4 DEF PruneRepositoryScan, RunType
    <2>2. \A r \in Repos : scans'[r] = IF r = run[w].victim THEN NoScan ELSE scans[r]
      BY <2>1 DEF TypeOK
    <2>3. run[w].victims \subseteq Repos
      BY <1>0 DEF RunType
    <2>4. \A r \in Repos : r # run[w].victim => (Foreign(w, r)' <=> Foreign(w, r))
      BY <2>2 DEF Foreign
    <2>5. \A r \in Repos : r = run[w].victim => ~Foreign(w, r)'
      BY <2>2 DEF Foreign
    <2> QED BY <1>b, <2>1, <2>2, <2>3, <2>4, <2>5 DEF Pruning
  <1>5. CASE UNCHANGED vars
    BY <1>a, <1>b, <1>5 DEF Pruning, vars
  <1> QED BY <1>1, <1>2, <1>3, <1>4, <1>5, PruneMoves

LEMMA AlwaysPruneSound == Spec /\ []OneScan => []PruneSound
  <1>1. Init => PruneSound
    BY DEF Init, PruneSound, NoRun
  <1>2. OneScan' /\ TypeOK /\ InFlightOK /\ HandleInv /\ PruneSound /\ [Next]_vars => PruneSound'
    BY PruneSoundStep
  <1> QED BY <1>1, <1>2, TypeCorrect, AlwaysHandle, PTL DEF Spec

(* writer.go, Prune: when it ends without an error, no report of its release is *)
(* left of a repository that is no longer configured.                           *)
THEOREM PruneCompletes == Spec /\ []OneScan => PrunedMeansGone
  <1>1. PruneSound /\ [Next]_vars =>
          [\A w \in Releases :
             PruneDone(w) => \A r \in Repos \ run[w].conf : scans[r] = NoScan \/ Foreign(w, r)]_vars
    BY DEF PruneSound, Pruning, PruneDone
  <1> QED BY <1>1, AlwaysPruneSound, PTL DEF Spec, PrunedMeansGone
----------------------------------------------------------------------------
(* Names that tell references apart: DependencyName ends in a hash of all that *)
(* tells one reference from another.                                           *)

DistinctNames == \A x, y \in Refs : NameOf[x] = NameOf[y] => x = y

LEMMA NextDepCarries ==
  ASSUME NEW w \in Releases, NEW o \in Outcomes, NEW d \in Dependency, DatesSet(d), NEW now
  PROVE  DatesStable(d, NextDep(w, o, d, now)) /\ DriftReported(d, NextDep(w, o, d, now))
  <1>1. d # NoDep
    BY NilAssumption
  <1>2. DatesStable(d, NextDep(w, o, d, now))
    BY <1>1 DEF DatesStable, DatesSet, NextDep, OutdatedSince, LatestSeenAt
  <1>3. DriftReported(d, NextDep(w, o, d, now))
    <2>1. /\ NextDep(w, o, d, now).digest = o.digest
          /\ NextDep(w, o, d, now).moved = DigestMoved(o, d)
      BY DEF NextDep
    <2>2. d.digest # None /\ o.digest \notin {None, d.digest} => DigestMoved(o, d)
      BY <1>1 DEF DigestMoved
    <2> QED BY <2>1, <2>2 DEF DriftReported
  <1> QED BY <1>2, <1>3

(* writer.go, next: for any history of scans that failed or died, a record of a *)
(* reference keeps its first times, and a digest that moved is reported.        *)
THEOREM PastIsCarried == ASSUME DistinctNames PROVE Spec /\ []OneScan => CarriedOver
  <1>1. ASSUME TypeOK, InFlightOK, Dated, AllInTouch, [Next]_vars,
               NEW r \in Repos, NEW n \in Names, Carries(deps[r][n], deps'[r][n])
        PROVE  DatesStable(deps[r][n], deps'[r][n]) /\ DriftReported(deps[r][n], deps'[r][n])
    <2>0. deps \in [Repos -> [Names -> Dependency \cup {NoDep}]]
      BY <1>1 DEF TypeOK
    <2>1. CASE deps'[r][n] = deps[r][n]
      BY <2>1 DEF DatesStable, DriftReported
    <2>2. ASSUME NEW w \in Releases, PutDependency(w, r), deps'[r][n] # deps[r][n]
          PROVE  DatesStable(deps[r][n], deps'[r][n]) /\ DriftReported(deps[r][n], deps'[r][n])
      <3> DEFINE c == call[w][r]
                 d == deps[r][n]
      <3>1. PICK x \in c.left :
              deps' = deps \/ deps' = [deps EXCEPT ![r][NameOf[x]] =
                                         NextDep(w, c.results[x], c.old[NameOf[x]], c.now)]
        BY <2>2 DEF PutDependency
      <3>2. NameOf[x] = n /\ deps'[r][n] = NextDep(w, c.results[x], c.old[n], c.now)
        BY <2>0, <2>2, <3>1
      <3>3. c.pc = "write" /\ c \in CallType /\ Progress(w, r) /\ x \in DOMAIN c.results
        BY <1>1, <2>2 DEF PutDependency, TypeOK, AllInTouch, InTouch, InFlightOK
      <3>4. DOMAIN c.results \subseteq Refs /\ c.results[x] \in Outcomes
        BY <3>3 DEF CallType, Results
      <3>5. Pending(c, n) /\ n \in NamesOf(c.results)
        BY <3>2, <3>3, <3>4 DEF Pending, NamesOf, DistinctNames
      (* The record is its own, so it is the one the call listed. *)
      <3>6. Old(w, r)[n] = d /\ d \in Dependency
        <4>1. d # NoDep /\ ~ForeignOwner(w, d.owner)
          BY <1>1, <3>2, SaysNext DEF Carries
        <4> QED BY <2>0, <4>1, OwnedOld
      <3>7. c.old[n] = d
        BY <3>3, <3>5, <3>6 DEF Progress
      <3>8. DatesSet(d)
        BY <1>1, <3>6, NilAssumption DEF Dated
      <3> QED BY <3>2, <3>4, <3>6, <3>7, <3>8, NextDepCarries
    <2>3. ASSUME NEW w \in Releases, DeleteDependency(w, r) \/ (PruneDependency(w) /\ run[w].victim = r)
          PROVE  deps'[r][n] = deps[r][n]
      <3>1. \E m : deps' = [deps EXCEPT ![r][m] = NoDep]
        BY <2>3 DEF DeleteDependency, PruneDependency
      <3> QED BY <1>1, <2>0, <3>1 DEF Carries
    <2> QED BY <1>1, <2>1, <2>2, <2>3, DepsMove
  <1>2. TypeOK /\ InFlightOK /\ Dated /\ AllInTouch /\ [Next]_vars =>
          [\A r \in Repos, n \in Names :
             Carries(deps[r][n], deps'[r][n]) =>
               DatesStable(deps[r][n], deps'[r][n]) /\ DriftReported(deps[r][n], deps'[r][n])]_vars
    BY <1>1
  <1> QED BY <1>2, TypeCorrect, AlwaysDated, AlwaysInTouch, PTL DEF Spec, CarriedOver

(* As many names as references. *)
LEMMA NamesCount ==
  ASSUME DistinctNames, NEW S \in SUBSET Refs
  PROVE  Cardinality({NameOf[x] : x \in S}) = Cardinality(S)
  <1> DEFINE T == {NameOf[x] : x \in S}
             f == [x \in S |-> NameOf[x]]
  <1>1. f \in Bijection(S, T)
    <2>1. f \in [S -> T]
      OBVIOUS
    <2>2. \A x, y \in S : f[x] = f[y] => x = y
      BY DEF DistinctNames
    <2>3. \A t \in T : \E x \in S : f[x] = t
      OBVIOUS
    <2> HIDE DEF f, T
    <2> QED BY <2>1, <2>2, <2>3 DEF Bijection, Injection, Surjection, IsInjective
  <1>2. ExistsBijection(S, T)
    BY <1>1 DEF ExistsBijection
  <1>3. IsFiniteSet(S)
    BY RefsAssumption, FS_Subset
  <1> HIDE DEF T
  <1>4. Cardinality(T) = Cardinality(S)
    BY <1>2, <1>3, FS_Bijection
  <1> QED BY <1>4 DEF T

(* The counts of the Dependencies stored for r. *)
StoredCounts(r) ==
  [checked  |-> Cardinality(Stored(r)),
   outdated |-> Cardinality({n \in Stored(r) : deps[r][n].behind}),
   failed   |-> Cardinality({n \in Stored(r) : deps[r][n].failed})]

(* A repository that is not torn shows its counts; nobody else's Dependency is in it. *)
Counted(r) ==
  IF scans[r] = NoScan THEN Stored(r) = {}
  ELSE /\ scans[r].counts = StoredCounts(r)
       /\ \A n \in Stored(r) : ~ForeignOwner(scans[r].owner, deps[r][n].owner)

AllCounted == \A r \in Repos : r \notin torn => Counted(r)

LEMMA FoundIsStored ==
  ASSUME DistinctNames, TypeOK, InFlightOK, Dated, AllInTouch, NEW w \in Releases, NEW r \in Repos,
         Ready(call[w][r]), call[w][r].error = "none", Owned(w, r) = Stored(r)
  PROVE  CountsOf(call[w][r].results) = StoredCounts(r)
  <1> DEFINE res == call[w][r].results
  <1>1. Stored(r) = {NameOf[x] : x \in DOMAIN res}
    BY ReadyIsExact DEF NamesOf
  <1>2. DOMAIN res \subseteq Refs
    BY DEF TypeOK, CallType, Results
  <1>3. ASSUME NEW x \in DOMAIN res
        PROVE  deps[r][NameOf[x]].behind = res[x].behind /\ deps[r][NameOf[x]].failed = res[x].failed
    <2>1. NameOf[x] \in Owned(w, r)
      BY <1>1
    <2>2. PICK y \in DOMAIN res : NameOf[y] = NameOf[x] /\ Says(deps[r][NameOf[x]], res[y])
      BY <2>1, ReadyIsExact
    <2>3. y = x
      BY <1>2, <2>2 DEF DistinctNames
    <2>4. "behind" \in Kept \ {"moved"} /\ "failed" \in Kept \ {"moved"}
      BY DEF Kept
    <2>5. deps[r][NameOf[x]]["behind"] = res[x]["behind"] /\ deps[r][NameOf[x]]["failed"] = res[x]["failed"]
      BY <2>2, <2>3, <2>4 DEF Says
    <2> QED BY <2>5
  <1>4. {n \in Stored(r) : deps[r][n].behind} = {NameOf[x] : x \in {y \in DOMAIN res : res[y].behind}}
    BY <1>1, <1>3
  <1>5. {n \in Stored(r) : deps[r][n].failed} = {NameOf[x] : x \in {y \in DOMAIN res : res[y].failed}}
    BY <1>1, <1>3
  <1>6. Cardinality(Stored(r)) = Cardinality(DOMAIN res)
    BY <1>1, <1>2, NamesCount
  <1>7. Cardinality({n \in Stored(r) : deps[r][n].behind}) = Cardinality({y \in DOMAIN res : res[y].behind})
    <2>1. {y \in DOMAIN res : res[y].behind} \in SUBSET Refs
      BY <1>2
    <2> QED BY <1>4, <2>1, NamesCount
  <1>8. Cardinality({n \in Stored(r) : deps[r][n].failed}) = Cardinality({y \in DOMAIN res : res[y].failed})
    <2>1. {y \in DOMAIN res : res[y].failed} \in SUBSET Refs
      BY <1>2
    <2> QED BY <1>5, <2>1, NamesCount
  <1> QED BY <1>6, <1>7, <1>8 DEF CountsOf, StoredCounts

LEMMA NothingStored ==
  ASSUME NEW r, Stored(r) = {}
  PROVE  StoredCounts(r) = NoCounts
  <1>1. {n \in Stored(r) : deps[r][n].behind} = {} /\ {n \in Stored(r) : deps[r][n].failed} = {}
    OBVIOUS
  <1> QED BY <1>1, FS_EmptySet DEF StoredCounts, NoCounts

(* Only a successful RepositoryScan mends a torn repository. *)
LEMMA TornMoves ==
  ASSUME TypeOK, InFlightOK, [Next]_vars, NEW r \in Repos, r \notin torn'
  PROVE  r \notin torn \/ \E w \in Releases : PutRepositoryScan(w, r)
  <1> USE DEF ghosts
  <1>1. ASSUME NEW w \in Releases, NEW q \in Repos, RepoStep(w, q), r \in torn
        PROVE  PutRepositoryScan(w, r)
    <2>1. q = r
      BY <1>1, Elsewhere
    <2> QED BY <1>1, <2>1 DEF RepoStep, RepoRefused, RepoFailed, RepoScanned, ListDependencies, PutDependency,
                              DeleteDependency, RepoFails
  <1>2. ASSUME NEW w \in Releases, StartScan(w) \/ PruneStep(w) \/ EndScan(w) \/ Crash(w)
        PROVE  r \notin torn
    BY <1>2 DEF StartScan, PruneStep, EndScan, Crash, PruneVictim, PruneDependency, PruneRepositoryScan,
                PruneDone, PruneFails
  <1> QED BY <1>1, <1>2 DEF Next, vars

LEMMA PutCounted ==
  ASSUME DistinctNames, TypeOK, InFlightOK, Dated, AllInTouch, AllCounted,
         NEW w \in Releases, NEW r \in Repos, PutRepositoryScan(w, r), r \notin torn'
  PROVE  Counted(r)'
  <1> DEFINE c == call[w][r]
  <1>1. /\ Ready(c) /\ scans'[r] = ScanAfter(w, c) /\ deps' = deps
        /\ torn' = IF c.error = "none" /\ Owned(w, r) = Stored(r) THEN torn \ {r} ELSE torn
    BY DEF PutRepositoryScan, TypeOK
  <1>2. c \in CallType /\ c.scan \in RepositoryScan /\ c.scan = Current(r) /\ ~Foreign(w, r)
    BY <1>1 DEF Ready, TypeOK, InFlightOK, AllInTouch, InTouch
  <1>3. scans'[r] # NoScan /\ scans'[r].owner = w
    BY <1>1, <1>2, ScanAfterType, NilAssumption DEF ScanAfter
  <1>4. Stored(r)' = Stored(r) /\ StoredCounts(r)' = StoredCounts(r)
    BY <1>1 DEF Stored, StoredCounts
  (* Nobody else's Dependency is in a repository that was not torn. *)
  <1>5. r \notin torn => Owned(w, r) = Stored(r)
    BY <1>2 DEF AllCounted, Counted, Owned, Foreign, ForeignOwner
  <1>6. Owned(w, r) = Stored(r)
    BY <1>1, <1>5
  <1>7. \A n \in Stored(r) : ~ForeignOwner(w, deps[r][n].owner)
    BY <1>6 DEF Owned
  <1>8. scans'[r].counts = StoredCounts(r)
    <2>1. CASE c.error = "none"
      BY <1>1, <1>6, <2>1, FoundIsStored DEF ScanAfter
    <2>2. CASE c.error # "none"
      <3>1. r \notin torn /\ scans'[r].counts = Current(r).counts
        BY <1>1, <1>2, <2>2 DEF ScanAfter
      <3>2. CASE scans[r] = NoScan
        BY <3>1, <3>2, NothingStored DEF AllCounted, Counted, Current, FreshScan
      <3>3. CASE scans[r] # NoScan
        BY <3>1, <3>3 DEF AllCounted, Counted, Current
      <3> QED BY <3>2, <3>3
    <2> QED BY <2>1, <2>2
  <1> QED BY <1>1, <1>3, <1>4, <1>7, <1>8 DEF Counted

LEMMA CountedStep ==
  ASSUME DistinctNames, TypeOK, InFlightOK, HandleInv, Dated, AllInTouch, AllCounted, [Next]_vars
  PROVE  AllCounted'
  <1> SUFFICES ASSUME NEW r \in Repos, r \notin torn' PROVE Counted(r)'
    BY DEF AllCounted
  <1>1. CASE \E w \in Releases : PutRepositoryScan(w, r)
    BY <1>1, PutCounted
  <1>2. CASE ~\E w \in Releases : PutRepositoryScan(w, r)
    <2>1. Counted(r)
      BY <1>2, TornMoves DEF AllCounted
    <2>2. deps'[r] = deps[r]
      BY DepsMove
    <2>3. Stored(r)' = Stored(r) /\ StoredCounts(r)' = StoredCounts(r)
      BY <2>2 DEF Stored, StoredCounts
    <2>4. CASE scans'[r] = scans[r]
      BY <2>1, <2>2, <2>3, <2>4 DEF Counted
    <2>5. ASSUME NEW w \in Releases, PruneRepositoryScan(w), run[w].victim = r PROVE Counted(r)'
      <3>1. run[w].pc = "delete" /\ run[w].doomed = {} /\ scans'[r] = NoScan
        BY <2>5 DEF PruneRepositoryScan, TypeOK
      <3>2. Stored(r) = {}
        BY <2>5, <3>1 DEF HandleInv, PruneOK
      <3> QED BY <2>3, <3>1, <3>2 DEF Counted
    <2> QED BY <1>2, <2>4, <2>5, ScansMove
  <1> QED BY <1>1, <1>2

(* With one release at a time and names that tell references apart: what a report says *)
(* of a repository agrees with the Dependencies stored for it and with its past, *)
(* however many scans failed or were cut short.                                  *)
THEOREM ReportsAgree == ASSUME DistinctNames PROVE Spec /\ []OneScan => []StatusAgrees
  <1>1. Init => AllCounted
    BY DEF Init, AllCounted, Counted, Stored
  <1>2. TypeOK /\ InFlightOK /\ HandleInv /\ Dated /\ AllInTouch /\ AllCounted /\ [Next]_vars => AllCounted'
    BY CountedStep
  <1>3. AllCounted /\ HistoryAgrees => StatusAgrees
    BY DEF AllCounted, Counted, StoredCounts, StatusAgrees, CountsAgree
  <1> QED BY <1>1, <1>2, <1>3, TypeCorrect, AlwaysHandle, AlwaysDated, AlwaysInTouch, HistoriesAgree, PTL DEF Spec
=============================================================================
