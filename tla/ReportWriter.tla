----------------------------- MODULE ReportWriter -----------------------------
(***************************************************************************)
(* The scan's recording half: Writer.Repo and Writer.Prune of              *)
(* internal/report/writer.go, one action per Backend call, driven by the   *)
(* scan process of cmd/update-checker/main.go.                             *)
(*                                                                         *)
(* The store holds two kinds of objects.  scans[r] is the RepositoryScan   *)
(* of repository r; deps[r][n] is the Dependency named n whose repository  *)
(* label is r.  A release of the chart runs one scan process at a time: it *)
(* holds the scan lock (ScanLock shows the exception, a scan that is       *)
(* losing its Lease, which this module leaves out).  The process prunes,   *)
(* then records each configured repository once; the calls of different    *)
(* repositories overlap, and so do the scans of different releases.  Every *)
(* Backend call may fail and the process may die between any two of them.  *)
(***************************************************************************)
EXTENDS Integers, Sequences, FiniteSets

CONSTANTS
  Repos,            \* repository names
  Refs,             \* references found in a repository
  Names,            \* Dependency object names
  NameOf,           \* DependencyName: the object name of a reference
  Outcomes,         \* what checking one reference can yield (scan.Result)
  Releases,         \* app.kubernetes.io/instance values of the scanners
  Unlabelled,       \* the instance of a writer started without --instance
  History,          \* Writer.History
  MaxDependencies,  \* most references one repository may store
  MaxClock,         \* bound: Repo calls in a behaviour, over all scans
  None, NoScan, NoDep

(***************************************************************************)
(* A scan.Result, reduced to what the writer reads or compares: the latest *)
(* version (None for ""), UpdateAvailable, CheckError # "", the image      *)
(* digest (None for "") and the DigestChanged the check itself set.        *)
(***************************************************************************)
Kept == {"latest", "behind", "failed", "digest", "moved"}

ASSUME RefsAssumption ==
  /\ NameOf \in [Refs -> Names]
  /\ IsFiniteSet(Refs)
ASSUME OutcomesAssumption ==
  \A o \in Outcomes : DOMAIN o = Kept /\ {o.behind, o.failed, o.moved} \subseteq BOOLEAN
ASSUME BoundsAssumption ==
  History \in Nat /\ MaxDependencies \in Nat /\ MaxClock \in Nat

Labels   == Releases \cup {Unlabelled}
Times    == 0 .. MaxClock                    \* 0 stands for a nil time
Versions == {o.latest : o \in Outcomes} \cup {None}
Digests  == {o.digest : o \in Outcomes} \cup {None}
Phases   == {"Succeeded", "Failed"}
Errors   == {"none", "failed", "too_large"}  \* status.error.kind

Counts == [checked : Nat, outdated : Nat, failed : Nat]
Run    == [time : Times, phase : Phases, counts : Counts, error : Errors]
RepositoryScan ==
  [owner : Labels, phase : Phases, error : Errors, lastScan : Times,
   lastSuccess : Times, counts : Counts, history : Seq(Run)]
Dependency ==
  [owner : Labels, latest : Versions, behind : BOOLEAN, failed : BOOLEAN,
   digest : Digests, moved : BOOLEAN, since : Times, seen : Times]

ASSUME NilAssumption == NoScan \notin RepositoryScan /\ NoDep \notin Dependency

(* The results of one scan of a repository: some references, each checked. *)
Results   == UNION {[S -> Outcomes] : S \in SUBSET Refs}
NoResults == [x \in {} |-> None]

VARIABLES
  scans,     \* [Repos -> RepositoryScan or NoScan]
  deps,      \* [Repos -> [Names -> Dependency or NoDep]]
  run,       \* [Releases -> the scan process of the release]
  call,      \* [Releases -> [Repos -> the Writer.Repo call in flight]]
  clock,     \* the time of the latest Repo call
  torn,      \* repositories whose Dependencies are not those of their last successful RepositoryScan
  headless   \* repositories that got a Dependency while they had no RepositoryScan

vars == <<scans, deps, run, call, clock, torn, headless>>

----------------------------------------------------------------------------
(* Ownership and what the store holds.                                     *)

(* Mutant: no ownership, as before 0.4.2. *)
NobodyForeign(w, label) == FALSE

(* Writer.foreignOwner: an unlabelled object belongs to everyone. *)
ForeignOwner(w, label) == label \notin {w, Unlabelled}

Foreign(w, r) == scans[r] # NoScan /\ ForeignOwner(w, scans[r].owner)

Stored(r) == {n \in Names : deps[r][n] # NoDep}

(* The Dependencies of r that release w looks at: its own. *)
Owned(w, r) == {n \in Stored(r) : ~ForeignOwner(w, deps[r][n].owner)}
Old(w, r) == [n \in Names |-> IF n \in Owned(w, r) THEN deps[r][n] ELSE NoDep]

NamesOf(results) == {NameOf[x] : x \in DOMAIN results}

----------------------------------------------------------------------------
(* The values a call writes.                                               *)

(* Mutant: failed references subtracted twice. *)
CountsOfTwice(results) ==
  LET checked == Cardinality(DOMAIN results)
      failed  == Cardinality({x \in DOMAIN results : results[x].failed})
      current == Cardinality({x \in DOMAIN results : ~results[x].behind})
  IN [checked |-> checked, outdated |-> checked - current - failed, failed |-> failed]

CountsOf(results) ==
  [checked  |-> Cardinality(DOMAIN results),
   outdated |-> Cardinality({x \in DOMAIN results : results[x].behind}),
   failed   |-> Cardinality({x \in DOMAIN results : results[x].failed})]

NoCounts == [checked |-> 0, outdated |-> 0, failed |-> 0]

(* Mutants: drift is only what the check itself saw; outdated_since is never carried over. *)
OnlyPinnedMoved(o, prev) == o.moved
OutdatedSinceNow(o, prev, now) == IF o.behind THEN now ELSE 0

(* next: a reference's new state, carrying over what only history knows.   *)
DigestMoved(o, prev) ==
  \/ o.moved
  \/ /\ prev # NoDep
     /\ prev.digest # None /\ o.digest # None
     /\ prev.digest # o.digest

OutdatedSince(o, prev, now) ==
  IF ~o.behind THEN 0
  ELSE IF prev # NoDep /\ prev.since # 0 THEN prev.since
  ELSE now

LatestSeenAt(o, prev, now) ==
  IF o.latest = None THEN 0
  ELSE IF prev # NoDep /\ prev.latest = o.latest /\ prev.seen # 0 THEN prev.seen
  ELSE now

NextDep(w, o, prev, now) ==
  [owner |-> w, latest |-> o.latest, behind |-> o.behind, failed |-> o.failed,
   digest |-> o.digest, moved |-> DigestMoved(o, prev),
   since |-> OutdatedSince(o, prev, now), seen |-> LatestSeenAt(o, prev, now)]

(* Mutant: only the labels are compared. *)
SameLabels(prev, d) == prev.owner = d.owner /\ prev.behind = d.behind

(* same: a record that would not change is not written again. *)
Same(prev, d) == prev = d

FreshScan ==
  [owner |-> Unlabelled, phase |-> "Failed", error |-> "none", lastScan |-> 0,
   lastSuccess |-> 0, counts |-> NoCounts, history |-> <<>>]

(* Mutant: oldest first. *)
PushLast(entry, history) ==
  SubSeq(history \o <<entry>>, 1, IF Len(history) + 1 <= History THEN Len(history) + 1 ELSE History)

(* Newest first, capped at History runs. *)
Push(entry, history) ==
  SubSeq(<<entry>> \o history, 1,
         IF Len(history) + 1 <= History THEN Len(history) + 1 ELSE History)

ScanAfter(w, c) ==
  LET ok     == c.error = "none"
      phase  == IF ok THEN "Succeeded" ELSE "Failed"
      counts == IF ok THEN CountsOf(c.results) ELSE c.scan.counts
      entry  == [time |-> c.now, phase |-> phase, counts |-> counts, error |-> c.error]
  IN [owner |-> w, phase |-> phase, error |-> c.error, lastScan |-> c.now,
      lastSuccess |-> IF ok THEN c.now ELSE c.scan.lastSuccess,
      counts |-> counts, history |-> Push(entry, c.scan.history)]

----------------------------------------------------------------------------
NoRun  == [pc |-> "idle", conf |-> {}, done |-> {}, victims |-> {}, victim |-> None, doomed |-> {}]
NoCall == [pc |-> "idle", now |-> 0, error |-> "none", scan |-> NoScan, results |-> NoResults,
           old |-> [n \in Names |-> NoDep], left |-> {}, gone |-> {}]

Init ==
  /\ scans = [r \in Repos |-> NoScan]
  /\ deps = [r \in Repos |-> [n \in Names |-> NoDep]]
  /\ run = [w \in Releases |-> NoRun]
  /\ call = [w \in Releases |-> [r \in Repos |-> NoCall]]
  /\ clock = 0
  /\ torn = {}
  /\ headless = {}

store  == <<scans, deps>>
ghosts == <<torn, headless>>

----------------------------------------------------------------------------
(* The scan process and Writer.Prune.                                      *)

(* A process takes the scan lock of its release, loads its config and lists the *)
(* RepositoryScans.  Another release has a Lease of its own.                    *)
StartScan(w) ==
  /\ run[w].pc = "idle"
  /\ \E conf \in SUBSET Repos \ {{}} :
       run' = [run EXCEPT ![w] =
                 [NoRun EXCEPT !.pc = "prune", !.conf = conf,
                    !.victims = {r \in Repos \ conf : scans[r] # NoScan /\ ~Foreign(w, r)}]]
  /\ UNCHANGED <<store, call, clock, ghosts>>

(* The next report to prune: list its Dependencies, whoever wrote them. *)
PruneVictim(w) ==
  /\ run[w].pc = "prune"
  /\ \E r \in run[w].victims :
       run' = [run EXCEPT ![w].pc = "delete", ![w].victim = r, ![w].doomed = Stored(r),
                          ![w].victims = @ \ {r}]
  /\ UNCHANGED <<store, call, clock, ghosts>>

PruneDependency(w) ==
  /\ run[w].pc = "delete"
  /\ \E n \in run[w].doomed :
       /\ deps' = [deps EXCEPT ![run[w].victim][n] = NoDep]
       /\ run' = [run EXCEPT ![w].doomed = @ \ {n}]
  /\ torn' = torn \cup {run[w].victim}
  /\ UNCHANGED <<scans, call, clock, headless>>

(* Mutants: the RepositoryScan goes before its Dependencies; Prune stops at its first victim. *)
PruneRepositoryScanFirst(w) ==
  /\ run[w].pc = "delete"
  /\ scans' = [scans EXCEPT ![run[w].victim] = NoScan]
  /\ run' = [run EXCEPT ![w].pc = "prune", ![w].victim = None, ![w].doomed = {}]
  /\ UNCHANGED <<deps, call, clock, ghosts>>
PruneDoneEarly(w) ==
  /\ run[w].pc = "prune"
  /\ run' = [run EXCEPT ![w].pc = "scan", ![w].victims = {}]
  /\ UNCHANGED <<store, call, clock, ghosts>>

PruneRepositoryScan(w) ==
  /\ run[w].pc = "delete"
  /\ run[w].doomed = {}
  /\ scans' = [scans EXCEPT ![run[w].victim] = NoScan]
  /\ run' = [run EXCEPT ![w].pc = "prune", ![w].victim = None]
  /\ UNCHANGED <<deps, call, clock, ghosts>>

PruneDone(w) ==
  /\ run[w].pc = "prune"
  /\ run[w].victims = {}
  /\ run' = [run EXCEPT ![w].pc = "scan"]
  /\ UNCHANGED <<store, call, clock, ghosts>>

(* A Backend call of Prune fails: the process exits before it scans anything. *)
PruneFails(w) ==
  /\ run[w].pc \in {"prune", "delete"}
  /\ run' = [run EXCEPT ![w] = NoRun]
  /\ UNCHANGED <<store, call, clock, ghosts>>

(* The process exits: every repository recorded, or interrupted between two. *)
EndScan(w) ==
  /\ run[w].pc = "scan"
  /\ \A r \in Repos : call[w][r].pc = "idle"
  /\ run' = [run EXCEPT ![w] = NoRun]
  /\ UNCHANGED <<store, call, clock, ghosts>>

(* SIGKILL, OOM or eviction: whatever was in flight is gone. *)
Crash(w) ==
  /\ run[w].pc # "idle"
  /\ run' = [run EXCEPT ![w] = NoRun]
  /\ call' = [call EXCEPT ![w] = [r \in Repos |-> NoCall]]
  /\ UNCHANGED <<store, clock, ghosts>>

----------------------------------------------------------------------------
(* Writer.Repo.                                                            *)

(* The process calls Repo for r, once per scan; Repo takes the time first. *)
Calls(w, r) ==
  /\ run[w].pc = "scan"
  /\ r \in run[w].conf \ run[w].done
  /\ clock < MaxClock
  /\ clock' = clock + 1
  /\ run' = [run EXCEPT ![w].done = @ \cup {r}]

(* The RepositoryScan Repo starts from. *)
Current(r) == IF scans[r] = NoScan THEN FreshScan ELSE scans[r]

(* repoScan finds another release's report: Repo returns without a write. *)
RepoRefused(w, r) ==
  /\ Calls(w, r)
  /\ Foreign(w, r)
  /\ UNCHANGED <<store, call, ghosts>>

(* Mutant: a failed scan is recorded like one that found nothing. *)
RepoFailedAsEmpty(w, r) ==
  /\ Calls(w, r)
  /\ ~Foreign(w, r)
  /\ call' = [call EXCEPT ![w][r] =
                [NoCall EXCEPT !.pc = "list", !.now = clock', !.error = "failed", !.scan = Current(r)]]
  /\ UNCHANGED <<store, ghosts>>

(* The scan of r failed, or the run timed out before r: no Dependency is touched. *)
RepoFailed(w, r) ==
  /\ Calls(w, r)
  /\ ~Foreign(w, r)
  /\ call' = [call EXCEPT ![w][r] =
                [NoCall EXCEPT !.pc = "put", !.now = clock', !.error = "failed", !.scan = Current(r)]]
  /\ UNCHANGED <<store, ghosts>>

(* The scan of r succeeded with some results; too many of them fail it after all. *)
RepoScanned(w, r) ==
  /\ Calls(w, r)
  /\ ~Foreign(w, r)
  /\ \E results \in Results :
       LET over == Cardinality(DOMAIN results) > MaxDependencies IN
       call' = [call EXCEPT ![w][r] =
                  [NoCall EXCEPT !.now = clock', !.scan = Current(r),
                     !.pc      = IF over THEN "put" ELSE "list",
                     !.error   = IF over THEN "too_large" ELSE "none",
                     !.results = IF over THEN NoResults ELSE results]]
  /\ UNCHANGED <<store, ghosts>>

ListDependencies(w, r) ==
  LET c   == call[w][r]
      old == Old(w, r) IN
  /\ c.pc = "list"
  /\ call' = [call EXCEPT ![w][r] = [@ EXCEPT
                 !.pc = "write", !.old = old, !.left = DOMAIN c.results,
                 !.gone = {n \in Names : old[n] # NoDep} \ NamesOf(c.results)]]
  /\ UNCHANGED <<store, run, clock, ghosts>>

(* One reference: written, unless the listed record already says the same. *)
PutDependency(w, r) ==
  LET c == call[w][r] IN
  /\ c.pc = "write"
  /\ \E x \in c.left :
       LET n == NameOf[x]
           d == NextDep(w, c.results[x], c.old[n], c.now) IN
       /\ call' = [call EXCEPT ![w][r].left = @ \ {x}]
       /\ IF c.old[n] # NoDep /\ Same(c.old[n], d)
          THEN UNCHANGED <<deps, ghosts>>
          ELSE /\ deps' = [deps EXCEPT ![r][n] = d]
               /\ torn' = torn \cup {r}
               /\ headless' = IF scans[r] = NoScan THEN headless \cup {r} ELSE headless
  /\ UNCHANGED <<scans, run, clock>>

(* After the writes: a listed record no result named is deleted. *)
DeleteDependency(w, r) ==
  LET c == call[w][r] IN
  /\ c.pc = "write"
  /\ c.left = {}
  /\ \E n \in c.gone :
       /\ call' = [call EXCEPT ![w][r].gone = @ \ {n}]
       /\ deps' = [deps EXCEPT ![r][n] = NoDep]
  /\ torn' = torn \cup {r}
  /\ UNCHANGED <<scans, run, clock, headless>>

(* Mutant: the RepositoryScan is written before the vanished references are deleted. *)
ReadyEarly(c) == c.pc = "put" \/ (c.pc = "write" /\ c.left = {})

(* The last write: the RepositoryScan. *)
Ready(c) == c.pc = "put" \/ (c.pc = "write" /\ c.left = {} /\ c.gone = {})

PutRepositoryScan(w, r) ==
  LET c == call[w][r] IN
  /\ Ready(c)
  /\ scans' = [scans EXCEPT ![r] = ScanAfter(w, c)]
  /\ call' = [call EXCEPT ![w][r] = NoCall]
  /\ torn' = IF c.error = "none" /\ Owned(w, r) = Stored(r) THEN torn \ {r} ELSE torn
  /\ headless' = headless \ {r}
  /\ UNCHANGED <<deps, run, clock>>

(* A Backend call of Repo fails: Repo returns the error and writes nothing more. *)
RepoFails(w, r) ==
  /\ call[w][r].pc # "idle"
  /\ call' = [call EXCEPT ![w][r] = NoCall]
  /\ UNCHANGED <<store, run, clock, ghosts>>

----------------------------------------------------------------------------
PruneStep(w) ==
  \/ PruneVictim(w) \/ PruneDependency(w) \/ PruneRepositoryScan(w) \/ PruneDone(w) \/ PruneFails(w)

RepoStep(w, r) ==
  \/ RepoRefused(w, r) \/ RepoFailed(w, r) \/ RepoScanned(w, r) \/ ListDependencies(w, r)
  \/ PutDependency(w, r) \/ DeleteDependency(w, r) \/ PutRepositoryScan(w, r) \/ RepoFails(w, r)

Next ==
  \E w \in Releases :
    \/ StartScan(w) \/ PruneStep(w) \/ EndScan(w) \/ Crash(w)
    \/ \E r \in Repos : RepoStep(w, r)

Spec == Init /\ [][Next]_vars

(***************************************************************************)
(* The setting most properties are about: scans of different releases do   *)
(* not overlap.  So it is with "one release per namespace" (README.md:49), *)
(* where other releases are those that were installed before; nothing in   *)
(* the code makes it so.                                                   *)
(***************************************************************************)
OneScan ==
  \A v, w \in Releases : run[v].pc # "idle" /\ run[w].pc # "idle" => v = w

----------------------------------------------------------------------------
(* Properties.                                                             *)

CallType ==
  [pc : {"idle", "list", "write", "put"}, now : Times, error : Errors,
   scan : RepositoryScan \cup {NoScan}, results : Results,
   old : [Names -> Dependency \cup {NoDep}], left : SUBSET Refs, gone : SUBSET Names]

RunType ==
  [pc : {"idle", "prune", "delete", "scan"}, conf : SUBSET Repos, done : SUBSET Repos,
   victims : SUBSET Repos, victim : Repos \cup {None}, doomed : SUBSET Names]

(* The type of the state. *)
TypeOK ==
  /\ scans \in [Repos -> RepositoryScan \cup {NoScan}]
  /\ deps \in [Repos -> [Names -> Dependency \cup {NoDep}]]
  /\ run \in [Releases -> RunType]
  /\ call \in [Releases -> [Repos -> CallType]]
  /\ clock \in Times
  /\ torn \subseteq Repos
  /\ headless \subseteq Repos

(***************************************************************************)
(* Prune finds the Dependencies of a repository through its                *)
(* RepositoryScan, so it deletes the RepositoryScan last: wherever Prune   *)
(* is cut short, the rest can still be found.  The only Dependencies       *)
(* without a RepositoryScan are those of a first scan that never got to    *)
(* write one.                                                              *)
(***************************************************************************)
NoLostHandle ==
  \A r \in Repos : scans[r] = NoScan /\ Stored(r) # {} => r \in headless

(***************************************************************************)
(* The counts a RepositoryScan shows are the counts of the Dependencies    *)
(* stored beside it, through partial failures and crashes, unless a call   *)
(* changed some Dependencies and has not (or never) reported success, or   *)
(* the first scan of another release, cut short, left some there.          *)
(***************************************************************************)
CountsAgree ==
  \A r \in Repos :
    scans[r] # NoScan /\ r \notin torn =>
      scans[r].counts =
        [checked  |-> Cardinality(Stored(r)),
         outdated |-> Cardinality({n \in Stored(r) : deps[r][n].behind}),
         failed   |-> Cardinality({n \in Stored(r) : deps[r][n].failed})]

(***************************************************************************)
(* History is the last runs, newest first and each once, its head is the   *)
(* status beside it, and last_success_time is the newest success in it, or *)
(* older than all of it.                                                   *)
(***************************************************************************)
HistoryOf(s) ==
  LET h == s.history
      successes == {h[i].time : i \in {j \in DOMAIN h : h[j].phase = "Succeeded"}} IN
  /\ Len(h) <= History
  /\ \A i, j \in DOMAIN h : i < j => h[i].time > h[j].time
  /\ History > 0 => /\ h # <<>>
                    /\ h[1] = [time |-> s.lastScan, phase |-> s.phase,
                               counts |-> s.counts, error |-> s.error]
  /\ \A t \in successes : t <= s.lastSuccess
  /\ s.lastSuccess \in successes \/ \A i \in DOMAIN h : s.lastSuccess < h[i].time
  /\ s.lastSuccess <= s.lastScan

HistoryAgrees == \A r \in Repos : scans[r] # NoScan => HistoryOf(scans[r])

(* What a RepositoryScan says agrees with its own past and with its Dependencies. *)
StatusAgrees == CountsAgree /\ HistoryAgrees

(***************************************************************************)
(* When a scan reports success, the Dependencies of its release are        *)
(* exactly what it found: nothing vanished is left, nothing found is       *)
(* missing, and no record skipped as unchanged is out of date, whatever    *)
(* earlier calls left half done.                                           *)
(***************************************************************************)
Says(d, o) == \A f \in Kept \ {"moved"} : d[f] = o[f]

RecordedExactly ==
  [][\A w \in Releases, r \in Repos :
       PutRepositoryScan(w, r) /\ call[w][r].error = "none" =>
         /\ Owned(w, r) = NamesOf(call[w][r].results)
         /\ \A n \in Owned(w, r) : \E x \in DOMAIN call[w][r].results :
              NameOf[x] = n /\ Says(deps[r][n], call[w][r].results[x])]_vars

(***************************************************************************)
(* outdated_since and latest_seen_at are first times: while a stored       *)
(* reference stays behind, and while its latest version stays the same,    *)
(* no later scan that looks at it moves them, whichever scans failed or    *)
(* died in between.                                                        *)
(***************************************************************************)
Carries(d, e) == d # NoDep /\ e # NoDep /\ ~ForeignOwner(e.owner, d.owner)

DatesStable(d, e) ==
  /\ d.behind /\ e.behind => e.since = d.since
  /\ d.latest # None /\ e.latest = d.latest => e.seen = d.seen

(***************************************************************************)
(* digest_changed: a scan that looks at a stored image digest never        *)
(* replaces it by another one without the new record saying so.            *)
(***************************************************************************)
DriftReported(d, e) == d.digest # None /\ e.digest \notin {None, d.digest} => e.moved

(* What only earlier scans know reaches the new record: dates and drift.   *)
CarriedOver ==
  [][\A r \in Repos, n \in Names :
       Carries(deps[r][n], deps'[r][n]) =>
         DatesStable(deps[r][n], deps'[r][n]) /\ DriftReported(deps[r][n], deps'[r][n])]_vars

(***************************************************************************)
(* Recording a failed scan (or one with too many references) changes no    *)
(* Dependency of the repository, so its outdated alerts stand, and leaves  *)
(* the counts and the last success of the last good scan.                  *)
(***************************************************************************)
FailureKeepsReports ==
  [][\A w \in Releases, r \in Repos :
       call[w][r].pc # "idle" /\ call[w][r].error # "none" =>
         /\ deps'[r] = deps[r]
         /\ scans'[r] # scans[r] /\ scans[r] # NoScan =>
              /\ scans'[r].phase = "Failed"
              /\ scans'[r].counts = scans[r].counts
              /\ scans'[r].lastSuccess = scans[r].lastSuccess]_vars

(***************************************************************************)
(* When Prune ends without an error, every repository that left the config *)
(* has no RepositoryScan, except another release's.                        *)
(***************************************************************************)
PrunedMeansGone ==
  [][\A w \in Releases :
       PruneDone(w) => \A r \in Repos \ run[w].conf : scans[r] = NoScan \/ Foreign(w, r)]_vars

(***************************************************************************)
(* architecture.md:113: "A report belongs to the release that wrote it",   *)
(* and a scan of another release is refused.  A RepositoryScan keeps the   *)
(* release that wrote it until that release itself deletes it.             *)
(***************************************************************************)
ReportsKeepTheirRelease ==
  [][\A r \in Repos :
       LET s == scans[r]
           t == scans'[r] IN
       (s # NoScan /\ s.owner # Unlabelled /\ t # s) =>
         \/ t # NoScan /\ t.owner = s.owner
         \/ t = NoScan /\ s.owner \in Releases /\ run[s.owner].victim = r]_vars

----------------------------------------------------------------------------
(* What makes TypeOK and NoLostHandle inductive.                           *)

(* A call in flight belongs to a process that is past Prune, starts from a *)
(* RepositoryScan, and has only its own results left to write; Prune       *)
(* deletes the report of a repository.                                     *)
InFlightOK ==
  /\ \A w \in Releases, r \in Repos :
       /\ call[w][r].pc # "idle" => run[w].pc = "scan" /\ call[w][r].scan \in RepositoryScan
       /\ call[w][r].left \subseteq DOMAIN call[w][r].results
  /\ \A w \in Releases : run[w].pc = "delete" => run[w].victim \in Repos

(* While Prune deletes a report, every Dependency still stored for it is on its list. *)
PruneOK ==
  \A w \in Releases :
    run[w].pc = "delete" => Stored(run[w].victim) \subseteq run[w].doomed
=============================================================================
