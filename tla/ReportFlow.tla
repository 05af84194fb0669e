------------------------------ MODULE ReportFlow ------------------------------
(***************************************************************************)
(* How reports reach the dashboard: the scanner stores the dependencies    *)
(* and then the RepositoryScan of a repository (ReportWriter), and a       *)
(* Poller of another process lists the repositories and then the           *)
(* dependencies, without any lock between the two (internal/report:        *)
(* writer.go, poller.go, file.go, kube.go).                                *)
(*                                                                         *)
(* A stored object is the number of the scan that last wrote it, 0 when it *)
(* does not exist.  Files are replaced by a rename, so one write is one    *)
(* step; a list of files is one read per file.  In a cluster, any of the   *)
(* API servers answers a list from its cache (ResourceVersion "0"), and    *)
(* the caches of servers and kinds follow the store independently.         *)
(***************************************************************************)
EXTENDS Naturals

CONSTANTS
  Deps,       \* references the repository may hold
  Servers,    \* API servers
  MaxScans    \* bound: scans

ASSUME FlowAssumption == MaxScans \in Nat

VARIABLES
  cached,     \* the backend: TRUE for Kube, FALSE for Files
  scan,       \* the number of scans that began
  writer,     \* where the scan is: "idle", "put" or "prune"
  todo,       \* references the scan still has to store
  stale,      \* references stored before that it did not find
  deps,       \* the stored dependencies
  run,        \* the stored RepositoryScan
  wrote,      \* [scan -> the dependencies as it left them]
  deleted,    \* [Deps -> the last scan that deleted it]
  pruned,     \* the last scan that deleted the RepositoryScan
  cachedDeps, cachedRun,    \* [Servers -> what the server's cache holds]
  poller,     \* where the poller is: "idle", "repos" or "deps"
  gotRun,     \* the RepositoryScan the load has read
  names,      \* files of the load that are still to be read
  got,        \* the dependencies the load has read
  snapshot    \* what the dashboard shows

storeVars  == <<deps, run, wrote, deleted, pruned>>
writerVars == <<scan, writer, todo, stale>>
cacheVars  == <<cached, cachedDeps, cachedRun>>
loadVars   == <<gotRun, names, got>>
flowVars == <<storeVars, writerVars, cacheVars, poller, loadVars, snapshot>>

Nothing == [d \in Deps |-> 0]
Existing(s) == {d \in Deps : s[d] # 0}

FlowInit ==
  /\ cached \in BOOLEAN
  /\ scan = 0 /\ writer = "idle" /\ todo = {} /\ stale = {}
  /\ deps = Nothing /\ run = 0
  /\ wrote = [n \in 0 .. MaxScans |-> Nothing]
  /\ deleted = Nothing /\ pruned = 0
  /\ cachedDeps = [s \in Servers |-> Nothing] /\ cachedRun = [s \in Servers |-> 0]
  /\ poller = "idle"
  /\ gotRun = 0 /\ names = {} /\ got = Nothing
  /\ snapshot = [run |-> 0, deps |-> Nothing]

----------------------------------------------------------------------------
(* The scanner.                                                            *)

Scan ==
  /\ writer = "idle" /\ scan < MaxScans
  /\ scan' = scan + 1
  /\ writer' = "put"
  /\ \E found \in SUBSET Deps : todo' = found /\ stale' = Existing(deps) \ found
  /\ UNCHANGED <<storeVars, cacheVars, poller, loadVars, snapshot>>

(* The repository left the config: Writer.Prune deletes its report. *)
Prune ==
  /\ writer = "idle" /\ scan < MaxScans /\ run # 0
  /\ scan' = scan + 1
  /\ writer' = "prune"
  /\ todo' = {} /\ stale' = Existing(deps)
  /\ UNCHANGED <<storeVars, cacheVars, poller, loadVars, snapshot>>

(* A reference is stored when it is new or changed, and left alone otherwise. *)
PutDependency(d) ==
  /\ writer = "put" /\ d \in todo
  /\ todo' = todo \ {d}
  /\ \/ deps' = [deps EXCEPT ![d] = scan]
     \/ deps[d] # 0 /\ UNCHANGED deps
  /\ UNCHANGED <<scan, writer, stale, run, wrote, deleted, pruned, cacheVars, poller, loadVars, snapshot>>

DeleteDependency(d) ==
  /\ writer \in {"put", "prune"} /\ todo = {} /\ d \in stale
  /\ stale' = stale \ {d}
  /\ deps' = [deps EXCEPT ![d] = 0]
  /\ deleted' = [deleted EXCEPT ![d] = scan]
  /\ UNCHANGED <<scan, writer, todo, run, wrote, pruned, cacheVars, poller, loadVars, snapshot>>

PutRepositoryScan ==
  /\ writer = "put" /\ todo = {} /\ stale = {}
  /\ writer' = "idle" /\ todo' = {} /\ stale' = {}
  /\ run' = scan
  /\ wrote' = [wrote EXCEPT ![scan] = deps]
  /\ UNCHANGED <<scan, deps, deleted, pruned, cacheVars, poller, loadVars, snapshot>>

DeleteRepositoryScan ==
  /\ writer = "prune" /\ stale = {}
  /\ writer' = "idle"
  /\ run' = 0 /\ pruned' = scan
  /\ UNCHANGED <<scan, todo, stale, deps, wrote, deleted, cacheVars, poller, loadVars, snapshot>>

(* A write fails, or the process dies: the report stays as it was. *)
Abort ==
  /\ writer # "idle"
  /\ writer' = "idle" /\ todo' = {} /\ stale' = {}
  /\ UNCHANGED <<scan, storeVars, cacheVars, poller, loadVars, snapshot>>

----------------------------------------------------------------------------
(* The API servers.                                                        *)

CatchUp(s) ==
  /\ cached
  /\ \/ cachedDeps[s] # deps /\ cachedDeps' = [cachedDeps EXCEPT ![s] = deps] /\ UNCHANGED cachedRun
     \/ cachedRun[s] # run /\ cachedRun' = [cachedRun EXCEPT ![s] = run] /\ UNCHANGED cachedDeps
  /\ UNCHANGED <<cached, storeVars, writerVars, poller, loadVars, snapshot>>

----------------------------------------------------------------------------
(* The poller of a dashboard.                                              *)

ListRepositoryScans ==
  /\ poller = "idle"
  /\ gotRun' \in IF cached THEN {cachedRun[s] : s \in Servers} ELSE {run}
  /\ poller' = "repos"
  /\ UNCHANGED <<storeVars, writerVars, cacheVars, names, got, snapshot>>

(* Files: the names first; Kube: one list, not always from the same server. *)
ListDependencies ==
  /\ poller = "repos"
  /\ poller' = "deps"
  /\ names' = IF cached THEN {} ELSE Existing(deps)
  /\ got' \in IF cached THEN {cachedDeps[s] : s \in Servers} ELSE {Nothing}
  /\ UNCHANGED <<storeVars, writerVars, cacheVars, gotRun, snapshot>>

ReadFile(d) ==
  /\ poller = "deps" /\ d \in names
  /\ deps[d] # 0
  /\ got' = [got EXCEPT ![d] = deps[d]]
  /\ names' = names \ {d}
  /\ UNCHANGED <<storeVars, writerVars, cacheVars, poller, gotRun, snapshot>>

(* Mutant: the repositories are listed last. *)
ReadRunLast == [run |-> run, deps |-> got]
Read == [run |-> gotRun, deps |-> got]

Loaded ==
  /\ poller = "deps" /\ names = {}
  /\ snapshot' = Read
  /\ poller' = "idle"
  /\ gotRun' = 0 /\ got' = Nothing
  /\ UNCHANGED <<storeVars, writerVars, cacheVars, names>>

(* A request fails (Kube), or a file vanished since it was listed. *)
Vanished == \E d \in names : deps[d] = 0
LoadFails == poller \in {"repos", "deps"} /\ (cached \/ Vanished)

(* Mutants: an unreadable store is an empty one; the poller stops at an error. *)
FailedShowsNothing ==
  /\ LoadFails
  /\ snapshot' = [run |-> 0, deps |-> Nothing]
  /\ poller' = "idle" /\ gotRun' = 0 /\ got' = Nothing /\ names' = {}
  /\ UNCHANGED <<storeVars, writerVars, cacheVars>>
FailedStops ==
  /\ LoadFails
  /\ poller' = "stopped" /\ gotRun' = 0 /\ got' = Nothing /\ names' = {}
  /\ UNCHANGED <<storeVars, writerVars, cacheVars, snapshot>>

(* The previous snapshot stays until the next interval. *)
Failed ==
  /\ LoadFails
  /\ poller' = "idle" /\ gotRun' = 0 /\ got' = Nothing /\ names' = {}
  /\ UNCHANGED <<storeVars, writerVars, cacheVars, snapshot>>

Work ==
  \/ \E d \in Deps : PutDependency(d) \/ DeleteDependency(d)
  \/ PutRepositoryScan \/ DeleteRepositoryScan \/ Abort
Writer == Scan \/ Prune \/ Work
Load == ListRepositoryScans \/ ListDependencies \/ (\E d \in Deps : ReadFile(d)) \/ Loaded

FlowNext == Writer \/ (\E s \in Servers : CatchUp(s)) \/ Load \/ Failed

(* A scan that began ends, the caches follow, the poller polls (Every), and *)
(* a request that is made again and again does not fail every time.        *)
FlowFairness ==
  /\ WF_flowVars(Work)
  /\ \A s \in Servers : WF_flowVars(CatchUp(s))
  /\ WF_flowVars(Load \/ Failed) /\ SF_flowVars(ListDependencies) /\ SF_flowVars(Loaded)

FlowSpec == FlowInit /\ [][FlowNext]_flowVars /\ FlowFairness

----------------------------------------------------------------------------
(* Properties.                                                             *)

Versions == [Deps -> 0 .. MaxScans]

(* The type of the state. *)
FlowTypeOK ==
  /\ cached \in BOOLEAN
  /\ scan \in 0 .. MaxScans /\ writer \in {"idle", "put", "prune"}
  /\ todo \subseteq Deps /\ stale \subseteq Deps
  /\ deps \in Versions /\ run \in 0 .. scan
  /\ wrote \in [0 .. MaxScans -> Versions] /\ deleted \in Versions
  /\ pruned \in 0 .. scan
  /\ cachedDeps \in [Servers -> Versions] /\ cachedRun \in [Servers -> 0 .. MaxScans]
  /\ poller \in {"idle", "repos", "deps"}
  /\ gotRun \in 0 .. MaxScans /\ names \subseteq Deps /\ got \in Versions
  /\ snapshot \in [run : 0 .. MaxScans, deps : Versions]

(* v is what run n left of d, or the work of a later scan. *)
Covers(d, v, n) == v = wrote[n][d] \/ v > n \/ (v = 0 /\ deleted[d] > n)

(***************************************************************************)
(* A snapshot is never older than the run it shows: although writer and    *)
(* poller share no lock, what is shown of a reference is what that run     *)
(* left, or the work of a later scan.  The counts of a RepositoryScan and  *)
(* the list beside it only disagree when a later scan is at work, or was   *)
(* cut short.  (The caches of the two kinds promise nothing about each     *)
(* other.)                                                                 *)
(***************************************************************************)
SnapshotCoversRun == ~cached => \A d \in Deps : Covers(d, snapshot.deps[d], snapshot.run)

(***************************************************************************)
(* A dashboard that reads files does not go back to an earlier run, nor to *)
(* an empty list, whatever fails: it keeps the previous snapshot, and it   *)
(* loses a report only when a later scan has pruned it.  (In a cluster a   *)
(* list may be older than the last one, when another server answers it,    *)
(* and Poller shows it: kube.go asks for ResourceVersion "0".)             *)
(***************************************************************************)
NeverBackwards ==
  [][~cached => \/ snapshot'.run >= snapshot.run
                \/ snapshot'.run = 0 /\ pruned > snapshot.run]_snapshot

(***************************************************************************)
(* What is stored is shown in the end, also after loads that failed and    *)
(* with servers whose caches lag.                                          *)
(***************************************************************************)
EventuallyShown ==
  <>[](writer = "idle") => <>[](snapshot = [run |-> run, deps |-> deps])

----------------------------------------------------------------------------
(* What makes SnapshotCoversRun inductive when lists read the store.        *)

(* A run that was read or shown is over: a scan at work is a later one. *)
PastOK ==
  /\ wrote[0] = Nothing
  /\ \A d \in Deps : deleted[d] <= scan
  /\ gotRun <= scan /\ snapshot.run <= scan
  /\ writer # "idle" => run < scan /\ gotRun < scan /\ snapshot.run < scan

(* The store covers every run that may be shown, and so does what was read. *)
StoreOK == \A d \in Deps : Covers(d, deps[d], run) /\ Covers(d, deps[d], gotRun)
LoadOK == poller = "deps" => \A d \in Deps \ names : Covers(d, got[d], gotRun)

FlowInv == FlowTypeOK /\ (~cached => PastOK /\ StoreOK /\ LoadOK /\ SnapshotCoversRun)
=============================================================================
