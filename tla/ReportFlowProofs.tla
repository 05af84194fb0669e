--------------------------- MODULE ReportFlowProofs ---------------------------
(***************************************************************************)
(* A dashboard that reads the files of the local store shows no reference  *)
(* older than the run it shows, for any references and any number of       *)
(* scans.                                                                  *)
(*                                                                         *)
(* The argument: the RepositoryScan is written last and read first, so the *)
(* run a load has read is over, and from then on the store covers it: each *)
(* reference is as that run left it, or a later scan wrote or deleted it.  *)
(* A file that is read at any later time is therefore covered as well.     *)
(*                                                                         *)
(* Nor does such a dashboard go back: the run it shows is no later than    *)
(* the one being read, and that is no later than the stored one, which     *)
(* only grows, unless a later scan has pruned the report (ShownOK).  Of a  *)
(* dashboard that lists from API servers only the types are proved.        *)
(***************************************************************************)
EXTENDS ReportFlow, TLAPS

LEMMA InitFlow == FlowInit => FlowInv
BY FlowAssumption
   DEF FlowInit, FlowInv, FlowTypeOK, Versions, PastOK, StoreOK, LoadOK, SnapshotCoversRun, Covers, Nothing

LEMMA NothingTyped == Nothing \in Versions
BY FlowAssumption DEF Nothing, Versions

LEMMA TypeStep == FlowTypeOK /\ [FlowNext]_flowVars => FlowTypeOK'
<1> SUFFICES ASSUME FlowTypeOK, [FlowNext]_flowVars PROVE FlowTypeOK'
  OBVIOUS
<1> USE FlowAssumption, NothingTyped DEF FlowTypeOK, storeVars, writerVars, cacheVars, loadVars
<1>1. CASE Scan
  <2>1. todo' \subseteq Deps /\ stale' \subseteq Deps
    BY <1>1 DEF Scan, Existing
  <2>2. scan' \in 0 .. MaxScans /\ run \in 0 .. scan' /\ pruned \in 0 .. scan'
    BY <1>1 DEF Scan
  <2> QED BY <1>1, <2>1, <2>2 DEF Scan
<1>1a. CASE Prune
  <2>1. stale' \subseteq Deps
    BY <1>1a DEF Prune, Existing
  <2>2. scan' \in 0 .. MaxScans /\ run \in 0 .. scan' /\ pruned \in 0 .. scan'
    BY <1>1a DEF Prune
  <2> QED BY <1>1a, <2>1, <2>2 DEF Prune
<1>2. ASSUME NEW d \in Deps, PutDependency(d) PROVE FlowTypeOK'
  <2>1. deps' \in Versions
    BY <1>2 DEF PutDependency, Versions
  <2> QED BY <1>2, <2>1 DEF PutDependency
<1>3. ASSUME NEW d \in Deps, DeleteDependency(d) PROVE FlowTypeOK'
  <2>1. deps' \in Versions
    BY <1>3 DEF DeleteDependency, Versions
  <2>2. deleted' \in Versions
    BY <1>3 DEF DeleteDependency, Versions
  <2> QED BY <1>3, <2>1, <2>2 DEF DeleteDependency
<1>4. CASE PutRepositoryScan
  <2>1. wrote' \in [0 .. MaxScans -> Versions]
    BY <1>4 DEF PutRepositoryScan
  <2> QED BY <1>4, <2>1 DEF PutRepositoryScan
<1>5. CASE Abort
  BY <1>5 DEF Abort
<1>5a. CASE DeleteRepositoryScan
  BY <1>5a DEF DeleteRepositoryScan
<1>6. ASSUME NEW s \in Servers, CatchUp(s) PROVE FlowTypeOK'
  BY <1>6 DEF CatchUp
<1>7. CASE ListRepositoryScans
  <2>1. run \in 0 .. MaxScans
    OBVIOUS
  <2> QED BY <1>7, <2>1 DEF ListRepositoryScans
<1>8. CASE ListDependencies
  BY <1>8 DEF ListDependencies, Existing
<1>9. ASSUME NEW d \in Deps, ReadFile(d) PROVE FlowTypeOK'
  <2>1. got' \in Versions
    BY <1>9 DEF ReadFile, Versions
  <2> QED BY <1>9, <2>1 DEF ReadFile
<1>10. CASE Loaded
  BY <1>10 DEF Loaded, Read
<1>11. CASE Failed
  BY <1>11 DEF Failed
<1>12. CASE UNCHANGED flowVars
  BY <1>12 DEF flowVars
<1> QED
  BY <1>1, <1>1a, <1>2, <1>3, <1>4, <1>5, <1>5a, <1>6, <1>7, <1>8, <1>9, <1>10, <1>11, <1>12
     DEF FlowNext, Writer, Work, Load

(* The values the other lemmas compute with. *)
LEMMA Numbers ==
  ASSUME FlowTypeOK
  PROVE  /\ pruned \in Nat /\ scan \in Nat /\ run \in Nat /\ gotRun \in Nat /\ snapshot.run \in Nat
         /\ run \in 0 .. MaxScans /\ gotRun \in 0 .. MaxScans /\ snapshot.run \in 0 .. MaxScans
         /\ \A d \in Deps : /\ deps[d] \in Nat /\ deleted[d] \in Nat
                            /\ got[d] \in Nat /\ snapshot.deps[d] \in Nat
         /\ DOMAIN deps = Deps /\ DOMAIN deleted = Deps /\ DOMAIN got = Deps
         /\ DOMAIN wrote = 0 .. MaxScans
<1>1. snapshot.run \in 0 .. MaxScans /\ snapshot.deps \in Versions
  BY DEF FlowTypeOK
<1> QED BY <1>1, FlowAssumption DEF FlowTypeOK, Versions

(* A step of the scanner leaves covered what it does not touch. *)
LEMMA StillCovered ==
  ASSUME ~cached, FlowInv, Writer, NEW d \in Deps, NEW v, NEW n \in 0 .. MaxScans,
         n <= scan, writer # "idle" => n < scan, Covers(d, v, n)
  PROVE  v = wrote'[n][d] \/ v > n \/ (v = 0 /\ deleted'[d] > n)
<1> USE Numbers, FlowAssumption DEF FlowInv, Covers
<1>1. CASE Scan \/ Prune \/ Abort \/ DeleteRepositoryScan
  BY <1>1 DEF Scan, Prune, Abort, DeleteRepositoryScan, storeVars
<1>2. ASSUME NEW e \in Deps, PutDependency(e)
      PROVE  v = wrote'[n][d] \/ v > n \/ (v = 0 /\ deleted'[d] > n)
  BY <1>2 DEF PutDependency
<1>3. ASSUME NEW e \in Deps, DeleteDependency(e)
      PROVE  v = wrote'[n][d] \/ v > n \/ (v = 0 /\ deleted'[d] > n)
  <2>1. deleted'[d] = IF d = e THEN scan ELSE deleted[d]
    BY <1>3 DEF DeleteDependency
  <2> QED BY <1>3, <2>1 DEF DeleteDependency
<1>4. CASE PutRepositoryScan
  <2>1. wrote'[n] = wrote[n]
    BY <1>4 DEF PutRepositoryScan
  <2> QED BY <1>4, <2>1 DEF PutRepositoryScan
<1> QED BY <1>1, <1>2, <1>3, <1>4 DEF Writer, Work

LEMMA PastStep ==
  ASSUME ~cached, FlowInv, [FlowNext]_flowVars
  PROVE  PastOK'
<1> USE Numbers, FlowAssumption DEF FlowInv, PastOK, storeVars, writerVars, cacheVars, loadVars
<1>0. Nothing' = Nothing
  BY DEF Nothing
<1>1. CASE Scan \/ Prune
  <2>1. scan' = scan + 1 /\ UNCHANGED <<run, wrote, deleted, gotRun, snapshot>>
    BY <1>1 DEF Scan, Prune
  <2>2. run <= scan
    BY DEF FlowTypeOK
  <2> QED BY <1>0, <2>1, <2>2
<1>2. ASSUME NEW d \in Deps, PutDependency(d) PROVE PastOK'
  BY <1>0, <1>2 DEF PutDependency
<1>3. ASSUME NEW d \in Deps, DeleteDependency(d) PROVE PastOK'
  <2>1. \A e \in Deps : deleted'[e] <= scan
    BY <1>3 DEF DeleteDependency
  <2> QED BY <1>0, <1>3, <2>1 DEF DeleteDependency
<1>4. CASE PutRepositoryScan
  <2>1. wrote'[0] = wrote[0]
    BY <1>4 DEF PutRepositoryScan
  <2> QED BY <1>0, <1>4, <2>1 DEF PutRepositoryScan
<1>5. CASE Abort
  BY <1>0, <1>5 DEF Abort
<1>5a. CASE DeleteRepositoryScan
  BY <1>0, <1>5a DEF DeleteRepositoryScan
<1>6. ASSUME NEW s \in Servers, CatchUp(s) PROVE PastOK'
  BY <1>6 DEF CatchUp
<1>7. CASE ListRepositoryScans
  BY <1>0, <1>7 DEF ListRepositoryScans, FlowTypeOK
<1>8. CASE ListDependencies
  BY <1>0, <1>8 DEF ListDependencies
<1>9. ASSUME NEW d \in Deps, ReadFile(d) PROVE PastOK'
  BY <1>0, <1>9 DEF ReadFile
<1>10. CASE Loaded
  BY <1>0, <1>10 DEF Loaded, Read
<1>11. CASE Failed
  BY <1>0, <1>11 DEF Failed
<1>12. CASE UNCHANGED flowVars
  BY <1>0, <1>12 DEF flowVars
<1> QED
  BY <1>1, <1>2, <1>3, <1>4, <1>5, <1>5a, <1>6, <1>7, <1>8, <1>9, <1>10, <1>11, <1>12
     DEF FlowNext, Writer, Work, Load

(* What the scanner does covers the runs that are over. *)
LEMMA WriterStep ==
  ASSUME ~cached, FlowInv, Writer
  PROVE  StoreOK' /\ LoadOK' /\ SnapshotCoversRun'
<1>0. UNCHANGED <<poller, gotRun, names, got, snapshot>>
  BY DEF Writer, Work, Scan, Prune, PutDependency, DeleteDependency, PutRepositoryScan,
         DeleteRepositoryScan, Abort, loadVars
<1>1. SnapshotCoversRun'
  BY <1>0, StillCovered, Numbers DEF FlowInv, PastOK, SnapshotCoversRun, Covers
<1>2. LoadOK'
  BY <1>0, StillCovered, Numbers DEF FlowInv, PastOK, LoadOK, Covers
<1>3. ASSUME NEW n \in {run, gotRun}
      PROVE  \A d \in Deps : deps'[d] = wrote'[n][d] \/ deps'[d] > n \/ (deps'[d] = 0 /\ deleted'[d] > n)
  <2> SUFFICES ASSUME NEW d \in Deps
               PROVE  deps'[d] = wrote'[n][d] \/ deps'[d] > n \/ (deps'[d] = 0 /\ deleted'[d] > n)
    OBVIOUS
  <2>1. n \in 0 .. MaxScans /\ n <= scan /\ (writer # "idle" => n < scan)
    BY Numbers DEF FlowInv, PastOK, FlowTypeOK
  <2>2. Covers(d, deps[d], n)
    BY DEF FlowInv, StoreOK
  <2>3. CASE deps'[d] = deps[d]
    BY <2>1, <2>2, <2>3, StillCovered
  <2>4. ASSUME NEW e \in Deps, PutDependency(e), deps'[d] # deps[d] PROVE deps'[d] > n
    BY <2>1, <2>4, Numbers DEF PutDependency, FlowInv
  <2>5. ASSUME NEW e \in Deps, DeleteDependency(e), deps'[d] # deps[d]
        PROVE  deps'[d] = 0 /\ deleted'[d] > n
    BY <2>1, <2>5, Numbers DEF DeleteDependency, FlowInv
  <2> QED BY <2>3, <2>4, <2>5
          DEF Writer, Work, Scan, Prune, PutRepositoryScan, DeleteRepositoryScan, Abort, storeVars
<1>4. StoreOK'
  <2>1. CASE PutRepositoryScan
    <3>1. run' = scan /\ deps' = deps /\ wrote'[run'] = deps
      BY <2>1, Numbers DEF PutRepositoryScan, FlowInv, FlowTypeOK
    <3> QED BY <1>0, <1>3, <3>1 DEF StoreOK, Covers
  (* Nothing is older than no report at all. *)
  <2>2. CASE DeleteRepositoryScan
    <3>1. run' = 0 /\ deps' = deps /\ wrote' = wrote
      BY <2>2 DEF DeleteRepositoryScan
    <3>2. \A d \in Deps : wrote[0][d] = 0
      BY DEF FlowInv, PastOK, Nothing
    <3>3. ASSUME NEW d \in Deps PROVE deps[d] = 0 \/ deps[d] > 0
      <4>1. deps[d] \in Nat
        BY Numbers DEF FlowInv
      <4> QED BY <4>1
    <3> QED BY <1>0, <1>3, <3>1, <3>2, <3>3 DEF StoreOK, Covers
  <2>3. CASE ~PutRepositoryScan /\ ~DeleteRepositoryScan
    <3>1. run' = run
      BY <2>3 DEF Writer, Work, Scan, Prune, PutDependency, DeleteDependency, Abort, storeVars
    <3> QED BY <1>0, <1>3, <3>1 DEF StoreOK, Covers
  <2> QED BY <2>1, <2>2, <2>3
<1> QED BY <1>1, <1>2, <1>4

(* What a load reads from the store is covered because the store is. *)
LEMMA LoadStep ==
  ASSUME ~cached, FlowInv, (\E s \in Servers : CatchUp(s)) \/ Load \/ Failed \/ UNCHANGED flowVars
  PROVE  StoreOK' /\ LoadOK' /\ SnapshotCoversRun'
<1> USE Numbers DEF FlowInv, Covers, storeVars, writerVars, cacheVars, loadVars
<1>0. UNCHANGED <<deps, run, wrote, deleted>>
  BY DEF CatchUp, Load, ListRepositoryScans, ListDependencies, ReadFile, Loaded, Failed, flowVars
<1>1. \A d \in Deps : wrote[0][d] = 0
  BY DEF PastOK, Nothing
<1>2. CASE \E s \in Servers : CatchUp(s)
  BY <1>2 DEF CatchUp
<1>3. CASE ListRepositoryScans
  BY <1>0, <1>3 DEF ListRepositoryScans, StoreOK, LoadOK, SnapshotCoversRun
<1>4. CASE ListDependencies
  <2>1. \A d \in Deps \ names' : deps[d] = 0 /\ got'[d] = 0
    BY <1>4 DEF ListDependencies, Existing, Nothing
  <2>2. gotRun' = gotRun /\ snapshot' = snapshot
    BY <1>4 DEF ListDependencies
  <2> QED BY <1>0, <2>1, <2>2 DEF StoreOK, LoadOK, SnapshotCoversRun
<1>5. ASSUME NEW d \in Deps, ReadFile(d) PROVE StoreOK' /\ LoadOK' /\ SnapshotCoversRun'
  <2>1. \A e \in Deps : got'[e] = IF e = d THEN deps[d] ELSE got[e]
    BY <1>5 DEF ReadFile
  <2>2. poller = "deps" /\ gotRun' = gotRun /\ snapshot' = snapshot /\ names' = names \ {d}
    BY <1>5 DEF ReadFile
  <2> QED BY <1>0, <2>1, <2>2 DEF StoreOK, LoadOK, SnapshotCoversRun
<1>6. CASE Loaded
  <2>1. snapshot'.run = gotRun /\ snapshot'.deps = got /\ gotRun' = 0 /\ poller' = "idle"
    BY <1>6 DEF Loaded, Read
  <2>2. \A d \in Deps : deps[d] = 0 \/ deps[d] > 0
    OBVIOUS
  <2> QED BY <1>0, <1>1, <1>6, <2>1, <2>2 DEF Loaded, StoreOK, LoadOK, SnapshotCoversRun
<1>7. CASE Failed
  <2>1. snapshot' = snapshot /\ gotRun' = 0 /\ poller' = "idle"
    BY <1>7 DEF Failed
  <2>2. \A d \in Deps : deps[d] = 0 \/ deps[d] > 0
    OBVIOUS
  <2> QED BY <1>0, <1>1, <2>1, <2>2 DEF StoreOK, LoadOK, SnapshotCoversRun
<1>8. CASE UNCHANGED flowVars
  BY <1>8 DEF flowVars, StoreOK, LoadOK, SnapshotCoversRun
<1> QED BY <1>2, <1>3, <1>4, <1>5, <1>6, <1>7, <1>8 DEF Load

(***************************************************************************)
(* The state of scanner, caches and poller is well typed, with files and   *)
(* with an API server (writer.go, poller.go, file.go, kube.go).            *)
(***************************************************************************)
THEOREM FlowTypeCorrect == FlowSpec => []FlowTypeOK
<1>1. FlowInit => FlowTypeOK
  BY InitFlow DEF FlowInv
<1> QED BY <1>1, TypeStep, PTL DEF FlowSpec

(* The inductive invariant holds in every reachable state. *)
LEMMA FlowInvariance == FlowSpec => []FlowInv
<1>1. FlowInv /\ [FlowNext]_flowVars => FlowInv'
  <2> SUFFICES ASSUME FlowInv, [FlowNext]_flowVars PROVE FlowInv'
    OBVIOUS
  <2>1. FlowTypeOK'
    BY TypeStep DEF FlowInv
  <2>2. cached' = cached
    BY DEF FlowNext, Writer, Work, Load, Scan, Prune, PutDependency, DeleteDependency, PutRepositoryScan,
           DeleteRepositoryScan, Abort, CatchUp, ListRepositoryScans, ListDependencies, ReadFile, Loaded, Failed, flowVars, cacheVars
  <2>3. CASE ~cached
    <3>1. PastOK'
      BY <2>3, PastStep
    <3>2. StoreOK' /\ LoadOK' /\ SnapshotCoversRun'
      BY <2>3, WriterStep, LoadStep DEF FlowNext
    <3> QED BY <2>1, <3>1, <3>2 DEF FlowInv
  <2>4. CASE cached
    BY <2>1, <2>2, <2>4 DEF FlowInv
  <2> QED BY <2>3, <2>4
<1> QED BY InitFlow, <1>1, PTL DEF FlowSpec

(***************************************************************************)
(* A snapshot read from the files is never older than the run it shows:    *)
(* Poller.load of poller.go beside Writer.Repo of writer.go.               *)
(***************************************************************************)
THEOREM SnapshotsCover == FlowSpec => []SnapshotCoversRun
<1>1. FlowInv => SnapshotCoversRun
  BY DEF FlowInv, SnapshotCoversRun
<1> QED BY FlowInvariance, <1>1, PTL
----------------------------------------------------------------------------
(* What is shown is no later than what is read, and that is no later than *)
(* what is stored, or a later scan has pruned it.                         *)
Follows(n, later) == n <= later \/ (later = 0 /\ n < pruned)

ShownOK ==
  /\ Follows(snapshot.run, run)
  /\ poller # "idle" => Follows(snapshot.run, gotRun) /\ Follows(gotRun, run)

LEMMA ShownStep ==
  ASSUME FlowTypeOK, FlowTypeOK', ~cached, PastOK, ShownOK, [FlowNext]_flowVars
  PROVE  ShownOK'
<1>0. /\ run \in Nat /\ run' \in Nat /\ pruned \in Nat /\ pruned' \in Nat /\ scan \in Nat
      /\ gotRun \in Nat /\ snapshot.run \in Nat
  <2>1. snapshot.run \in 0 .. MaxScans
    BY DEF FlowTypeOK
  <2>2. scan \in Nat /\ scan' \in Nat
    BY FlowAssumption DEF FlowTypeOK
  <2> QED BY <2>1, <2>2, FlowAssumption DEF FlowTypeOK
<1> USE <1>0 DEF ShownOK, Follows, storeVars, writerVars, cacheVars, loadVars
<1>1. CASE Scan \/ Prune \/ Abort
  BY <1>1 DEF Scan, Prune, Abort
<1>2. ASSUME NEW d \in Deps, PutDependency(d) \/ DeleteDependency(d) PROVE ShownOK'
  BY <1>2 DEF PutDependency, DeleteDependency
<1>3. CASE PutRepositoryScan
  <2>1. run' = scan /\ UNCHANGED <<pruned, poller, loadVars, snapshot>>
    BY <1>3 DEF PutRepositoryScan
  <2>2. snapshot.run <= scan /\ gotRun <= scan
    BY DEF PastOK
  <2> QED BY <2>1, <2>2
<1>4. CASE DeleteRepositoryScan
  <2>1. run' = 0 /\ pruned' = scan /\ UNCHANGED <<poller, loadVars, snapshot>>
    BY <1>4 DEF DeleteRepositoryScan
  <2>2. snapshot.run < scan /\ gotRun < scan /\ pruned <= scan
    BY <1>4 DEF DeleteRepositoryScan, PastOK, FlowTypeOK
  <2> QED BY <2>1, <2>2
<1>5. ASSUME NEW s \in Servers, CatchUp(s) PROVE ShownOK'
  BY <1>5 DEF CatchUp
<1>6. CASE ListRepositoryScans
  BY <1>6 DEF ListRepositoryScans
<1>7. CASE ListDependencies
  BY <1>7 DEF ListDependencies
<1>8. ASSUME NEW d \in Deps, ReadFile(d) PROVE ShownOK'
  BY <1>8 DEF ReadFile
<1>9. CASE Loaded
  BY <1>9 DEF Loaded, Read
<1>10. CASE Failed
  BY <1>10 DEF Failed
<1>11. CASE UNCHANGED flowVars
  BY <1>11 DEF flowVars
<1> QED BY <1>1, <1>2, <1>3, <1>4, <1>5, <1>6, <1>7, <1>8, <1>9, <1>10, <1>11
        DEF FlowNext, Writer, Work, Load

LEMMA AlwaysShown == FlowSpec => [](~cached => ShownOK)
<1>1. FlowInit => (~cached => ShownOK)
  BY DEF FlowInit, ShownOK, Follows
<1>2. FlowInv /\ FlowTypeOK' /\ (~cached => ShownOK) /\ [FlowNext]_flowVars => (~cached => ShownOK)'
  <2>1. ASSUME [FlowNext]_flowVars PROVE cached' = cached
    BY <2>1 DEF FlowNext, Writer, Work, Load, Scan, Prune, PutDependency, DeleteDependency,
           PutRepositoryScan, DeleteRepositoryScan, Abort, CatchUp, ListRepositoryScans,
           ListDependencies, ReadFile, Loaded, Failed, flowVars, cacheVars
  <2> QED BY <2>1, ShownStep DEF FlowInv
<1> QED BY <1>1, <1>2, FlowInvariance, FlowTypeCorrect, PTL DEF FlowSpec

(***************************************************************************)
(* A dashboard that reads files never goes back to an earlier run, nor     *)
(* drops a report that no later scan has pruned, whichever loads fail:     *)
(* Poller.load replaces the snapshot only by a whole load, and what is     *)
(* stored only grows between two prunes.                                   *)
(***************************************************************************)
THEOREM ShownOnlyGrows == FlowSpec => NeverBackwards
<1> DEFINE Grows == ~cached => \/ snapshot'.run >= snapshot.run
                               \/ snapshot'.run = 0 /\ pruned > snapshot.run
<1>1. FlowTypeOK /\ (~cached => ShownOK) /\ [FlowNext]_flowVars => [Grows]_snapshot
  <2> SUFFICES ASSUME FlowTypeOK, ShownOK, [FlowNext]_flowVars, snapshot' # snapshot, ~cached
               PROVE  Grows
    OBVIOUS
  <2>1. Loaded
    BY DEF FlowNext, Writer, Work, Load, Scan, Prune, PutDependency, DeleteDependency, PutRepositoryScan,
           DeleteRepositoryScan, Abort, CatchUp, ListRepositoryScans, ListDependencies, ReadFile, Failed,
           flowVars
  <2>2. snapshot'.run = gotRun /\ poller # "idle"
    BY <2>1 DEF Loaded, Read
  <2>3. gotRun \in Nat /\ snapshot.run \in 0 .. MaxScans /\ pruned \in Nat
    BY FlowAssumption DEF FlowTypeOK
  <2> QED BY <2>2, <2>3, FlowAssumption DEF ShownOK, Follows
<1> QED BY <1>1, FlowTypeCorrect, AlwaysShown, PTL DEF FlowSpec, NeverBackwards
=============================================================================
