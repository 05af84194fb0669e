---------------------------- MODULE RepoScanProofs ----------------------------
(***************************************************************************)
(* For any remotes, revisions and files: a scan reads one whole revision   *)
(* of the configured remote that is not older than the scan, and a Flux    *)
(* release resolves whichever file declares its source.                    *)
(*                                                                         *)
(* The argument: fetch runs only after set-url pointed the checkout at the *)
(* configured remote, reset only after fetch, and the walk only after      *)
(* reset or a whole clone (GitOK).  While the walk goes on, the extractor  *)
(* holds exactly the sources of the files read so far (WalkOK); extraction *)
(* begins when no file is left.                                            *)
(*                                                                         *)
(* RepoConfig: any document that is accepted gives each repository a       *)
(* directory of its own, sends a secret only over a transport that         *)
(* encrypts, and is loaded again as it was loaded.                         *)
(***************************************************************************)
EXTENDS RepoScan, RepoConfig, WellFoundedInduction, TLAPS

\* A non-empty set of positions has a last one.
LEMMA LatestIsLast ==
  ASSUME NEW n \in Nat, NEW S \in SUBSET (1..n), S # {}
  PROVE  Latest(S) \in S /\ \A j \in S : j <= Latest(S)
<1> DEFINE T == {n - i : i \in S}
<1>1. \A i \in S : i \in Nat /\ n - i \in Nat
  OBVIOUS
<1>2. T \subseteq Nat /\ T # {}
  BY <1>1
<1>3. PICK m \in T : \A y \in T : ~ (<<y, m>> \in OpToRel(<, Nat))
  <2> HIDE DEF T
  <2> QED BY <1>2, NatLessThanWellFounded, WFMin
<1>4. \A y \in T : ~ (y < m)
  <2> SUFFICES ASSUME NEW y \in T PROVE ~ (y < m)
    OBVIOUS
  <2>1. y \in Nat /\ m \in Nat
    BY <1>2
  <2>2. <<y, m>> \in OpToRel(<, Nat) <=> y < m
    BY <2>1 DEF OpToRel
  <2> QED BY <1>3, <2>2
<1>5. PICK i \in S : m = n - i
  OBVIOUS
<1>6. \A j \in S : j <= i
  <2> SUFFICES ASSUME NEW j \in S PROVE j <= i
    OBVIOUS
  <2>1. ~ (n - j < n - i)
    BY <1>4, <1>5
  <2>2. i \in Nat /\ j \in Nat /\ n \in Nat
    BY <1>1
  <2> HIDE DEF T
  <2> QED BY <2>1, <2>2
<1> QED BY <1>6 DEF Latest

----------------------------------------------------------------------------
(* Types and the checkout *)

LEMMA InitIInv == RepoInit => IInv
BY BoundsAssumption
   DEF RepoInit, IInv, RepoTypeOK, GitOK, WalkOK, ScansTheRemote, Scanning

\* What PrepareFile takes from a file is one of its sources.
LEMMA PreparedEntry ==
  ASSUME NEW rev \in Revs, NEW f \in Tree[rev], NEW k, SameKey(f, k) # {}
  PROVE  /\ Latest(SameKey(f, k)) \in SameKey(f, k)
         /\ f.docs[Latest(SameKey(f, k))].entry \in Entries
<1>1. Len(f.docs) \in Nat /\ DOMAIN f.docs = 1..Len(f.docs)
  BY TreeAssumption
<1>2. SameKey(f, k) \in SUBSET (1..Len(f.docs)) /\ SameKey(f, k) \subseteq Sources(f)
  BY <1>1 DEF SameKey, Sources
<1>3. Latest(SameKey(f, k)) \in SameKey(f, k)
  BY <1>1, <1>2, LatestIsLast
<1> QED BY <1>2, <1>3, TreeAssumption

LEMMA LeftoverTyped ==
  ASSUME RepoTypeOK, GitOK, phase \in {"set-url", "fetch", "reset"}
  PROVE  Leftover \subseteq Clones
<1>1. clone \in Clones
  BY DEF GitOK
<1>2. CASE phase = "set-url"
  BY <1>1, <1>2 DEF Leftover, RepoTypeOK, Clones
<1>3. CASE phase = "fetch"
  <2>1. Fetched \in Revs
    BY <1>3 DEF Fetched, Revs, RepoTypeOK, GitOK
  <2> QED BY <1>1, <1>3, <2>1 DEF Leftover, Clones
<1>4. CASE phase = "reset"
  BY <1>1, <1>4 DEF Leftover, Clones
<1> QED BY <1>2, <1>3, <1>4

LEMMA TypeStep == RepoTypeOK /\ GitOK /\ WalkOK /\ [RepoNext]_repoVars => RepoTypeOK'
<1> SUFFICES ASSUME RepoTypeOK, GitOK, WalkOK, [RepoNext]_repoVars PROVE RepoTypeOK'
  OBVIOUS
<1> USE BoundsAssumption DEF RepoTypeOK, world, walk, git
<1>1. ASSUME NEW u \in Urls, Push(u) PROVE RepoTypeOK'
  BY <1>1 DEF Push
<1>2. ASSUME NEW u \in Urls, Configure(u) PROVE RepoTypeOK'
  BY <1>2 DEF Configure
<1>3. CASE Sync
  <2>1. headThen' \in 0..MaxRev
    BY <1>3 DEF Sync
  <2>2. scans' \in 0..MaxScans
    BY <1>3 DEF Sync
  <2> QED BY <1>3, <2>1, <2>2 DEF Sync
<1>4. CASE Clone
  <2>1. <<url, head[url]>> \in Revs
    BY DEF Revs
  <2>2. clone' \in Clones
    BY <1>4, <2>1 DEF Clone, Clones, Locks
  <2> QED BY <1>4, <2>1, <2>2 DEF Clone, Walk
<1>5. CASE CloneFails
  <2>1. clone' \in Clones \cup {NoClone}
    BY <1>5 DEF CloneFails, Clones
  <2> QED BY <1>5, <2>1 DEF CloneFails, GiveUp
<1>6. CASE SetUrl
  <2>1. clone' \in Clones
    BY <1>6 DEF SetUrl, Clones, GitOK
  <2> QED BY <1>6, <2>1 DEF SetUrl
<1>7. CASE Fetch
  <2>1. Fetched \in Revs
    BY <1>7 DEF Fetch, Fetched, Revs, GitOK
  <2>2. clone' \in Clones
    BY <1>7, <2>1 DEF Fetch, Clones, GitOK
  <2> QED BY <1>7, <2>2 DEF Fetch
<1>8. CASE Reset
  <2>1. clone.fetched \in Revs
    BY <1>8 DEF Reset, Revs, GitOK
  <2>2. clone' \in Clones
    BY <1>8, <2>1 DEF Reset, Clones, GitOK
  <2> QED BY <1>8, <2>1, <2>2 DEF Reset, Walk
<1>9. CASE CommandFails
  <2>1. PICK left \in Leftover, locks \in {clone.locks, clone.locks \cup {LockOf}} :
          clone' = [left EXCEPT !.locks = locks]
    BY <1>9 DEF CommandFails
  <2>2. left \in Clones
    BY <1>9, LeftoverTyped DEF CommandFails
  <2>3. locks \subseteq Locks
    BY <1>9 DEF CommandFails, LockOf, Locks, Clones, GitOK
  <2>4. clone' \in Clones
    BY <2>1, <2>2, <2>3 DEF Clones
  <2> QED BY <1>9, <2>4 DEF CommandFails, GiveUp
<1>10. ASSUME NEW f \in unread, ReadFile(f) PROVE RepoTypeOK'
  <2>1. PICK rev \in Revs : f \in Tree[rev]
    OBVIOUS
  <2>2. PrepareFile(f) \in [Keys -> Entries \cup {NoEntry}]
    BY <2>1, PreparedEntry DEF PrepareFile
  <2> QED BY <1>10, <2>2 DEF ReadFile
<1>11. CASE Walked
  BY <1>11 DEF Walked
<1>12. ASSUME NEW f \in matched, Extract(f) PROVE RepoTypeOK'
  BY <1>12 DEF Extract
<1>13. CASE Extracted
  BY <1>13 DEF Extracted
<1>14. CASE Over
  BY <1>14 DEF Over, GiveUp
<1>15. CASE UNCHANGED repoVars
  BY <1>15 DEF repoVars
<1> QED BY <1>1, <1>2, <1>3, <1>4, <1>5, <1>6, <1>7, <1>8, <1>9, <1>10, <1>11, <1>12, <1>13, <1>14, <1>15 DEF RepoNext

LEMMA GitStep == RepoTypeOK /\ GitOK /\ [RepoNext]_repoVars => GitOK'
<1> SUFFICES ASSUME RepoTypeOK, GitOK, [RepoNext]_repoVars PROVE GitOK'
  OBVIOUS
<1> USE BoundsAssumption DEF RepoTypeOK, GitOK, ScansTheRemote, Scanning, world, walk, git
<1>1. ASSUME NEW u \in Urls, Push(u) PROVE GitOK'
  <2>1. head[url] <= head'[url] /\ head'[url] \in Nat
    BY <1>1 DEF Push
  <2> QED BY <1>1, <2>1 DEF Push
<1>2. ASSUME NEW u \in Urls, Configure(u) PROVE GitOK'
  BY <1>2 DEF Configure
<1>3. CASE Sync
  <2>1. clone # NoClone => clone \in Clones
    OBVIOUS
  <2> QED BY <1>3, <2>1 DEF Sync
<1>4. CASE Clone
  <2>1. clone' \in Clones /\ clone'.tree = <<url, head[url]>>
    BY <1>4 DEF Clone, Clones, Locks, Revs
  <2>2. head[url] \in headThen..head[url]
    BY <1>4 DEF Clone
  <2> QED BY <1>4, <2>1, <2>2 DEF Clone, Walk
<1>5. CASE CloneFails
  BY <1>5 DEF CloneFails, GiveUp
<1>6. CASE SetUrl
  <2>1. clone' \in Clones /\ clone'.origin = url
    BY <1>6 DEF SetUrl, Clones
  <2> QED BY <1>6, <2>1 DEF SetUrl
<1>7. CASE Fetch
  <2>1. Fetched = <<url, head[url]>> /\ Fetched \in Revs
    BY <1>7 DEF Fetch, Fetched, Revs
  <2>2. clone' \in Clones /\ clone'.fetched = Fetched
    BY <1>7, <2>1 DEF Fetch, Clones
  <2>3. head[url] \in headThen..head[url]
    BY <1>7 DEF Fetch
  <2> QED BY <1>7, <2>1, <2>2, <2>3 DEF Fetch
<1>8. CASE Reset
  <2>1. clone.fetched \in Revs
    BY <1>8 DEF Reset, Revs
  <2>2. clone' \in Clones /\ clone'.tree = clone.fetched
    BY <1>8, <2>1 DEF Reset, Clones
  <2> QED BY <1>8, <2>2 DEF Reset, Walk
<1>9. CASE CommandFails
  BY <1>9 DEF CommandFails, GiveUp
<1>10. ASSUME NEW f \in unread, ReadFile(f) PROVE GitOK'
  BY <1>10 DEF ReadFile
<1>11. CASE Walked
  BY <1>11 DEF Walked
<1>12. ASSUME NEW f \in matched, Extract(f) PROVE GitOK'
  BY <1>12 DEF Extract
<1>13. CASE Extracted
  BY <1>13 DEF Extracted
<1>14. CASE Over
  BY <1>14 DEF Over, GiveUp
<1>15. CASE UNCHANGED repoVars
  BY <1>15 DEF repoVars
<1> QED BY <1>1, <1>2, <1>3, <1>4, <1>5, <1>6, <1>7, <1>8, <1>9, <1>10, <1>11, <1>12, <1>13, <1>14, <1>15 DEF RepoNext

----------------------------------------------------------------------------
(* The walk *)

LEMMA ScannedIsRevision ==
  ASSUME RepoTypeOK, GitOK, Scanning
  PROVE  clone.tree \in Revs
<1>1. PICK n \in headThen..head[url] : clone.tree = <<url, n>>
  BY DEF GitOK, ScansTheRemote
<1>2. headThen \in 1..head[url] /\ head[url] \in 1..MaxRev /\ url \in Urls
  BY DEF GitOK, Scanning, RepoTypeOK
<1>3. n \in 1..MaxRev
  BY <1>1, <1>2, BoundsAssumption
<1> QED BY <1>1, <1>2, <1>3 DEF Revs

\* Nothing is collected before the first file.
LEMMA NothingCollected ==
  ASSUME RepoTypeOK', GitOK', WalkOK, NEW rev \in Revs, Walk(rev), clone'.tree = rev
  PROVE  WalkOK'
<1>1. (Fitting \ unread)' = {}
  BY DEF Fitting, Walk
<1>2. \A k \in Keys : Declared({}, k) = {}
  BY DEF Declared
<1>3. Collected({})'
  BY <1>2 DEF Collected, Declared, Walk
<1>4. Collected(Fitting \ unread)'
  BY <1>1, <1>3
<1> QED BY <1>1, <1>4 DEF WalkOK, Walk, Fitting

\* One more file, one more file's sources.
LEMMA ReadCollects ==
  ASSUME RepoTypeOK, GitOK, WalkOK, NEW f \in unread, ReadFile(f)
  PROVE  WalkOK'
<1>1. clone.tree \in Revs /\ f \in Tree[clone.tree]
  <2>1. phase = "walk" /\ f \in Tree[clone.tree]
    BY DEF ReadFile, WalkOK
  <2> QED BY <2>1, ScannedIsRevision DEF Scanning
<1>2. Tree' = Tree /\ clone' = clone /\ phase' = "walk" /\ unread' = unread \ {f} /\ Fitting' = Fitting
  BY DEF ReadFile, git, Fitting
<1>3. CASE ~f.fits
  <2>1. (Fitting \ unread)' = Fitting \ unread
    BY <1>2, <1>3 DEF Fitting
  <2>2. sources' = sources /\ matched' = matched /\ refs' = refs
    BY <1>3 DEF ReadFile
  <2>3. Collected(Fitting \ unread)'
    BY <2>1, <2>2 DEF Collected, Declared, WalkOK, ReadFile
  <2> QED BY <1>2, <2>1, <2>2, <2>3 DEF WalkOK, ReadFile
<1>4. CASE f.fits
  <2> DEFINE read == Fitting \ unread
  <2>1. (Fitting \ unread)' = read \cup {f}
    BY <1>1, <1>2, <1>4 DEF Fitting
  <2>2. sources' = PrepareFile(f) /\ refs' = refs
        /\ matched' = IF Match(f) THEN matched \cup {f} ELSE matched
    BY <1>4 DEF ReadFile
  <2>3. ASSUME NEW k \in Keys
        PROVE  IF Declared(read \cup {f}, k) = {} THEN sources'[k] = NoEntry
               ELSE sources'[k] \in Declared(read \cup {f}, k)
    <3>1. Declared(read \cup {f}, k) = Declared(read, k) \cup {f.docs[i].entry : i \in SameKey(f, k)}
      BY DEF Declared
    <3>2. IF Declared(read, k) = {} THEN sources[k] = NoEntry ELSE sources[k] \in Declared(read, k)
      BY DEF WalkOK, Collected, ReadFile
    <3>3. CASE SameKey(f, k) = {}
      <4>1. sources'[k] = sources[k]
        BY <2>2, <3>3 DEF PrepareFile
      <4> QED BY <3>1, <3>2, <3>3, <4>1
    <3>4. CASE SameKey(f, k) # {}
      <4>1. sources'[k] = f.docs[Latest(SameKey(f, k))].entry
        BY <2>2, <3>4 DEF PrepareFile
      <4>2. Latest(SameKey(f, k)) \in SameKey(f, k)
        BY <1>1, <3>4, PreparedEntry
      <4>3. sources'[k] \in {f.docs[i].entry : i \in SameKey(f, k)}
        BY <4>1, <4>2
      <4> QED BY <3>1, <4>3
    <3> QED BY <3>3, <3>4
  <2>4. Collected(Fitting \ unread)'
    BY <2>1, <2>3 DEF Collected, Declared
  <2>5. matched' = {g \in read \cup {f} : Match(g)}
    BY <2>2 DEF WalkOK, ReadFile
  <2> QED BY <1>2, <2>1, <2>2, <2>4, <2>5 DEF WalkOK, ReadFile, Match
<1> QED BY <1>3, <1>4

\* Each matching file leaves the queue as its references come in.
LEMMA ExtractAdds ==
  ASSUME RepoTypeOK, GitOK, WalkOK, NEW f \in matched, Extract(f)
  PROVE  WalkOK'
<1>1. clone' = clone /\ phase' = "extract" /\ sources' = sources /\ Fitting' = Fitting /\ phase = "extract"
  BY DEF Extract, git, Fitting
<1>2. \A k : Declared(Fitting, k)' = Declared(Fitting, k)
  BY <1>1 DEF Declared
<1>3. Collected(Fitting)
  BY <1>1 DEF WalkOK
<1>4. Collected(Fitting)'
  BY <1>1, <1>2, <1>3 DEF Collected
<1>5. \A g : RefsOf(g)' = RefsOf(g)
  BY <1>1 DEF RefsOf, RefsFromRelease, Source
<1>6. f \in Fitting /\ Match(f)
  BY <1>1 DEF WalkOK
<1> QED BY <1>1, <1>4, <1>5, <1>6 DEF WalkOK, Extract

\* What the walk holds of a checkout depends on the checkout and its own state.
LEMMA WalkUnchanged ==
  ASSUME UNCHANGED <<clone, walk>>
  PROVE  /\ Fitting' = Fitting
         /\ Collected(Fitting)' <=> Collected(Fitting)
         /\ Collected(Fitting \ unread)' <=> Collected(Fitting \ unread)
         /\ \A g : RefsOf(g)' = RefsOf(g)
<1>1. clone' = clone /\ unread' = unread /\ sources' = sources
  BY DEF walk
<1>2. Fitting' = Fitting
  BY <1>1 DEF Fitting
<1>3. \A k : Declared(Fitting, k)' = Declared(Fitting, k)
             /\ Declared(Fitting \ unread, k)' = Declared(Fitting \ unread, k)
  BY <1>1, <1>2 DEF Declared
<1>4. Collected(Fitting)' <=> Collected(Fitting)
  BY <1>1, <1>3 DEF Collected
<1>5. Collected(Fitting \ unread)' <=> Collected(Fitting \ unread)
  BY <1>1, <1>3 DEF Collected
<1>6. \A g : RefsOf(g)' = RefsOf(g)
  BY <1>1 DEF RefsOf, RefsFromRelease, Source
<1> QED BY <1>2, <1>4, <1>5, <1>6

LEMMA WalkStep == RepoTypeOK /\ RepoTypeOK' /\ GitOK /\ GitOK' /\ WalkOK /\ [RepoNext]_repoVars => WalkOK'
<1> SUFFICES ASSUME RepoTypeOK, RepoTypeOK', GitOK, GitOK', WalkOK, [RepoNext]_repoVars PROVE WalkOK'
  OBVIOUS
<1>0. ASSUME UNCHANGED <<clone, phase, walk>> PROVE WalkOK'
  <2>1. phase' = phase /\ clone' = clone /\ unread' = unread /\ matched' = matched /\ refs' = refs
    BY <1>0 DEF walk
  <2>2. /\ Fitting' = Fitting
        /\ Collected(Fitting)' <=> Collected(Fitting)
        /\ Collected(Fitting \ unread)' <=> Collected(Fitting \ unread)
        /\ \A g : RefsOf(g)' = RefsOf(g)
    BY <1>0, WalkUnchanged
  <2> QED BY <2>1, <2>2 DEF WalkOK
<1>1. ASSUME phase' \notin {"walk", "extract", "done"} PROVE WalkOK'
  BY <1>1 DEF WalkOK
<1>2. CASE \E u \in Urls : Push(u)
  BY <1>2, <1>0 DEF Push, walk
<1>3. CASE \E u \in Urls : Configure(u)
  BY <1>3, <1>0 DEF Configure, walk
<1>4. CASE Sync \/ CloneFails \/ SetUrl \/ Fetch \/ CommandFails \/ Over
  BY <1>4, <1>1 DEF Sync, CloneFails, SetUrl, Fetch, CommandFails, Over, GiveUp
<1>5. CASE Clone
  <2>1. <<url, head[url]>> \in Revs /\ clone'.tree = <<url, head[url]>> /\ Walk(<<url, head[url]>>)
    BY <1>5 DEF Clone, Revs, RepoTypeOK
  <2> QED BY <2>1, NothingCollected
<1>6. CASE Reset
  <2>1. Walk(clone.fetched) /\ clone' = [clone EXCEPT !.tree = clone.fetched] /\ clone \in Clones
    BY <1>6 DEF Reset, GitOK
  <2>2. clone'.tree = clone.fetched
    BY <2>1 DEF Clones
  <2>3. clone.fetched \in Revs
    BY <1>6, <2>1 DEF Reset, Clones
  <2> QED BY <2>1, <2>2, <2>3, NothingCollected
<1>7. CASE \E f \in unread : ReadFile(f)
  BY <1>7, ReadCollects
<1>8. CASE Walked
  <2>1. phase = "walk" /\ phase' = "extract" /\ unread = {} /\ UNCHANGED <<clone, walk>>
    BY <1>8 DEF Walked
  <2>2. Fitting' = Fitting /\ Fitting \ unread = Fitting
    BY <2>1 DEF Fitting
  <2>3. Collected(Fitting)' /\ matched' = {f \in Fitting : Match(f)} /\ refs' = {}
    BY <2>1, <2>2 DEF Collected, Declared, WalkOK, walk
  <2>4. {g \in Fitting' : Match(g)} \ matched' = {}
    BY <2>2, <2>3
  <2> QED BY <2>1, <2>2, <2>3, <2>4 DEF WalkOK
<1>9. CASE \E f \in matched : Extract(f)
  BY <1>9, ExtractAdds
<1>10. CASE Extracted
  <2>1. phase = "extract" /\ phase' = "done" /\ matched = {} /\ UNCHANGED <<clone, walk>>
    BY <1>10 DEF Extracted
  <2>2. Fitting' = Fitting /\ Collected(Fitting)' /\ \A g : RefsOf(g)' = RefsOf(g)
    BY <2>1, WalkUnchanged DEF WalkOK
  <2> QED BY <2>1, <2>2 DEF WalkOK, walk
<1>11. CASE UNCHANGED repoVars
  BY <1>11, <1>0 DEF repoVars, walk
<1> QED BY <1>2, <1>3, <1>4, <1>5, <1>6, <1>7, <1>8, <1>9, <1>10, <1>11 DEF RepoNext

LEMMA Inductive == RepoSpec => []IInv
<1>1. RepoInit => IInv
  BY InitIInv
<1>2. IInv /\ [RepoNext]_repoVars => IInv'
  <2> SUFFICES ASSUME IInv, [RepoNext]_repoVars PROVE IInv'
    OBVIOUS
  <2>1. RepoTypeOK'
    BY TypeStep DEF IInv
  <2>2. GitOK'
    BY GitStep DEF IInv
  <2>3. WalkOK'
    BY <2>1, <2>2, WalkStep DEF IInv
  <2> QED BY <2>1, <2>2, <2>3 DEF IInv
<1> QED BY <1>1, <1>2, PTL DEF RepoSpec

----------------------------------------------------------------------------
(* Theorems *)

\* Types of all variables of a repository's scan (RepoScan!TypeOK).
THEOREM RepoTypeCorrect == RepoSpec => []RepoTypeOK
<1>1. IInv => RepoTypeOK
  BY DEF IInv
<1> QED BY <1>1, Inductive, PTL

\* Whatever failed, was killed or was reconfigured before, what is scanned is a
\* whole revision of the configured remote, not older than the scan.
THEOREM FreshRevision == RepoSpec => []ScansTheRemote
<1>1. IInv => ScansTheRemote
  BY DEF IInv, GitOK
<1> QED BY <1>1, Inductive, PTL

\* What a release yields is possible, and it yields something if anything is.
LEMMA ReleaseResolves ==
  ASSUME IInv, phase = "done", NEW hr \in AllReleases
  PROVE  /\ Possible(Fitting, hr) # {} => RefsFromRelease(hr) \in Possible(Fitting, hr)
         /\ Possible(Fitting, hr) = {} => RefsFromRelease(hr) = {}
<1>1. CASE hr.from.kind = "inline"
  BY <1>1 DEF Possible, RefsFromRelease
<1>2. CASE hr.from.kind # "inline"
  <2>1. clone.tree \in Revs
    BY ScannedIsRevision DEF IInv, Scanning
  <2>2. OwnKey(hr) \in Keys /\ BareKey(hr) \in Keys
    BY <1>2, <2>1, TreeAssumption DEF AllReleases, Fitting
  <2>3. \A k \in Keys : IF Declared(Fitting, k) = {} THEN sources[k] = NoEntry
                        ELSE sources[k] \in Declared(Fitting, k)
    BY DEF IInv, WalkOK, Collected
  <2>4. \A k \in Keys : Declared(Fitting, k) # {} => sources[k] # NoEntry
    <3> SUFFICES ASSUME NEW k \in Keys, Declared(Fitting, k) # {} PROVE sources[k] # NoEntry
      OBVIOUS
    <3>1. sources[k] \in Declared(Fitting, k)
      BY <2>3
    <3>2. Declared(Fitting, k) \subseteq Entries
      BY <2>1, TreeAssumption DEF Declared, Fitting, SameKey
    <3> QED BY <3>1, <3>2, NoEntryAssumption
  <2>5. CASE Declared(Fitting, OwnKey(hr)) # {}
    BY <1>2, <2>2, <2>3, <2>4, <2>5 DEF Possible, RefsFromRelease, Source
  <2>6. CASE Declared(Fitting, OwnKey(hr)) = {} /\ Declared(Fitting, BareKey(hr)) # {}
    BY <1>2, <2>2, <2>3, <2>4, <2>6 DEF Possible, RefsFromRelease, Source
  <2>7. CASE Declared(Fitting, OwnKey(hr)) = {} /\ Declared(Fitting, BareKey(hr)) = {}
    BY <1>2, <2>2, <2>3, <2>7 DEF Possible, RefsFromRelease, Source
  <2> QED BY <2>5, <2>6, <2>7
<1> QED BY <1>1, <1>2

\* A Flux release resolves whichever file its source is in, for any files, in
\* any order of the walk.
THEOREM OrderIrrelevant == RepoSpec => []SourcesResolve
<1>1. IInv => SourcesResolve
  <2> SUFFICES ASSUME IInv, phase = "done" PROVE SourcesResolve
    BY DEF SourcesResolve
  <2>1. refs = UNION {RefsOf(f) : f \in {g \in Fitting : Match(g)}}
    BY DEF IInv, WalkOK
  <2>2. \A hr \in AllReleases : RefsFromRelease(hr) \subseteq refs
    BY <2>1 DEF AllReleases, RefsOf, Match
  <2>3. ASSUME NEW r \in refs PROVE \E hr \in AllReleases : r \in RefsFromRelease(hr)
    BY <2>1 DEF AllReleases, RefsOf
  <2>4. \A hr \in AllReleases : Possible(Fitting, hr) # {} => \E r \in Possible(Fitting, hr) : r \subseteq refs
    BY <2>2, ReleaseResolves
  <2>5. refs \subseteq UNION UNION {Possible(Fitting, hr) : hr \in AllReleases}
    <3> SUFFICES ASSUME NEW r \in refs PROVE r \in UNION UNION {Possible(Fitting, hr) : hr \in AllReleases}
      OBVIOUS
    <3>1. PICK hr \in AllReleases : r \in RefsFromRelease(hr)
      BY <2>3
    <3>2. RefsFromRelease(hr) \in Possible(Fitting, hr)
      BY <3>1, ReleaseResolves
    <3> QED BY <3>1, <3>2
  <2> QED BY <2>4, <2>5 DEF SourcesResolve
<1> QED BY <1>1, Inductive, PTL
----------------------------------------------------------------------------
(***************************************************************************)
(* Configurations: the documents that may be loaded, of any texts, any     *)
(* number of repositories and any numbers.                                 *)
(***************************************************************************)
Credentials(Texts) ==
  [type : Texts, token : Texts, tokenFile : Texts, username : Texts, password : Texts,
   passwordFile : Texts, sshKey : Texts, knownHosts : Texts]
Repositories(Texts) ==
  [name : Seq(Texts), url : Seq(Texts), path : Seq(Texts), auth : Credentials(Texts)]
Documents(Texts) ==
  [repos : Seq(Repositories(Texts)), updateType : Texts, parallelChecks : Int, scanTimeout : Texts,
   registryAuthFile : Texts, switches : UNION {[keys -> Texts] : keys \in SUBSET Texts}]

\* An error is none of the environments git is run with.
ErrorIsNoEnv == \A header, key, hosts : Env(header, key, hosts) # Refused

LEMMA TrimOnce == \A t : Trim(Trim(t)) = Trim(t)
BY TextsAssumption DEF Trim

(* What git reads from an accepted URL is what it was classified as, in lower case. *)
LEMMA AcceptedTransport ==
  ASSUME NEW u, ClassifyRepoURL(u) # Refused
  PROVE  /\ Lower(GitTransport(u)) \in Transports
         /\ ClassifyRepoURL(u) = "https" => Lower(GitTransport(u)) = "https"
<1>1. ClassifyRepoURL(u) = Scheme(u) /\ Scheme(u) # Refused
  BY DEF ClassifyRepoURL
<1>2. CASE At(u, Mark) # {}
  <2>1. FirstAt(u, Mark) = 2 /\ Lower(u[1]) \in Transports /\ Scheme(u) = Lower(u[1])
    BY <1>1, <1>2 DEF Scheme
  <2>2. GitTransport(u) = u[1]
    BY <1>2, <2>1 DEF GitTransport
  <2> QED BY <1>1, <2>1, <2>2
<1>3. CASE At(u, Mark) = {}
  <2>1. GitTransport(u) \in {"ssh", "file"}
    BY <1>3 DEF GitTransport
  <2>2. Scheme(u) \in {"ssh", "local"}
    BY <1>3 DEF Scheme
  <2>3. Lower("ssh") = "ssh" /\ Lower("file") = "file"
    BY TextsAssumption DEF Lower
  <2> QED BY <1>1, <2>1, <2>2, <2>3 DEF Transports
<1> QED BY <1>2, <1>3

(* A checkout directory is one name, below the workspace. *)
LEMMA SafeDirectory ==
  ASSUME NEW Texts, NEW name \in Seq(Texts), name # <<>>, Head(SafeName(name)) # "."
  PROVE  /\ SafeName(name) \notin {<<>>, <<".">>, <<".", ".">>}
         /\ At(SafeName(name), <<"/">>) = {}
<1> DEFINE dir == SafeName(name)
<1>1. /\ Len(name) \in Nat /\ Len(name) > 0 /\ DOMAIN name = 1 .. Len(name)
  OBVIOUS
<1>2. DOMAIN dir = 1 .. Len(name) /\ \A i \in DOMAIN dir : dir[i] # "/"
  BY <1>1 DEF SafeName, Replaced
<1>3. dir \in Seq(Texts \cup {"-"}) /\ Len(dir) = Len(name)
  BY <1>1 DEF SafeName
<1> HIDE DEF dir
<1>4. Head(dir) = dir[1]
  BY <1>1, <1>3
<1>5. dir # <<>> /\ dir # <<".">> /\ dir # <<".", ".">>
  BY <1>1, <1>3, <1>4 DEF dir
<1>6. ASSUME NEW i \in At(dir, <<"/">>) PROVE FALSE
  <2>1. /\ i \in 1 .. Len(name) /\ SubSeq(dir, i, i + 1 - 1) = <<"/">>
    BY <1>2, <1>6 DEF At
  <2>2. SubSeq(dir, i, i)[1] = dir[i]
    BY <1>3, <2>1
  <2>3. i + 1 - 1 = i /\ <<"/">>[1] = "/"
    BY <1>1, <2>1
  <2>4. dir[i] = "/"
    <3> HIDE <1>6
    <3> QED BY ONLY <2>1, <2>2, <2>3
  <2> QED BY <1>2, <2>1, <2>4
<1> QED BY <1>5, <1>6 DEF dir

LEMMA EnvIs ==
  ASSUME ErrorIsNoEnv, NEW env, NEW header, NEW key, NEW hosts, env = Env(header, key, hosts)
  PROVE  env.header = header /\ env.trusts = hosts /\ env # Refused
BY DEF Env, ErrorIsNoEnv

LEMMA HeaderOnly ==
  ASSUME ErrorIsNoEnv, NEW env, NEW user, NEW secret, env = Env(Header(user, secret), "", "")
  PROVE  env # Refused /\ (env.header # {} <=> secret # "") /\ env.trusts # "first seen"
<1> DEFINE header == Header(user, secret)
<1>1. header # {} <=> secret # ""
  BY DEF Header
<1> HIDE DEF header
<1>2. env = Env(header, "", "")
  BY DEF header
<1> QED BY <1>1, <1>2, EnvIs

(* git is given the declared credential, and only over https. *)
LEMMA AccountSound ==
  ASSUME ErrorIsNoEnv, NEW Texts, NEW repo \in Repositories(Texts), RepoValid(repo)
  PROVE  LET env == AuthEnv(TrimRepo(repo)) IN
         /\ env = Refused => repo.auth.knownHosts \notin ReadableFiles
         /\ env # Refused =>
              /\ env.header # {} <=> Provided(repo.auth) # ""
              /\ env.header # {} => Lower(GitTransport(repo.url)) = "https"
              /\ env.trusts = "first seen" => repo.auth.knownHosts = ""
<1> DEFINE a == repo.auth
           t == Trim(a.type)
           b == TrimRepo(repo).auth
           env == AuthEnv(TrimRepo(repo))
<1>1. /\ b.type = t
      /\ b.token = a.token /\ b.tokenFile = a.tokenFile /\ b.username = a.username
      /\ b.password = a.password /\ b.passwordFile = a.passwordFile
      /\ b.sshKey = a.sshKey /\ b.knownHosts = a.knownHosts
  BY DEF TrimRepo, TrimType, Repositories, Credentials
<1>2. /\ t \in {"", "token", "basic", "ssh"}
      /\ t \in {"token", "basic"} => Lower(GitTransport(repo.url)) = "https"
  BY AcceptedTransport DEF RepoValid, AuthValid
<1>5. CASE t = "token"
  <2> DEFINE secret == Secret(a.token, a.tokenFile)
  <2>1. env = Env(Header("git", secret), "", "") /\ Provided(a) = secret
    BY <1>1, <1>5 DEF AuthEnv, Provided
  <2>2. Lower(GitTransport(repo.url)) = "https"
    BY <1>2, <1>5
  <2> HIDE DEF env, secret
  <2>3. env # Refused /\ (env.header # {} <=> secret # "") /\ env.trusts # "first seen"
    BY <2>1, HeaderOnly
  <2> HIDE DEF a, t
  <2> QED BY <2>1, <2>2, <2>3 DEF a, env
<1>6. CASE t = "basic"
  <2> DEFINE secret == Secret(a.password, a.passwordFile)
  <2>1. env = Env(Header(a.username, secret), "", "") /\ Provided(a) = secret
    BY <1>1, <1>6 DEF AuthEnv, Provided
  <2>2. Lower(GitTransport(repo.url)) = "https"
    BY <1>2, <1>6
  <2> HIDE DEF env, secret
  <2>3. env # Refused /\ (env.header # {} <=> secret # "") /\ env.trusts # "first seen"
    BY <2>1, HeaderOnly
  <2> HIDE DEF a, t
  <2> QED BY <2>1, <2>2, <2>3 DEF a, env
<1>7. CASE t \notin {"token", "basic"}
  <2>1. Provided(a) = ""
    BY <1>7 DEF Provided
  <2>2. CASE t = "ssh" /\ a.sshKey # ""
    <3>1. env = SSHCommand(b)
      BY <1>1, <2>2 DEF AuthEnv
    <3>2. CASE a.knownHosts = ""
      <4>1. env = Env({}, b.sshKey, "first seen")
        BY <1>1, <3>1, <3>2 DEF SSHCommand
      <4> HIDE DEF env
      <4>2. env.header = {} /\ env # Refused
        BY <4>1, EnvIs
      <4> QED BY <2>1, <3>2, <4>2 DEF env
    <3>3. CASE a.knownHosts # "" /\ a.knownHosts \in ReadableFiles
      <4>1. env = Env({}, b.sshKey, a.knownHosts)
        BY <1>1, <3>1, <3>3 DEF SSHCommand
      <4>2. a.knownHosts # "first seen"
        BY <3>3, TextsAssumption
      <4> HIDE DEF env
      <4>3. env.header = {} /\ env.trusts = a.knownHosts /\ env # Refused
        BY <4>1, EnvIs
      <4> QED BY <2>1, <4>2, <4>3 DEF env
    <3>4. CASE a.knownHosts # "" /\ a.knownHosts \notin ReadableFiles
      <4>1. env = Refused
        BY <1>1, <3>1, <3>4 DEF SSHCommand
      <4> QED BY <3>4, <4>1
    <3> QED BY <3>2, <3>3, <3>4
  <2>3. CASE ~ (t = "ssh" /\ a.sshKey # "")
    <3>1. env = Env({}, "", "")
      BY <1>1, <1>7, <2>3 DEF AuthEnv
    <3> HIDE DEF env
    <3>2. env.header = {} /\ env.trusts = "" /\ env # Refused
      BY <3>1, EnvIs
    <3> QED BY <2>1, <3>2 DEF env
  <2> QED BY <2>2, <2>3
<1> QED BY <1>2, <1>5, <1>6, <1>7

(* Loading takes blanks away and fills in what is missing, and nothing else. *)
LEMMA Accepts ==
  ASSUME NEW doc, Load(doc) # Refused
  PROVE  /\ \A key \in DOMAIN doc.switches : doc.switches[key] \in {"unset", "null", "true", "false"}
         /\ ReposValid(doc.repos)
         /\ UpdateType(doc.updateType) \in {"all", "major", "minor", "patch"}
         /\ ScanDeadline(doc.scanTimeout) # Refused
         /\ doc.registryAuthFile \in {""} \cup ReadableFiles
BY DEF Load

Normalised(doc) ==
  [repos |-> [i \in DOMAIN doc.repos |-> TrimRepo(doc.repos[i])],
   updateType |-> UpdateType(doc.updateType),
   parallelChecks |-> IF doc.parallelChecks <= 0 THEN DefaultParallelChecks ELSE doc.parallelChecks,
   scanTimeout |-> doc.scanTimeout, registryAuthFile |-> doc.registryAuthFile, switches |-> doc.switches]

LEMMA LoadNormalises ==
  ASSUME NEW Texts, NEW doc \in Documents(Texts),
         /\ \A key \in DOMAIN doc.switches : doc.switches[key] \in {"unset", "null", "true", "false"}
         /\ ReposValid(doc.repos)
         /\ UpdateType(doc.updateType) \in {"all", "major", "minor", "patch"}
         /\ ScanDeadline(doc.scanTimeout) # Refused
         /\ doc.registryAuthFile \in {""} \cup ReadableFiles
  PROVE  Load(doc) = Normalised(doc)
<1> DEFINE repos == [i \in DOMAIN doc.repos |-> TrimRepo(doc.repos[i])]
           checks == IF doc.parallelChecks <= 0 THEN DefaultParallelChecks ELSE doc.parallelChecks
<1>1. Load(doc) = [doc EXCEPT !.repos = repos, !.updateType = UpdateType(doc.updateType), !.parallelChecks = checks]
  BY Zenon DEF Load
<1>2. DOMAIN doc = {"repos", "updateType", "parallelChecks", "scanTimeout", "registryAuthFile", "switches"}
  BY DEF Documents
<1>3. doc = [x \in DOMAIN doc |-> doc[x]]
  BY DEF Documents
<1> HIDE DEF repos, checks
<1>4. Load(doc) = [repos |-> repos, updateType |-> UpdateType(doc.updateType), parallelChecks |-> checks,
                   scanTimeout |-> doc.scanTimeout, registryAuthFile |-> doc.registryAuthFile,
                   switches |-> doc.switches]
  BY <1>1, <1>2, <1>3
<1> QED BY <1>4 DEF Normalised, repos, checks

(* A repository is accepted with its blanks as it is without them. *)
LEMMA TrimmedValid ==
  ASSUME NEW Texts, NEW repo \in Repositories(Texts)
  PROVE  /\ TrimRepo(repo).name = repo.name /\ TrimRepo(repo).url = repo.url /\ TrimRepo(repo).path = repo.path
         /\ TrimRepo(TrimRepo(repo)) = TrimRepo(repo)
         /\ RepoValid(repo) => RepoValid(TrimRepo(repo))
<1> DEFINE trimmed == TrimRepo(repo)
<1>1. trimmed.name = repo.name /\ trimmed.url = repo.url /\ trimmed.path = repo.path
  BY DEF TrimRepo, Repositories
<1>2. trimmed.auth = [repo.auth EXCEPT !.type = Trim(@)]
  BY DEF TrimRepo, TrimType, Repositories
<1>3. trimmed.auth.type = Trim(repo.auth.type)
  BY <1>2 DEF Repositories, Credentials
<1>4. TrimType(trimmed.auth) = trimmed.auth
  BY <1>2, <1>3, TrimOnce DEF TrimType, Repositories, Credentials
<1>5. TrimRepo(trimmed) = trimmed
  BY <1>4 DEF TrimRepo, Repositories
<1>6. HasCredentials(trimmed.auth) <=> HasCredentials(repo.auth)
  BY <1>2 DEF HasCredentials, Repositories, Credentials
<1>7. ASSUME RepoValid(repo) PROVE RepoValid(trimmed)
  <2>1. \A scheme : AuthValid(repo.auth, scheme) => AuthValid(trimmed.auth, scheme)
    BY <1>3, <1>6, TrimOnce DEF AuthValid
  <2> HIDE DEF trimmed
  <2> QED BY <1>1, <1>7, <2>1 DEF RepoValid
<1> QED BY <1>1, <1>5, <1>7

LEMMA UpdateTypeOnce ==
  ASSUME NEW t, UpdateType(t) \in {"all", "major", "minor", "patch"}
  PROVE  UpdateType(UpdateType(t)) = UpdateType(t)
<1>1. \A u \in {"all", "major", "minor", "patch"} : Trim(u) = u /\ Lower(u) = u /\ u # ""
  BY TextsAssumption DEF Trim, Lower
<1>2. \A u \in {"all", "major", "minor", "patch"} : UpdateType(u) = u
  BY <1>1 DEF UpdateType
<1> QED BY <1>2

LEMMA DeadlineSound ==
  ASSUME NEW text, ScanDeadline(text) # Refused
  PROVE  ScanDeadline(text) >= 0
<1>1. CASE text = ""
  <2>1. ScanDeadline(text) = DefaultScanTimeout
    BY <1>1 DEF ScanDeadline
  <2> QED BY <2>1 DEF DefaultScanTimeout
<1>2. CASE text # "" /\ (text \notin DOMAIN Durations \/ Durations[text] < 0)
  BY <1>2 DEF ScanDeadline
<1>3. CASE text # "" /\ text \in DOMAIN Durations /\ ~ (Durations[text] < 0)
  <2>1. ScanDeadline(text) = Durations[text]
    BY <1>3 DEF ScanDeadline
  <2>2. Durations[text] \in Int
    BY <1>3, TextsAssumption
  <2>3. ScanDeadline(text) \in Int /\ ~ (ScanDeadline(text) < 0)
    BY <1>3, <2>1, <2>2
  <2> QED BY ONLY <2>3
<1> QED BY <1>1, <1>2, <1>3

(* Whatever is loaded is sound. *)
LEMMA LoadedSound ==
  ASSUME ErrorIsNoEnv, NEW Texts, NEW doc \in Documents(Texts)
  PROVE  LoadSound(doc)
<1> DEFINE cfg == Load(doc)
<1> HIDE DEF cfg
<1> SUFFICES ASSUME cfg # Refused PROVE LoadSound(doc)
  BY DEF LoadSound, cfg
<1>1. /\ \A key \in DOMAIN doc.switches : doc.switches[key] \in {"unset", "null", "true", "false"}
      /\ ReposValid(doc.repos)
      /\ UpdateType(doc.updateType) \in {"all", "major", "minor", "patch"}
      /\ ScanDeadline(doc.scanTimeout) # Refused
      /\ doc.registryAuthFile \in {""} \cup ReadableFiles
  BY Accepts DEF cfg
<1>a. ReposValid(doc.repos)
  BY <1>1
<1>b. UpdateType(doc.updateType) \in {"all", "major", "minor", "patch"}
  BY <1>1
<1>c. ScanDeadline(doc.scanTimeout) # Refused
  BY <1>1
<1>2. cfg = Normalised(doc)
  BY <1>1, LoadNormalises DEF cfg
<1>3. /\ DOMAIN doc.repos = 1 .. Len(doc.repos) /\ Len(doc.repos) \in Nat
      /\ \A i \in DOMAIN doc.repos : doc.repos[i] \in Repositories(Texts)
      /\ doc.parallelChecks \in Int
  BY DEF Documents
<1>4. /\ DOMAIN cfg.repos = DOMAIN doc.repos
      /\ \A i \in DOMAIN doc.repos : cfg.repos[i] = TrimRepo(doc.repos[i])
      /\ cfg.parallelChecks > 0
      /\ cfg.updateType = UpdateType(doc.updateType)
      /\ cfg.scanTimeout = doc.scanTimeout /\ cfg.registryAuthFile = doc.registryAuthFile
      /\ cfg.switches = doc.switches
  <2>1. cfg.parallelChecks = IF doc.parallelChecks <= 0 THEN DefaultParallelChecks ELSE doc.parallelChecks
    BY <1>2 DEF Normalised
  <2>2. cfg.parallelChecks > 0
    BY <1>3, <2>1 DEF DefaultParallelChecks
  <2>3. /\ DOMAIN cfg.repos = DOMAIN doc.repos
        /\ \A i \in DOMAIN doc.repos : cfg.repos[i] = TrimRepo(doc.repos[i])
    BY <1>2 DEF Normalised
  <2>4. /\ cfg.updateType = UpdateType(doc.updateType)
        /\ cfg.scanTimeout = doc.scanTimeout /\ cfg.registryAuthFile = doc.registryAuthFile
        /\ cfg.switches = doc.switches
    BY <1>2 DEF Normalised
  <2> QED BY <2>2, <2>3, <2>4
<1>5. \A i \in DOMAIN doc.repos :
        /\ cfg.repos[i].name = doc.repos[i].name /\ cfg.repos[i].url = doc.repos[i].url
        /\ cfg.repos[i].path = doc.repos[i].path
        /\ TrimRepo(cfg.repos[i]) = cfg.repos[i]
        /\ RepoValid(doc.repos[i]) /\ RepoValid(cfg.repos[i])
  <2> SUFFICES ASSUME NEW i \in DOMAIN doc.repos
               PROVE  /\ cfg.repos[i].name = doc.repos[i].name /\ cfg.repos[i].url = doc.repos[i].url
                      /\ cfg.repos[i].path = doc.repos[i].path
                      /\ TrimRepo(cfg.repos[i]) = cfg.repos[i]
                      /\ RepoValid(doc.repos[i]) /\ RepoValid(cfg.repos[i])
    OBVIOUS
  <2>1. doc.repos[i] \in Repositories(Texts) /\ cfg.repos[i] = TrimRepo(doc.repos[i])
    BY <1>3, <1>4
  <2>2. RepoValid(doc.repos[i])
    BY <1>a DEF ReposValid
  <2> QED BY ONLY <2>1, <2>2, TrimmedValid
<1>6. \A i, j \in DOMAIN cfg.repos : i # j => SafeName(cfg.repos[i].name) # SafeName(cfg.repos[j].name)
  <2>1. \A i, j \in DOMAIN doc.repos : i # j => SafeName(doc.repos[i].name) # SafeName(doc.repos[j].name)
    BY <1>a DEF ReposValid
  <2>2. DOMAIN cfg.repos = DOMAIN doc.repos /\ \A i \in DOMAIN doc.repos : cfg.repos[i].name = doc.repos[i].name
    BY <1>4, <1>5
  <2> QED BY ONLY <2>1, <2>2
<1>7. ASSUME NEW i \in DOMAIN cfg.repos
      PROVE  /\ SafeName(cfg.repos[i].name) \notin {<<>>, <<".">>, <<".", ".">>}
             /\ At(SafeName(cfg.repos[i].name), <<"/">>) = {}
  <2>1. i \in DOMAIN doc.repos /\ cfg.repos[i].name \in Seq(Texts)
    BY <1>3, <1>4, <1>5 DEF Repositories
  <2>2. cfg.repos[i].name # <<>> /\ Head(SafeName(cfg.repos[i].name)) # "."
    BY <1>5, <2>1 DEF RepoValid
  <2> QED BY <2>1, <2>2, SafeDirectory
<1>8. ASSUME NEW i \in DOMAIN cfg.repos
      PROVE  LET repo == cfg.repos[i]
                 declared == doc.repos[i].auth
                 env == AuthEnv(repo) IN
             /\ Lower(GitTransport(repo.url)) \in Transports
             /\ env = Refused => repo.auth.knownHosts \notin ReadableFiles
             /\ env # Refused =>
                  /\ env.header # {} <=> Provided(declared) # ""
                  /\ env.header # {} => Lower(GitTransport(repo.url)) = "https"
                  /\ env.trusts = "first seen" => declared.knownHosts = ""
  <2>1. /\ i \in DOMAIN doc.repos /\ doc.repos[i] \in Repositories(Texts)
        /\ cfg.repos[i] = TrimRepo(doc.repos[i]) /\ cfg.repos[i].url = doc.repos[i].url
        /\ RepoValid(doc.repos[i])
    BY <1>3, <1>4, <1>5
  <2>2. cfg.repos[i].auth.knownHosts = doc.repos[i].auth.knownHosts
    BY <2>1 DEF TrimRepo, TrimType, Repositories, Credentials
  <2>3. Lower(GitTransport(doc.repos[i].url)) \in Transports
    BY <2>1, AcceptedTransport DEF RepoValid
  <2>4. LET env == AuthEnv(TrimRepo(doc.repos[i])) IN
         /\ env = Refused => doc.repos[i].auth.knownHosts \notin ReadableFiles
         /\ env # Refused =>
              /\ env.header # {} <=> Provided(doc.repos[i].auth) # ""
              /\ env.header # {} => Lower(GitTransport(doc.repos[i].url)) = "https"
              /\ env.trusts = "first seen" => doc.repos[i].auth.knownHosts = ""
    BY <2>1, AccountSound
  <2> QED BY <2>1, <2>2, <2>3, <2>4
<1>9. ScanDeadline(cfg.scanTimeout) >= 0
  BY <1>4, <1>c, DeadlineSound
<1>10. Load(cfg) = cfg
  <2> DEFINE Loadable == Texts \cup {UpdateType(doc.updateType)} \cup {Trim(t) : t \in Texts}
  <2>1. cfg \in Documents(Loadable)
    <3>1. \A i \in DOMAIN doc.repos : TrimRepo(doc.repos[i]) \in Repositories(Loadable)
      <4> SUFFICES ASSUME NEW i \in DOMAIN doc.repos PROVE TrimRepo(doc.repos[i]) \in Repositories(Loadable)
        OBVIOUS
      <4>1. doc.repos[i] \in Repositories(Texts)
        BY <1>3
      <4>2. Trim(doc.repos[i].auth.type) \in Loadable /\ Texts \subseteq Loadable
        BY <4>1 DEF Repositories, Credentials
      <4> HIDE DEF Loadable
      <4>3. TrimType(doc.repos[i].auth) \in Credentials(Loadable)
        BY <4>1, <4>2 DEF TrimType, Repositories, Credentials
      <4>4. /\ doc.repos[i].name \in Seq(Loadable) /\ doc.repos[i].url \in Seq(Loadable)
            /\ doc.repos[i].path \in Seq(Loadable)
        BY <4>1, <4>2 DEF Repositories
      <4> QED BY <4>1, <4>3, <4>4 DEF TrimRepo, Repositories
    <3>2. [i \in DOMAIN doc.repos |-> TrimRepo(doc.repos[i])] \in Seq(Repositories(Loadable))
      BY <1>3, <3>1
    <3>3. doc.switches \in UNION {[keys -> Loadable] : keys \in SUBSET Loadable}
      <4>1. PICK keys \in SUBSET Texts : doc.switches \in [keys -> Texts]
        BY DEF Documents
      <4>2. Texts \subseteq Loadable
        OBVIOUS
      <4> HIDE DEF Loadable
      <4>3. keys \in SUBSET Loadable /\ doc.switches \in [keys -> Loadable]
        BY <4>1, <4>2
      <4> QED BY <4>3
    <3>4. /\ doc.scanTimeout \in Loadable /\ doc.registryAuthFile \in Loadable
          /\ UpdateType(doc.updateType) \in Loadable
      BY DEF Documents
    <3>5. (IF doc.parallelChecks <= 0 THEN DefaultParallelChecks ELSE doc.parallelChecks) \in Int
      BY <1>3 DEF DefaultParallelChecks
    <3> HIDE DEF Loadable
    <3> QED BY <1>2, <3>2, <3>3, <3>4, <3>5 DEF Normalised, Documents
  <2>2. ReposValid(cfg.repos)
    <3>1. cfg.repos # <<>>
      <4>1. doc.repos # <<>> /\ doc.repos \in Seq(Repositories(Texts))
        BY <1>a DEF ReposValid, Documents
      <4>2. 1 \in DOMAIN cfg.repos
        BY <1>4, <4>1
      <4> QED BY ONLY <4>2
    <3>2. \A i \in DOMAIN cfg.repos : RepoValid(cfg.repos[i])
      BY <1>4, <1>5
    <3> QED BY <1>6, <3>1, <3>2 DEF ReposValid
  <2>3. UpdateType(cfg.updateType) = cfg.updateType
    <3>1. cfg.updateType = UpdateType(doc.updateType)
      BY <1>4
    <3> QED BY ONLY <1>b, <3>1, UpdateTypeOnce
  <2>4. Load(cfg) = Normalised(cfg)
    <3> HIDE DEF Loadable
    <3> QED BY <1>1, <1>4, <2>1, <2>2, <2>3, LoadNormalises
  <2>5. [i \in DOMAIN cfg.repos |-> TrimRepo(cfg.repos[i])] = [i \in DOMAIN doc.repos |-> TrimRepo(doc.repos[i])]
    BY <1>4, <1>5
  <2>6. (IF cfg.parallelChecks <= 0 THEN DefaultParallelChecks ELSE cfg.parallelChecks)
        = (IF doc.parallelChecks <= 0 THEN DefaultParallelChecks ELSE doc.parallelChecks)
    BY <1>2, <1>3 DEF Normalised
  <2>7. Normalised(cfg) = Normalised(doc)
    BY <1>4, <2>3, <2>5, <2>6 DEF Normalised
  <2> QED BY <1>2, <2>4, <2>7
<1> QED BY <1>4, <1>6, <1>7, <1>8, <1>9, <1>10 DEF LoadSound, cfg

(***************************************************************************)
(* Whatever document is accepted, of any number of repositories with any   *)
(* names, URLs and auth blocks, the scan gets what it relies on            *)
(* (config.go:92, gitsync.go:118).                                         *)
(***************************************************************************)
THEOREM LoadedIsSound ==
  ASSUME ErrorIsNoEnv, NEW Texts, config # NoConfig => config \in Documents(Texts)
  PROVE  EveryLoadSound
BY LoadedSound DEF EveryLoadSound
=============================================================================
