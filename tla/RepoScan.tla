------------------------------ MODULE RepoScan ------------------------------
(***************************************************************************)
(* The scan of one repository: Syncer.Sync brings a checkout up to date    *)
(* that earlier scans may have left anywhere (git_cache_dir), scanDir      *)
(* walks it file by file, collecting Flux sources, and then extracts the   *)
(* references of the matching files, Flux releases resolved against those  *)
(* sources.  Commits are pushed meanwhile, the configured URL changes      *)
(* between scans, and every git command may fail or be killed by its       *)
(* timeout.                                                                *)
(*                                                                         *)
(* A revision is a remote and a number; what a revision holds is given by  *)
(* the constant Tree.  The files of a checkout are read in any order: a    *)
(* walk is in the order of names, and names are arbitrary.  What git       *)
(* leaves behind is external, as git is.                                   *)
(***************************************************************************)
EXTENDS Integers, Sequences

CONSTANTS
  Urls,        \* remotes a repository may be configured with
  MaxRev,      \* bound: commits of a remote
  MaxScans,    \* bound: scans of the repository
  Keys,        \* Flux sources: <<kind, namespace, name>>
  Entries,     \* what a source says: repository, chart and version
  Tree,        \* revision -> its files
  NoUrl, NoRev, Mixed, NoClone, NoEntry   \* model values for "none"

Revs == Urls \X (1..MaxRev)
Locks == {"config", "shallow", "index"}

\* A file has documents, in order, and fits the limit of readCapped or not.
Sources(f) == {i \in DOMAIN f.docs : f.docs[i].kind \in {"HelmRepository", "OCIRepository"}}
Releases(f) == {f.docs[i] : i \in {j \in DOMAIN f.docs : f.docs[j].kind = "HelmRelease"}}
KeyOf(doc) == <<doc.kind, doc.ns, doc.name>>

\* The source a release names, in its own namespace unless it says otherwise,
\* and the one without a namespace.
OwnKey(hr) == <<hr.from.kind, IF hr.from.ns = "" THEN hr.ns ELSE hr.from.ns, hr.from.name>>
BareKey(hr) == <<hr.from.kind, "", hr.from.name>>

ASSUME BoundsAssumption == MaxRev \in Nat \ {0} /\ MaxScans \in Nat

ASSUME TreeAssumption ==
  \A rev \in Revs : \A f \in Tree[rev] :
    /\ Len(f.docs) \in Nat /\ DOMAIN f.docs = 1..Len(f.docs)
    /\ \A i \in Sources(f) : f.docs[i].entry \in Entries
    /\ \A hr \in Releases(f) : hr.from.kind # "inline" => {OwnKey(hr), BareKey(hr)} \subseteq Keys

ASSUME NoEntryAssumption == NoEntry \notin Entries

VARIABLES
  head,      \* the newest commit of each remote
  url,       \* the configured remote
  clone,     \* the checkout in the cache directory
  phase,        \* what the scan does next
  scans,     \* scans that were started
  headThen,  \* the head of the configured remote when the scan began
  unread,    \* files the walk has still to come to
  sources,   \* the FluxCD extractor's maps
  matched,   \* files to extract from
  refs       \* references found

repoVars == <<head, url, clone, phase, scans, headThen, unread, sources, matched, refs>>
git == <<clone, phase>>
walk == <<unread, sources, matched, refs>>
world == <<head, url, scans, headThen>>

Clones == [origin : Urls \cup {NoUrl}, fetched : Revs \cup {NoRev},
           tree : Revs \cup {NoRev, Mixed}, locks : SUBSET Locks]

RepoInit ==
  /\ head = [u \in Urls |-> 1]
  /\ url \in Urls
  /\ clone = NoClone
  /\ phase = "idle"
  /\ scans = 0
  /\ headThen = 0
  /\ unread = {}
  /\ sources = [k \in Keys |-> NoEntry]
  /\ matched = {}
  /\ refs = {}

Push(u) ==
  /\ head[u] < MaxRev
  /\ head' = [head EXCEPT ![u] = @ + 1]
  /\ UNCHANGED <<url, clone, phase, scans, headThen, walk>>

\* The configuration is read when a scan starts.
Configure(u) ==
  /\ phase = "idle"
  /\ url' = u
  /\ UNCHANGED <<head, clone, phase, scans, headThen, walk>>

----------------------------------------------------------------------------
(* Sync *)

\* A .git directory decides between fetch and clone.
Sync ==
  /\ phase = "idle"
  /\ scans < MaxScans
  /\ scans' = scans + 1
  /\ headThen' = head[url]
  /\ phase' = IF clone = NoClone THEN "clone" ELSE "set-url"
  /\ UNCHANGED <<head, url, clone, walk>>

\* scanDir starts with fresh extractors and the files of the checkout.
Walk(rev) ==
  /\ phase' = "walk"
  /\ unread' = Tree[rev]
  /\ sources' = [k \in Keys |-> NoEntry]
  /\ matched' = {}
  /\ refs' = {}

\* A failed command fails the repository.
GiveUp == phase' = "idle" /\ UNCHANGED walk

Clone ==
  /\ phase = "clone"
  /\ clone' = [origin |-> url, fetched |-> NoRev, tree |-> <<url, head[url]>>, locks |-> {}]
  /\ Walk(<<url, head[url]>>)
  /\ UNCHANGED world

\* git removes what it made when a clone fails, and cannot when it is killed.
CloneFails ==
  /\ phase = "clone"
  /\ clone' \in {NoClone}
       \cup [origin : {NoUrl, url}, fetched : {NoRev}, tree : {NoRev, Mixed}, locks : SUBSET Locks]
  /\ GiveUp
  /\ UNCHANGED world

\* The lock file a killed command left behind stops the next command.
Unlocked(lock) == lock \notin clone.locks

SetUrl ==
  /\ phase = "set-url"
  /\ clone.origin # NoUrl
  /\ Unlocked("config")
  /\ clone' = [clone EXCEPT !.origin = url]
  /\ phase' = "fetch"
  /\ UNCHANGED <<walk, world>>

Fetched == <<clone.origin, head[clone.origin]>>

Fetch ==
  /\ phase = "fetch"
  /\ Unlocked("shallow")
  /\ clone' = [clone EXCEPT !.fetched = Fetched]
  /\ phase' = "reset"
  /\ UNCHANGED <<walk, world>>

Reset ==
  /\ phase = "reset"
  /\ Unlocked("index")
  /\ clone.fetched # NoRev
  /\ clone' = [clone EXCEPT !.tree = clone.fetched]
  /\ Walk(clone.fetched)
  /\ UNCHANGED world

\* What a command that fails or is killed leaves: set-url the old or the new
\* URL; fetch the old FETCH_HEAD, none, or the new one; reset any mixture.
Leftover ==
  CASE phase = "set-url" -> {[clone EXCEPT !.origin = u] : u \in {clone.origin} \cup
                            (IF clone.origin = NoUrl THEN {} ELSE {url})}
    [] phase = "fetch"   -> {[clone EXCEPT !.fetched = r] : r \in {clone.fetched, NoRev, Fetched}}
    [] phase = "reset"   -> {clone, [clone EXCEPT !.tree = Mixed]}

LockOf == CASE phase = "set-url" -> "config" [] phase = "fetch" -> "shallow" [] phase = "reset" -> "index"

(* Mutant: A failed fetch is only logged: whatever FETCH_HEAD says is checked out. *)
CommandFailsFetchAnyway ==
  /\ phase \in {"set-url", "fetch", "reset"}
  /\ \E left \in Leftover : clone' = left
  /\ phase' = IF phase = "fetch" THEN "reset" ELSE "idle"
  /\ UNCHANGED <<walk, world>>

CommandFails ==
  /\ phase \in {"set-url", "fetch", "reset"}
  /\ \E left \in Leftover, locks \in {clone.locks, clone.locks \cup {LockOf}} :
       clone' = [left EXCEPT !.locks = locks]
  /\ GiveUp
  /\ UNCHANGED world

----------------------------------------------------------------------------
(* The walk and the extraction *)

Latest(S) == CHOOSE i \in S : \A j \in S : j <= i
SameKey(f, k) == {i \in Sources(f) : KeyOf(f.docs[i]) = k}

\* A later document replaces what was collected under its key.
PrepareFile(f) ==
  [k \in Keys |-> IF SameKey(f, k) = {} THEN sources[k] ELSE f.docs[Latest(SameKey(f, k))].entry]

Match(f) == Releases(f) # {}

ReadFile(f) ==
  /\ phase = "walk"
  /\ f \in unread
  /\ unread' = unread \ {f}
  /\ IF f.fits
     THEN /\ sources' = PrepareFile(f)
          /\ matched' = IF Match(f) THEN matched \cup {f} ELSE matched
     ELSE UNCHANGED <<sources, matched>>
  /\ UNCHANGED <<git, world, refs>>

(* Mutant: Releases are resolved while the tree is still walked. *)
WalkedEarly ==
  /\ phase = "walk"
  /\ phase' = "extract"
  /\ UNCHANGED <<clone, walk, world>>

Walked ==
  /\ phase = "walk"
  /\ unread = {}
  /\ phase' = "extract"
  /\ UNCHANGED <<clone, walk, world>>

\* A source of the namespace wins over one without.
Source(hr) == IF sources[OwnKey(hr)] # NoEntry THEN sources[OwnKey(hr)] ELSE sources[BareKey(hr)]

\* A reference, or none when the chart or its version is unknown.
ReleaseRef(hr, chart, version, repo) ==
  IF chart = "" \/ version = "" THEN {}
  ELSE {[release |-> hr.name, chart |-> chart, version |-> version, repo |-> repo]}

\* hr.from is the chartRef, the sourceRef or, with kind "inline", the repoURL.
RefWith(hr, entry) ==
  IF hr.from.kind = "OCIRepository" THEN ReleaseRef(hr, entry.chart, entry.version, entry.repo)
  ELSE ReleaseRef(hr, hr.chart, hr.version, entry.repo)

RefsFromRelease(hr) ==
  IF hr.from.kind = "inline" THEN ReleaseRef(hr, hr.chart, hr.version, hr.from.name)
  ELSE IF Source(hr) = NoEntry THEN {} ELSE RefWith(hr, Source(hr))

RefsOf(f) == UNION {RefsFromRelease(hr) : hr \in Releases(f)}

Extract(f) ==
  /\ phase = "extract"
  /\ f \in matched
  /\ matched' = matched \ {f}
  /\ refs' = refs \cup RefsOf(f)
  /\ UNCHANGED <<git, unread, sources, world>>

\* Every reference was extracted; the lookups follow.
Extracted ==
  /\ phase = "extract"
  /\ matched = {}
  /\ phase' = "done"
  /\ UNCHANGED <<clone, walk, world>>

\* The scan is over, or its process died while it walked.
Over ==
  /\ phase \in {"walk", "extract", "done"}
  /\ GiveUp
  /\ UNCHANGED <<clone, world>>

RepoNext ==
  \/ \E u \in Urls : Push(u) \/ Configure(u)
  \/ Sync
  \/ Clone \/ CloneFails
  \/ SetUrl \/ Fetch \/ Reset \/ CommandFails
  \/ \E f \in unread : ReadFile(f)
  \/ Walked
  \/ \E f \in matched : Extract(f)
  \/ Extracted
  \/ Over

RepoSpec == RepoInit /\ [][RepoNext]_repoVars

----------------------------------------------------------------------------
(* Properties *)

\* Types of all variables; what the walk holds are files of some revision.
RepoTypeOK ==
  /\ head \in [Urls -> 1..MaxRev]
  /\ url \in Urls
  /\ clone \in Clones \cup {NoClone}
  /\ phase \in {"idle", "clone", "set-url", "fetch", "reset", "walk", "extract", "done"}
  /\ scans \in 0..MaxScans
  /\ headThen \in 0..MaxRev
  /\ unread \cup matched \subseteq UNION {Tree[r] : r \in Revs}
  /\ sources \in [Keys -> Entries \cup {NoEntry}]

Scanning == phase \in {"walk", "extract", "done"}

\* A scan reads one whole revision of the remote configured now, no older than
\* the head when the scan began, whatever earlier scans, failures and kills left
\* in the cache (gitsync.go: set-url, fetch and reset, each only after the other).
ScansTheRemote ==
  Scanning => clone.tree \in {<<url, n>> : n \in headThen..head[url]}

\* The sources that files declare under a key.
Declared(files, k) == UNION {{f.docs[i].entry : i \in SameKey(f, k)} : f \in files}

\* What a release may yield: the reference with a source of the namespace it
\* names, or else with one without a namespace.
Possible(files, hr) ==
  IF hr.from.kind = "inline" THEN {ReleaseRef(hr, hr.chart, hr.version, hr.from.name)}
  ELSE LET own == Declared(files, OwnKey(hr))
       IN  {RefWith(hr, e) : e \in IF own # {} THEN own ELSE Declared(files, BareKey(hr))}

Fitting == {f \in Tree[clone.tree] : f.fits}
AllReleases == UNION {Releases(f) : f \in Fitting}

\* A release yields its reference whichever file declares its source, read
\* before or after the release, and no reference comes from anywhere else
\* (runner.go: collectFiles prepares every file before extractChecks begins).
SourcesResolve ==
  phase = "done" =>
    /\ \A hr \in AllReleases : Possible(Fitting, hr) # {} => \E r \in Possible(Fitting, hr) : r \subseteq refs
    /\ refs \subseteq UNION UNION {Possible(Fitting, hr) : hr \in AllReleases}

----------------------------------------------------------------------------
(* The inductive invariant *)

\* What git holds at each step of Sync, and that a scan reads a fresh revision.
GitOK ==
  /\ phase # "idle" => headThen \in 1..head[url]
  /\ phase \in {"set-url", "fetch", "reset"} \/ Scanning => clone \in Clones
  /\ phase = "fetch" => clone.origin = url
  /\ phase = "reset" => clone.fetched \in {<<url, n>> : n \in headThen..head[url]}
  /\ ScansTheRemote

\* The extractor holds, of each key, a source of the files it was shown.
Collected(files) ==
  \A k \in Keys : IF Declared(files, k) = {} THEN sources[k] = NoEntry
                  ELSE sources[k] \in Declared(files, k)

\* The extractor's view grows with the walk, and is whole before extraction.
WalkOK ==
  /\ phase = "walk" =>
       /\ unread \subseteq Tree[clone.tree]
       /\ Collected(Fitting \ unread)
       /\ matched = {f \in Fitting \ unread : Match(f)}
       /\ refs = {}
  /\ phase \in {"extract", "done"} =>
       /\ Collected(Fitting)
       /\ matched \subseteq {f \in Fitting : Match(f)}
       /\ refs = UNION {RefsOf(f) : f \in {g \in Fitting : Match(g)} \ matched}
  /\ phase = "done" => matched = {}

IInv == RepoTypeOK /\ GitOK /\ WalkOK
=============================================================================
