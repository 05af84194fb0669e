# Verification of update-checker

TLA+ models of update-checker, the checks TLC makes of them on small instances
and the theorems TLAPS proves for every value of their constants. Every module
names the code it models; `PROJECT.json` maps each definition to its lines.

    tlc -workers 2 -config ReportWriter.cfg MCReportWriter.tla
    tlapm ReportWriterProofs.tla

## The system

update-checker is one binary. `scan` walks the configured git repositories,
extracts the versions they pin (Helm charts, Flux sources, images), asks the
registries for newer ones and stores a report per repository and per
reference. `dashboard` polls the stored reports, serves them as JSON, a UI and
Prometheus metrics, and starts scans. In a cluster reports are custom resources
and a scan is a Job; locally reports are files and a scan is a child process.

| Component (code) | State | Operations | Talks to | What makes it correct |
|---|---|---|---|---|
| Scan process (`cmd/update-checker/main.go`, `internal/scan/runner.go`) | context, semaphore, per-repository results, what was recorded, exit status | prune, dispatch, scan, record, collect, account, exit | scan lock, writer, git, registry cache | every repository accounted for once; nothing cut short is a success; the exit status tells |
| Report writer (`internal/report/writer.go`) | the stored `RepositoryScan` and `Dependency` objects | `Repo`, `Prune` | report store | report, counts and history agree; dates survive; failed scans keep reports; a Prune loses no handle |
| Stores and poller (`file.go`, `kube.go`, `poller.go`) | files or custom resources, API server caches, the snapshot | list, put, delete, load | writer, dashboard | a snapshot is never older than the run it shows, and catches up |
| Registry cache (`internal/registry/registry.go`, `charts.go`) | memo per key, flights, download slot | look up, fetch, memoize | registries | one fetch and one answer per key; every lookup returns |
| Scan lock (`internal/kube/kube.go`) | a Lease, every candidate's clock | acquire, renew, lose, refuse, release | API server | the Lease has one holder, and a scan without it ends; refused only because of another one; a holder that died is replaced |
| Scan trigger (`internal/trigger`) | Jobs, the cached "running" answer; a child process and its flag | click, status, interval | API server, dashboard | nothing accepted beside an unfinished scan; the status does not hide it; one child, killed with its dashboard |
| Image and chart lookups (`internal/registry/*.go`) | memoized listings | compare tags, walk listings, verify candidates | registries | the newest version of the same kind, within budgets |
| Extractors (`internal/extractor`) | Flux sources of a repository | extract, resolve | runner | order of files is irrelevant |
| Git sync (`internal/gitsync`) | cached checkouts | clone, fetch, reset | git | a checkout that failed halfway is not trusted |
| Dashboard process (`runDashboard`, `internal/api/server.go`) | the server's phase, the process context | start, drain, shut down, fail | trigger, Leader, poller | a stop ends it and its scan |
| Leader (`internal/kube/kube.go`) | the flag of each replica | campaign, lead, lose | API server, metrics | followers are silent, and again and again one replica exports |
| Metrics (`internal/metrics`) | none of its own | collect | poller, Leader | the registry accepts every scrape; updates and failures are told |
| Configuration (`internal/config`) | read once | load | scan, git sync | directories of their own; credentials only where the transport encrypts |
| Error kinds (`internal/errkind`) | none | wrap, classify | all | a failure is told by its cause |
| Middleware, memory limit | none | | | small sequential code |

What is hard: the deadline, SIGTERM and the loss of the Lease may come between
any two steps of a scan; a process may die between two writes; requests fail,
lists are stale; two releases share a namespace; two clicks race; lookups nest
and wait for each other; leases are measured with clocks nobody compares;
callbacks run when they like; a dashboard stops while it starts a child; the
text of a document, a URL or an error chain is read in two places that must
agree.
`PROJECT.json` lists each of these hazards at its line with the properties that
would catch it going wrong.

## Modules

| Module | Models | Composes / proved in |
|---|---|---|
| `ReportWriter` | `Writer.Repo` and `Writer.Prune`, one action per call of the Backend, several releases, crashes and failing calls | `MCReportWriter`; `ReportWriterProofs` |
| `ScanRun` | `runScan` and `Runner.Run`: main goroutine, workers, deadline, cancellation | `MCScanRun`, `MCScanProcess`; `ScanRunProofs` |
| `IndexCache` | `getOrDo` with its memo and singleflight, and the download slot | `MCIndexCache`, `MCRegistry`; `RegistryProofs` |
| `ScanMutex` | what the scan lock promises: a scan enters when none runs | abstract specification of `ScanLock` |
| `ScanLock` | `Env.Lock` and the client-go elector under it, in discrete time | refines `ScanMutex` but for scans that lose the Lease; `MCScanProcess`; `ScanLockProofs` |
| `ReportFlow` | a scan that writes or prunes a report, the caches of API servers and a dashboard's `Poller` | `MCDashboard`; `ReportFlowProofs` |
| `ScanTrigger` | `trigger.Kubernetes` behind the trigger and status handlers, on several replicas, beside the CronJob | `MCScanTrigger`; `ScanTriggerProofs` |
| `RepoScan` | the scan of one repository: `Syncer.Sync` on a checkout that earlier scans left, the walk, and Flux's two phases | `MCRepoScan`, `MCScanProcess`; `RepoScanProofs` |
| `ImageTags` | what makes tags comparable, which is newer, where listings are entered: operators only | extended by `ImageCheck` |
| `ImageCheck` | `lookupImage`: metadata, windows of the tag listing with their budgets, ranking and verification | `MCImageCheck`, `MCRegistry`; `RegistryProofs` |
| `ChartCheck` | `checkChart`: the newest chart version in scope, the bump, and the kind of a failure: operators on the variable `chart` | extended by `MCImageCheck`; `RegistryProofs` |
| `RepoConfig` | `config.Load` and what git is run with for an accepted repository: operators on the variable `config` | extended by `MCRepoScan`; `RepoScanProofs` |
| `Dashboard` | the dashboard process: server, local scans as children under the file lock, campaigns of `Env.Leader` | `MCDashboard`; `DashboardProofs` |
| `Metrics` | `ResultCollector.Collect` as the samples of a snapshot: operators on the variable `scraped` | extended by `MCDashboard`; `DashboardProofs` |

`ScanRun` is the outermost: one of its worker steps is a run of `RepoScan`,
whose references are looked up by calls of `IndexCache` (an image lookup being an
`ImageCheck`), and one of its records is a `Repo` call of `ReportWriter`.
`ScanLock`, `ScanTrigger` and `Dashboard` decide when it runs; `ReportFlow` and
`Metrics` show what it wrote. They are separate modules because the state they share is small (an
outcome, a report) and their products are beyond a model checker. `MCScanProcess`,
`MCRegistry` and `MCDashboard` extend several of them and check them in one run, a
scene each; parts in different scenes share no variable.

How state and actions correspond to the code:

* **ReportWriter**. `scans` and `deps` are the objects in the store with their
  owner label; `call` is the program counter of the one `Repo` or `Prune` call
  of a scan. Listing, comparing (`same`), putting and deleting are steps of
  their own because each is a Backend call that may fail or be the last; the
  computation of a report from the previous one (`next`) is the operator
  `NextDep`. Times are scan numbers, digests and versions members of small
  sets. A reference's identity is its report name; `NamesOf` lets two
  references share one.
* **ScanRun**. `pc` and `nxt` are the main goroutine in `runConcurrent`,
  `worker` the goroutine of each repository. `ctxErr` is the error of the
  Runner's context, `cancelled` that of the process. Writing a report is one
  step that stores or fails (`ReportWriter` gives its steps). Repositories that
  were "interrupted" are dropped as in `Run`, and `runScan`'s loop afterwards
  blames what `done` does not hold.
* **IndexCache**. `pc` walks a call through `fresh`, `singleflight.Do`, the
  second look, the slot, the fetch and the memo; `flight` is the singleflight
  group, `memo` the stores. `asked` and `unkept` count fetches, for the
  properties only. `Parent` says which call's fetch makes which other call.
* **ScanLock**. One unit of time is at least a retry period; an elector that
  reaches the API server does its work within a unit; `flaky`, chosen initially,
  says whether requests may fail. `seen` and `age` are what a candidate has observed of the
  Lease's record, `since` the holder's time without a renewal. An elector that
  cannot renew gives the Lease up first (`Relinquish`, a request of
  `ReleaseOnCancel` that may fail or hang) and ends the context that `Lock`
  returned only then (`Cut`); a scan that is over, or told to stop, ends the
  context first and waits in `Stopped` for the release. `stage = "deaf"` is a
  `Lock` whose caller was told to stop (it still waits for the timer). The
  elector's own actions follow client-go as configured in `kube.go:93`.
* **ReportFlow**. An object in the store is the number of the scan that wrote
  it. The writer stores references, deletes stale ones and writes the
  `RepositoryScan` last; a Prune deletes it last; the poller lists repositories
  first. Files are read one by one and may vanish; when `cached` was chosen
  initially, a list is answered by any API server from the cache it has for the
  kind, and the caches follow the store independently (`ResourceVersion "0"`,
  `kube.go:100`).
* **ScanTrigger**. A click is three requests, `GetCronJob`, `ListJobs` and
  `CreateJob`, and the answer kept under the mutex; `poll` is `Running` while
  it holds the mutex. A Job's name is the second it was created in.
* **RepoScan**. `clone` is the cached checkout: its remote (`origin`), FETCH_HEAD
  (`fetched`), working tree (`tree`, which may be a mixture) and lock files.
  `Leftover` is what a command that failed or was killed by its timeout leaves.
  Each git command is a step, as each is a process of its own. `unread` holds the
  files the walk has to come to, in any order; `sources` is the Flux extractor's
  maps, keyed by kind, namespace and name. A file's documents are ordered, since
  a later one replaces what an earlier one declared.
* **ImageTags, ImageCheck**. A tag is the shape `classifyTag` computes. Texts are
  sequences of characters in ASCII order, where a word is one character, because
  registries list tags by their spelling and the code enters listings at texts
  it builds (`Anchors`). `anchors`, `after`, `page` and `budget` are the loops of
  `imageTags` and `walk`; `note` holds the kinds of caveats of `ImageInfo.Note`;
  `skipped` the rejected candidates. What metadata, vendor APIs and signatures say
  against a candidate is chosen freely (`Signals`), while siblings and jumps are
  computed from the tags.
* **Dashboard**. `server` is where `Server.Run` is, `cancelled` the context of
  `main`, `running` the flag of `trigger.Process`. `job` follows the call of
  `Trigger` that won the flag (`won`, `forking`) into the child it starts
  (`child`, `scanning` once it has the file lock, `dead` until it is waited for);
  a click and the interval are two callers. A process that vanishes leaves its
  children. `starting` counts goroutines of `OnStartedLeading` that have not run;
  `elector` is `LeaderElector.Run`, whose own steps are external, and `Lose` is
  a failed renewal or a release, both before `OnStoppedLeading`. A process lives
  once: a restarted one is another member of `Dashboards`.
* **Metrics, ChartCheck, RepoConfig**. These parts keep no state, so they are
  operators on one input, and a variable that never changes holds the input:
  `scraped`, `chart` (a reference with its registry's answer), `config` (a document). A
  snapshot's order matters, since `Collect` keeps the first of the samples that
  look alike. A failure is what its error chain holds. Names and URLs are
  sequences of characters, because the code and git split them at characters;
  every other text is a value.

## Runs

Passing runs, and what each shows on its instance:

| Run | Bounds | Shows |
|---|---|---|
| `ReportWriter`, scene "one" | 1 release, 1 repository, 2 references, 3 `Repo` calls, history of 2; a crash or a failing call at every step | `StatusAgrees`, `RecordedExactly`, `CarriedOver`, `FailureKeepsReports` |
| the same, "many" | 3 releases (one unlabelled) that scan after each other, 2 repositories that leave and rejoin configurations, 3 `Repo` calls, Prune cut short anywhere | `NoLostHandle`, `PrunedMeansGone` |
| `ScanProcess`, scene "run" | 3 repositories, 2 slots, every outcome, deadline and cancellation anywhere | `RecordedOnce`, `NoTruncatedReport`, `AllAccounted`, `CancelBlamesNobody`, `ExitZeroMeansAllSucceeded`, `Terminates`, type |
| the same, "lock" | 2 processes, durations 3 and 2, an API server that answers or one that fails at will | `HoldersExclude` (refinement of `ScanMutex`), `RefusedMeansHeld`, `ExitedHoldsNothing`, `EveryProcessEnds` |
| the same, "repository" | 2 remotes with 2 commits each, 3 scans, every git command failing or killed; 3 and 5 files with sources of both kinds before and after their releases, twice, in other namespaces, in a file that is too large | `ScansTheRemote`, `SourcesResolve` |
| the same, "document" | one repository with 12,000 URLs of words and the characters the code splits at, with a scheme in either case, with 1,700 auth blocks on three transports, or with any options; two with any names of up to 3 characters | `EveryLoadSound` |
| `Registry`, scene "image" | up to 3 of 12 tags, 6 requests, pages of 1 tag, 2 pages a walk, 4 pages in all, 2 candidates; listings with a cursor, without, and whole; every request failing | `NoSilentMiss`, `BestOffered`, type |
| the same, "chart" | versions over 2 majors, minors and patches, a pre-release, 3 constraint operators, lists of up to 3 tags, every scope, every kind of failure and protocol | `EveryChartAnswerSound` |
| the same, "lookups" | 2 lookups of one image, one of which nests a third, 2 index files behind 1 slot, registries that hang, a cancellation | `AskedOnce`, `SameAnswer`, `EveryCallReturns` |
| `ScanTrigger` | 2 clicks on 2 replicas, failing requests, 3 seconds with an answer kept for 2 | `AcceptedAfterOthers`, `AcceptedIsShown`, `IdleIsRecent` |
| `Dashboard`, scene "processes" | 2 dashboards, one with an interval, a command line; 2 pending callbacks each; signals, crashes, failing starts and listeners anywhere | `RunningTellsTheChild`, `StoppingStopsTheScan`, `NeverStuck`, `SomeoneExports` |
| the same, "polls" | 2 scans or Prunes of 2 references in files, or of 1 reference behind 2 API servers that lag and fail | `SnapshotCoversRun`, `NeverBackwards`, `EventuallyShown` |
| the same, "scrape" | up to 2 results or 2 repositories, with paths that are cut to one label and a kind outside the vocabulary | `EveryScrapeTells` |

A scene is chosen initially and kept. The scenes of `ReportWriter` are parts of
one model whose product is beyond TLC; the others are modules of their own, and a
pure function is evaluated once per input, in a state of its own. Type
invariants are proved; `ScanProcess` and `Registry` check two of them as well.

The bounds suffice for what each property relates: two `Repo` calls on one
reference make every pair of "previous" and "next" report, a third shows what a
middle one lost; two actors make every race of check and act; a third
repository waits for a slot when there are two; two results are
enough to look alike, and two dashboards to hold a Lease after each other.
One reference is enough behind API servers, where lists of the two kinds promise
nothing about each other. Constraints with a caret are on majors from 1 (below, a
caret holds the minor). `None`, `NoScan`, `NoDep` and
`Free` are model values for "nothing". With `LeaseDuration = 3` and
`RenewDeadline = 2` the ratio is that of 15 s and 10 s. `MaxClock`, `MaxScans`
and `MaxTime` bound what would otherwise count for ever. Deadlock is not
checked: a scan process, a lookup and a click are over at some point, and
behaviours end at those bounds or when every dashboard is gone.

Runs that TLC refutes, each a place where the code does not do what a comment
or a document says (`findings` in `PROJECT.json` has the quotes):

| Run | What happens |
|---|---|
| `ReportWriterOrphan` | a first scan cut short leaves dependencies no Prune reaches |
| `ReportWriterOwner` | two releases, each under the Lease of its own, scan a repository of one name at once; both find no owner (`writer.go:91` reads it first, the report is written last), and the later write takes over a report that `architecture.md:115` says is refused |
| `ScanRunTooLarge` | a repository that fails as `too_large` leaves exit status 0 |
| `ScanLockOverlap` | a scan whose renewals fail gives the Lease up while its context is alive, and another scan begins beside it |
| `ImageZeroMajor` | 0.10.0-alpine3 is not found from 0.9.1-alpine3, and the answer has no caveat |
| `MetricsFailed` | a failed check has no series when a reference with skipped tags that looks the same came first |
| `DashboardFollowers` | `OnStartedLeading`, a goroutine, runs after `OnStoppedLeading`: a replica that campaigns exports, until it leads again |

The models show further behaviour that no run forbids, worth knowing when a
property is read:

* `outdated_since` restarts when a check fails in between (`writer.go:175`;
  `types.go:109` says "first scan that found it behind"), so `CarriedOver` is
  about successive reports.
* A registry that times out is asked again by every lookup, because a client's
  timeout looks like the scan's own deadline (`registry.go:101`; the comment at
  `registry.go:15` says it is asked once), so `AskedOnce` excepts answers that
  are not kept.
* Two references of one report name overwrite each other and are counted twice
  (`writer.go:131`), so `StatusAgrees` is checked with a name per reference.
* When the API server does not answer for `lockWait`, a scan that nobody blocks
  is refused (`kube.go:86`), so `RefusedMeansHeld` is about servers that answer.
* Two clicks that overlap across a second are both accepted, and the Lease
  refuses the second scan (`kubernetes.go:62`).
* The message of a timeout counts references as repositories (`runner.go:103`).
* A clone that is killed before it has a remote, or a lock file left by a killed
  command, makes every later scan of that cached checkout fail (`gitsync.go:39`
  looks at `.git` only). `ScansTheRemote` says that such a checkout is never read.
* When an update is found, `compareVersions` replaces the note, so a caveat of
  `resolveMeta` or `tagDigest` is lost (`image.go:127` and `:134`).
* A listener that fails ends the dashboard at once (`server.go:71`): the deferred
  cancellation of `main.go:45` races with the end of the process, so a child may
  live on; `process.go:13` says "stopping it stops the scan", so
  `StoppingStopsTheScan` is about stops by a signal.
* client-go releases the Lease before it calls `OnStoppedLeading`, so two replicas
  may export for a moment (`elector = "lost"`), late callbacks aside.
* In a cluster a dashboard may show an earlier run again: another API server may
  answer the next list from an older cache, and `Poller` does not compare. Hence
  `NeverBackwards` is about files.
* `HTTPS://host/x` is accepted, as `config.go:320` lowers the scheme it looks at, and
  kept as it was typed; git then looks for "HTTPS" in `GIT_ALLOW_PROTOCOL`, which
  `gitsync.go:174` calls "exactly the transports config.Load accepts", and refuses.
  `LoadSound` compares the transport in lower case.
* A `scan_timeout` of 0 disables the deadline that fairness below relies on
  (`config.go:216`).
* A credential file that cannot be read, and `type: token` with only a password,
  yield no header and only a warning or nothing (`gitsync.go:132`), so `LoadSound`
  asks for a header only where the type's own secret can be read.
* Tags of one family are ordered by their spelling before they are compared by
  date (`image.go:219` speaks of listings that run oldest first).
* When another release's first scan was cut short, its dependencies stay beside a
  `RepositoryScan` that does not count them (`writer.go:123`), so
  `RecordedExactly` is about the owner's.

## Fairness

Safety needs none, and in a run of several scenes a part is fair in its own. `ScanRun` assumes that a goroutine that can run does: every
git command and request has a timeout, so a worker's step ends; nothing makes
the deadline or a signal arrive. `IndexCache` assumes that a started lookup goes
on, for the same reason. `ScanLock` assumes that time passes and that electors
and processes take their steps, which client-go's retry loop does; requests may
still fail for ever. `ReportFlow` assumes that a scan that began goes on or
stops, that the caches of every API server catch up, that the poller polls (`Every`),
and, as the one strong assumption, that of requests made again and again one
succeeds. `Dashboard` assumes that goroutines run, that a scan ends (its
deadline), that a kill arrives, and that a free Lease is taken by someone who
campaigns; nobody has to click, send a signal or lose a Lease. Its safety has
one assumption about time, in the guard of `Close`: the five seconds of
`drainDelay` are longer than a fork that is under way and a kill.

## Proofs

Every safety property of a passing run is also a theorem, for every value of the
constants:

| Theorem | Says |
|---|---|
| `ScanRunProofs!TypeCorrect`, `EachRecordedOnce`, `NoneTruncated`, `EveryRepoAccounted`, `BlameIsFair` | for any repositories, limit and outcomes, wherever the deadline or a signal falls: nobody is recorded twice, nothing cut short is a success, nobody is forgotten, a cancelled run blames nobody |
| `ScanRunProofs!ExitZero`, `ExitZeroSucceeded`, `SemaphoreBounds` | exit status 0 means that every repository was scanned to its end and stored, and, if no report is too large, that all succeeded; never more than `Limit` are scanned at once |
| `ReportWriterProofs!TypeCorrect`, `HistoriesAgree` | the writer's state is well typed; a report agrees with its own history however scans overlap |
| `ReportWriterProofs!HandlesKept`, `Exact`, `FailureIsHarmless`, `PruneCompletes` | with one scan at a time (`[]OneScan`): dependencies stay reachable from a `RepositoryScan`; success leaves exactly what was found; failure changes no dependency; a Prune without an error leaves nothing behind |
| `ReportWriterProofs!PastIsCarried`, `ReportsAgree` | with `[]OneScan` and `DistinctNames`: dates and drift are carried over; report, counts and history agree |
| `RegistryProofs!CacheTypeCorrect`, `KeyAskedOnce`, `KeySameAnswer` | one fetch and one answer per key, for any calls, keys and nesting |
| `RegistryProofs!ImageTypeCorrect`, `ImageOffersBest` | for any finite registry and any limits, no listed tag is better than the one offered, unless it was rejected |
| `RegistryProofs!SilentMissesAreBelowOne`, `NoSilentMissFromOne` | a newer tag that is neither offered nor rejected nor given away by a caveat has a version below 1; with no such version in the registry there is none |
| `RegistryProofs!ChartAnswersSound` | for any versions, constraints, listings and failures the answer about a chart is sound |
| `ScanLockProofs!LockTypeCorrect`, `HoldersAreAlone`, `RefusalIsJust`, `ExitFreesLease` | for any processes and durations: the Lease implements `ScanMutex` among scans whose elector has not given up; a refusal has a cause; an orderly exit frees the Lease |
| `ScanTriggerProofs!TriggerTypeCorrect`, `AcceptedLater`, `IdleStatusIsRecent`, `AcceptedStaysShown` | for any clicks, replicas and seconds: a click is accepted only when the manual scans it found have ended; an idle status hides none that is older than its list; the replica that accepted a scan shows it until it ends |
| `RepoScanProofs!RepoTypeCorrect`, `FreshRevision`, `OrderIrrelevant` | a scan reads one whole revision of the configured remote, no older than the scan; Flux releases resolve whatever the order of files |
| `RepoScanProofs!LoadedIsSound` | any accepted document, with URLs in either case, gives the scan what it relies on |
| `ReportFlowProofs!FlowTypeCorrect`, `SnapshotsCover`, `ShownOnlyGrows` | a snapshot read from files is never older than the run it shows; a dashboard of files never goes back, and loses a report only to a Prune |
| `DashboardProofs!DashboardTypeCorrect`, `RunningTellsAlways`, `StopsTheScan` | for any number of dashboards: at most one child each and a flag that tells it; a stop leaves none |
| `DashboardProofs!ScrapesTell` | a scrape of any number of results and repositories is accepted, tells every update, drift and failed repository, and tells one whole of the references under one set of labels that have an issue |

The proofs use the named assumptions on constants in each module, which TLC
evaluates on every run. Theorems with a hypothesis of their own state it:

* `[]OneScan`: scans of different releases do not overlap. It is what `README.md:49`
  and `values.yaml:1` ask for, one release per namespace, and nothing in the code
  makes it so: `ReportWriterOwner` is a behaviour without it. Of one release the
  model itself runs one scan at a time, which the scan lock gives but for a scan
  that is losing its Lease (`ScanLockOverlap`). `HistoriesAgree` needs no
  hypothesis.
* `DistinctNames`: two references have two report names. Names end in a hash of
  all that tells references apart (`types.go:120`); where two share one, counts
  differ from what is stored (`writer.go:131`).
* `"big" \notin Outcomes` and "no version below 1": what the runs
  `ScanRunTooLarge` and `ImageZeroMajor` show to be needed.
* The inputs of pure functions: `ChartRequests` (any three-number versions and
  pre-release numbers, a set of tags that is finite, errors as the clients make
  them), `Documents` (any number of repositories of any texts), `Reported` (a
  snapshot holds sequences, dates are numbers). `TextsAreNoVersions` and
  `ErrorIsNoEnv` say that model values are none of the values they stand beside.
  The inputs the runs enumerate meet all of these.

None of the invariants is inductive alone. What each argument adds:

* *Scan process*: `Stages` says where workers can be at each stage of the main
  goroutine, `Dispatched` that they start in order, `Accounts` relates the
  records, the outcome and the stored report of one repository, `Errors` the
  context, the run's error and who is blamed, `Results` the exit status. A worker that
  is still recording is not blamed, because `Run` waits for all workers first.
* *Report writer*: where scans do not overlap (`OneScan`), a call's
  results are later than the report it started from (`UnderWay`), so times in a
  history decrease (`Dated`). While it writes, names it has not come to are as
  they were listed and the others say what a result says (`Progress`), so at its
  end the store is exact. `Prune` deletes a `RepositoryScan` after its
  dependencies (`PruneOK`), and what it has passed is gone or another release's
  (`PruneSound`). Counts agree for every repository that no scan left half
  written (`AllCounted`; `torn` is the ghost that remembers those).
* *Registry cache*: `IInv` adds that the leader of a flight is the only call past
  `Do` (`LeaderOK`), that its key is not memoized while it fetches (`MissOK`),
  that an answer handed out is the memoized one (`AnswerOK`), and how fetches
  are counted (`CountOK`). Without `MissOK` a second fetch could overwrite the
  first answer; it holds because of the second look inside `Do`.
* *Image lookup*: what is offered outranks all of `Candidates` that were not
  skipped (`Chosen`); that a finite set of tags has a best one follows from
  ranks being natural numbers (`MaximumExists`). For the search, what is left of a walk
  lies behind the text it goes on from (`Walking`), and while every walk has come to the
  end of the listing, everything behind a finished anchor was seen (`Covered`);
  an answer from less says so (`Told`). The lemma that carries it
  is about spelling: a newer version from 1 on is spelled behind the version in
  use or behind the width probe of its family (`NewerIsBehind`).
* *Charts, documents, scrapes*: cases of the functions; loading twice is loading
  once because trimming and lowering are; each group of samples has one per key, and of
  the references with an issue under one key the first is told.
* *Scan lock*: who leads is the holder, and no candidate has watched an
  unchanged record for longer than its leader went without a renewal
  (`LeaseOK`). A takeover needs `LeaseDuration` of watching, a leader gave up
  after `RenewDeadline`, and the former is longer. The refinement maps a process at
  work to `running` until its elector gives up: from then on its context outlives
  the Lease, and no mutual exclusion holds. For refusals, where requests succeed
  the time without a live holder is never longer than a candidate has watched the
  record (`GapOK`), and
  a refused candidate has waited `LockWait` (`WaitOK`).
* *Report flow*: a run that was read is over (`PastOK`), the store covers it from
  then on (`StoreOK`), so does every file read later (`LoadOK`). What is shown is
  no later than what is read, and that no later than what is stored, unless a
  later scan pruned it (`ShownOK`).
* *Repository scan*: fetch runs only with the configured remote set, reset only
  with a head fetched since the scan began, the walk only after reset or a whole
  clone (`GitOK`). While files are read, the extractor holds exactly the sources
  of those read, and extraction begins when none is left (`WalkOK`); without the
  latter `SourcesResolve` is not inductive. That a later document of a file wins
  rests on `LatestIsLast`, the well-foundedness of the naturals.
* *Dashboard*: `IInv` adds that a dashboard that was not started has done nothing
  (`Untouched`), and that one that drains was told to stop and one that shuts down
  has no child and no fork under way (`Stopping`); the context that ended before
  draining is what keeps new forks away between the last kill and the exit.
* *Scan trigger*: the Jobs a click found exist (`Found`) and never become
  unfinished again, as a name is given once; so those it found have ended from
  the moment it sees none unfinished (`Clear`). For the status: while a replica
  asks, requests wait for its mutex, so an answer is kept by the poll that read
  it or by the click that made it true (`Reads`, `Shows`).

Only model-checked, since the prover has no rule for fairness: the liveness
properties `Terminates`, `EveryCallReturns`, `EveryProcessEnds`, `EventuallyShown`,
`NeverStuck` and `SomeoneExports`. The seven runs that refute a
claim are TLC's alone. `Spell` concatenates with `FlattenSeq`, which is a recursive
function, so its lemmas go by least counterexample (`LeastNumber`) and
not by the library's induction theorems.

## Not modelled, and why

Parsing of YAML, Dockerfiles and chart files, HTTP itself, rendering, logging,
the UI, the Helm chart and CI: no state that properties are about, or outside
the Go program. Within modelled parts: a writer that compares with a stale list
(`kube.go:100`), two scans of one release at once (`ScanLockOverlap`) in
`ReportWriter`, the steps inside `apply`, the dates that rank tags without a
version (`newestDatedTag` picks any tag), `classifyTag` itself (tags are given
as shapes; numbers before a variant's version are left out), the patterns that
tell git's failures apart, redirects and keychains of the registry client, the
warning about unknown keys of a configuration, the text and order of a result's
other fields, and the other extractors of a repository scan, which keep nothing
between files.

## Plan

What is left: a fair `ScanMutex` that also promises that a waiting scan enters, with
`ScanLock` shown to refine it (TLC); fewer hypotheses, by stating `Exact` and
`FailureIsHarmless` for overlapping scans of different repositories, which
need no lock; two overlapping scans of one release in `ReportWriter`; and leaves with
fewer facts where the prover is slow.
