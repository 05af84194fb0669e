------------------------------- MODULE Metrics -------------------------------
(***************************************************************************)
(* What a scrape of the exporting dashboard yields:                        *)
(* ResultCollector.Collect of internal/metrics/collector.go, as the set of *)
(* samples it sends for a snapshot of the reports.                         *)
(*                                                                         *)
(* The registry that collects them refuses a scrape in which two samples   *)
(* have the same name and labels, so Collect drops the later ones.  Label  *)
(* values are cut to maxLabelLen: different references may look the same.  *)
(***************************************************************************)
EXTENDS Integers, FiniteSets, Sequences

CONSTANTS
  Bound,      \* bound: [what a report says -> the label value exported for it]
  Vocabulary, \* errkind.All
  NoSnapshot  \* before the first load

VARIABLE scraped  \* the reports a scrape finds

(***************************************************************************)
(* A snapshot has the stored results, a sequence of records of             *)
(*   source, ref, type  what identifies a reference (ref: chart to path),  *)
(*   change             scope, current and latest version,                 *)
(*   behind, moved      UpdateAvailable and DigestChanged,                 *)
(*   error              CheckErrorKind, "" when the check succeeded,       *)
(*   skipped            how many tags were skipped,                        *)
(* and the repository scans, a sequence of records of a name, the kind of  *)
(* the error or "", and the time of the last success or 0.                 *)
(***************************************************************************)

(* at: the element of the snapshot the sample was made from. *)
Sample(name, labels, value, at) == [name |-> name, labels |-> labels, value |-> value, at |-> at]

KindLabel(kind) == IF kind \in Vocabulary THEN kind ELSE "other"

IdentityValues(r) == <<Bound[r.source], Bound[r.ref], r.type>>
ChangeValues(r) == <<Bound[r.change]>>

(* The indices in S that are the first with their key. *)
FirstBy(S, key) == {i \in S : \A j \in S : key[j] = key[i] => i <= j}

Identity(rs) == [i \in DOMAIN rs |-> IdentityValues(rs[i])]

(* One sample per outdated reference, and one per reference whose digest moved. *)
Outdated(rs) ==
  LET key == [i \in DOMAIN rs |-> IdentityValues(rs[i]) \o ChangeValues(rs[i])]
  IN {Sample("outdated", key[i], 1, i) : i \in FirstBy({j \in DOMAIN rs : rs[j].behind}, key)}

Drift(rs) ==
  {Sample("drift", Identity(rs)[i], 1, i) : i \in FirstBy({j \in DOMAIN rs : rs[j].moved}, Identity(rs))}

HasIssue(r) == r.error # "" \/ r.skipped > 0

(* Mutant: a reference without an issue counts as shown. *)
ShownOfAll(rs) == {i \in FirstBy(DOMAIN rs, Identity(rs)) : HasIssue(rs[i])}

(* collectIssues: of the references that look the same, the first with an issue. *)
Shown(rs) == FirstBy({i \in DOMAIN rs : HasIssue(rs[i])}, Identity(rs))

Issues(rs) ==
  {Sample("failed", Identity(rs)[i] \o <<KindLabel(rs[i].error)>>, 1, i) :
     i \in {j \in Shown(rs) : rs[j].error # ""}}
  \cup {Sample("skipped", Identity(rs)[i], rs[i].skipped, i) :
          i \in {j \in Shown(rs) : rs[j].skipped > 0}}

(* How many references were examined, by source and extractor. *)
Scanned(rs) ==
  LET key == [i \in DOMAIN rs |-> <<Bound[rs[i].source], rs[i].type>>]
  IN {Sample("scanned", k, Cardinality({i \in DOMAIN rs : key[i] = k}), 0) :
        k \in {key[i] : i \in DOMAIN rs}}

(* collectRepos: whether each repository's latest scan failed, and the last success of any. *)
Failures(rps) ==
  LET kind(rp) == IF rp.error = "" THEN "" ELSE KindLabel(rp.error)
      key == [i \in DOMAIN rps |-> <<Bound[rps[i].name], kind(rps[i])>>]
  IN {Sample("repo_failed", key[i], IF rps[i].error = "" THEN 0 ELSE 1, i) :
        i \in FirstBy(DOMAIN rps, key)}

LastScan(rps) ==
  LET times == {rps[i].success : i \in DOMAIN rps}
  IN {Sample("last_scan", <<>>, t, 0) : t \in {u \in times : u > 0 /\ \A v \in times : v <= u}}

Collect(s) ==
  Outdated(s.results) \cup Drift(s.results) \cup Issues(s.results) \cup Scanned(s.results)
  \cup Failures(s.repos) \cup LastScan(s.repos)

----------------------------------------------------------------------------
(***************************************************************************)
(* The registry accepts the scrape, whatever the reports say and however   *)
(* alike they look.  Every outdated or moved reference and every failed    *)
(* repository has a sample with its own labels, and every result counts.   *)
(* Of references that look the same, some of which have an issue, one that *)
(* has is told whole: whether it failed, and how many tags it skipped.     *)
(***************************************************************************)
Accepted(samples) ==
  \A a, b \in samples : a.name = b.name /\ a.labels = b.labels => a = b

Tells(samples, name, labels) == \E a \in samples : a.name = name /\ a.labels = labels

TellsIssue(samples, r) ==
  /\ r.error # "" => Tells(samples, "failed", IdentityValues(r) \o <<KindLabel(r.error)>>)
  /\ r.skipped > 0 =>
       \E a \in samples : a.name = "skipped" /\ a.labels = IdentityValues(r) /\ a.value = r.skipped

ScrapeTells(s) ==
  LET samples == Collect(s)
      rs  == s.results
      rps == s.repos IN
  /\ Accepted(samples)
  /\ \A i \in DOMAIN rs :
       LET id == IdentityValues(rs[i]) IN
       /\ rs[i].behind => Tells(samples, "outdated", id \o ChangeValues(rs[i]))
       /\ rs[i].moved => Tells(samples, "drift", id)
       /\ HasIssue(rs[i]) =>
            \E j \in DOMAIN rs : HasIssue(rs[j]) /\ IdentityValues(rs[j]) = id /\ TellsIssue(samples, rs[j])
       /\ \E a \in samples : /\ a.name = "scanned"
                             /\ a.labels = <<Bound[rs[i].source], rs[i].type>>
                             /\ a.value > 0
  /\ \A i \in DOMAIN rps : rps[i].error # "" =>
       Tells(samples, "repo_failed", <<Bound[rps[i].name], KindLabel(rps[i].error)>>)

(* What a scrape says, and what it leaves out of references that look alike *)
(* (collector.go:143): see ScrapeTells.                                     *)
EveryScrapeTells == scraped # NoSnapshot => ScrapeTells(scraped)

(***************************************************************************)
(* collector.go:63: "one series per reference the latest scan could not    *)
(* check".  Each of them has a series under the labels it is known by,     *)
(* whichever kind of error it is counted under.                            *)
(***************************************************************************)
FailedChecksTold ==
  scraped # NoSnapshot =>
    \A i \in DOMAIN scraped.results :
      LET r == scraped.results[i] IN
      r.error # "" => \E k \in Vocabulary \cup {"other"} :
                        Tells(Collect(scraped), "failed", IdentityValues(r) \o <<k>>)
=============================================================================
