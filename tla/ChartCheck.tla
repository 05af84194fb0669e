------------------------------ MODULE ChartCheck ------------------------------
(***************************************************************************)
(* The check of one Helm chart reference: Runner.checkChart of             *)
(* internal/scan/runner.go with registry.Latest (internal/registry,        *)
(* charts.go and scope.go) and the kinds of its errors (internal/errkind). *)
(* A pure function of the reference and of what the registry answers;      *)
(* IndexCache models who asks the registry, and when.                      *)
(*                                                                         *)
(* A version is [core, pre]: its three numbers and 0, or the rank of its   *)
(* pre-release.  A manifest declares a version, or a constraint            *)
(* [op, low] for which Helm installs the newest stable match.              *)
(***************************************************************************)
EXTENDS Integers, Sequences, FiniteSets

CONSTANTS
  NoVersion, Junk,  \* "", and a text that is neither version nor constraint
  NoChart           \* nothing is checked

VARIABLE chart  \* the reference that is checked

IsVersion(d) == d \notin {NoVersion, Junk} /\ "core" \in DOMAIN d
IsConstraint(d) == d \notin {NoVersion, Junk} /\ "op" \in DOMAIN d
Stable(v) == IsVersion(v) /\ v.pre = 0

----------------------------------------------------------------------------
(* The semver library.                                                     *)

SameUpTo(n, v, w) == \A i \in 1 .. n : v.core[i] = w.core[i]

GreaterThan(v, w) ==
  \/ \E i \in 1 .. 3 : v.core[i] > w.core[i] /\ SameUpTo(i - 1, v, w)
  \/ SameUpTo(3, v, w) /\ w.pre # 0 /\ (v.pre = 0 \/ v.pre > w.pre)

NotBelow(v, w) == ~GreaterThan(w, v)

(* Constraints.Check: >=low, ^low and ~low.  (Bound: majors from 1, as ^0.1  *)
(* holds the minor.)                                                       *)
Satisfies(v, c) ==
  /\ NotBelow(v, c.low)
  /\ c.op = "caret" => SameUpTo(1, v, c.low)
  /\ c.op = "tilde" => SameUpTo(2, v, c.low)

Greatest(vs) == CHOOSE v \in vs : \A w \in vs : NotBelow(v, w)

----------------------------------------------------------------------------
(* errkind: a failure is what its error chain holds: an attached kind, the *)
(* status of a registry's answer, a name no registry can have, an expired  *)
(* deadline, a network error ("refused", "timeout").                       *)

Failure(known, status, badName, deadline, net) ==
  [known |-> known, status |-> status, badName |-> badName, deadline |-> deadline, net |-> net]

FromHTTPStatus(code) ==
  IF code \in {401, 403} THEN "auth"
  ELSE IF code = 404 THEN "not_found"
  ELSE IF code = 429 THEN "rate_limited"
  ELSE IF code >= 500 THEN "server_error"
  ELSE "other"

(* Mutant: a timeout is a network error like the others. *)
OfNetwork(f) ==
  IF f.known # "" THEN f.known
  ELSE IF f.net # "" THEN "unreachable"
  ELSE IF f.deadline THEN "timeout" ELSE "other"

Of(f) ==
  IF f.known # "" THEN f.known
  ELSE IF f.deadline \/ f.net = "timeout" THEN "timeout"
  ELSE IF f.net # "" THEN "unreachable"
  ELSE "other"

(* A kind that was attached before stays. *)
Wrap(kind, f) == IF f.known # "" THEN f ELSE [f EXCEPT !.known = kind]

Classify(f) ==
  IF f.status # 0 THEN Wrap(FromHTTPStatus(f.status), f)
  ELSE IF f.badName THEN Wrap("unsupported", f)
  ELSE Wrap(Of(f), f)

----------------------------------------------------------------------------
(* charts.go                                                               *)

(* Mutant: pre-releases count as matches of a constraint. *)
MatchesAny(c, tags) == {t \in tags : IsVersion(t) /\ Satisfies(t, c)}

Matches(c, tags) == {t \in tags : Stable(t) /\ Satisfies(t, c)}

(* resolveCurrent: NoVersion stands for its error. *)
ResolveCurrent(decl, tags) ==
  IF IsVersion(decl) THEN decl
  ELSE IF IsConstraint(decl) /\ Matches(decl, tags) # {} THEN Greatest(Matches(decl, tags))
  ELSE NoVersion

Eligible(v, current, scope) ==
  /\ Stable(v)
  /\ GreaterThan(v, current)
  /\ scope = "patch" => SameUpTo(2, v, current)
  /\ scope = "minor" => SameUpTo(1, v, current)

LatestFromTags(current, tags, scope) ==
  LET candidates == {t \in tags : Eligible(t, current, scope)}
  IN IF candidates = {} THEN NoVersion ELSE Greatest(candidates)

(***************************************************************************)
(* A request: the reference (proto, repo: does it name a repository, decl),*)
(* the configured scope, and the registry's answer (failed, or the tags;   *)
(* listed: the index has the chart).  The answer: a version or a kind.     *)
(***************************************************************************)
Refused(kind) == [latest |-> NoVersion, kind |-> kind]

LatestChart(q) ==
  IF ~q.repo THEN Refused("unsupported")
  ELSE IF q.decl = NoVersion THEN Refused("invalid_version")
  ELSE IF q.proto \notin {"http", "https", "oci"} THEN Refused("unsupported")
  ELSE IF q.failed # {} THEN Refused((CHOOSE k \in {Classify(f).known : f \in q.failed} : TRUE))
  ELSE IF q.proto # "oci" /\ ~q.listed THEN Refused("not_found")
  ELSE LET current == ResolveCurrent(q.decl, q.tags) IN
       IF current = NoVersion THEN Refused("invalid_version")
       ELSE [latest |-> LatestFromTags(current, q.tags, q.scope), kind |-> ""]

----------------------------------------------------------------------------
(* scope.go and checkChart                                                 *)

BumpOf(latest, current) ==
  IF ~SameUpTo(1, latest, current) THEN "major"
  ELSE IF ~SameUpTo(2, latest, current) THEN "minor"
  ELSE "patch"

ChartScope(decl, latest) ==
  IF latest \in {NoVersion, decl} THEN ""
  ELSE IF ~IsVersion(decl) THEN "unknown"
  ELSE BumpOf(latest, decl)

IsNewerChart(latest, decl) ==
  /\ latest # NoVersion
  /\ IF IsVersion(decl) THEN GreaterThan(latest, decl) ELSE latest # decl

CheckChart(q) ==
  LET a == LatestChart(q) IN
  [latest |-> a.latest, error |-> a.kind,
   scope |-> ChartScope(q.decl, a.latest), available |-> IsNewerChart(a.latest, q.decl)]

----------------------------------------------------------------------------
(***************************************************************************)
(* What a check tells of a chart.  An update is one: newer than whatever   *)
(* Helm installs today, stable, no better one in scope, and named after    *)
(* the bump it is (unknown behind a constraint).  Taking it ends the       *)
(* matter: the next check of the same scope has nothing to offer.  A       *)
(* narrower scope never offers more than a wider one.  No update means     *)
(* that there is none, and a failure is reported with its cause and never  *)
(* looks like "up to date".                                                *)
(***************************************************************************)
Allowed(scope) ==
  CASE scope = "patch" -> {"patch", "unknown"}
    [] scope = "minor" -> {"patch", "minor", "unknown"}
    [] OTHER           -> {"patch", "minor", "major", "unknown"}

Asked(q) == q.repo /\ q.decl # NoVersion /\ q.proto # "git"

(* What went wrong, told from the failure alone. *)
Cause(f) ==
  IF f.known # "" THEN f.known
  ELSE IF f.status \in {401, 403} THEN "auth"
  ELSE IF f.status = 404 THEN "not_found"
  ELSE IF f.status = 429 THEN "rate_limited"
  ELSE IF f.status \in 500 .. 599 THEN "server_error"
  ELSE IF f.badName THEN "unsupported"
  ELSE IF f.deadline \/ f.net = "timeout" THEN "timeout"
  ELSE IF f.net = "refused" THEN "unreachable"
  ELSE "other"

ChartAnswerSound(q) ==
  LET r == CheckChart(q)
      installable == IF IsVersion(q.decl) THEN {q.decl}
                     ELSE IF IsConstraint(q.decl) THEN {t \in q.tags : Stable(t) /\ Satisfies(t, q.decl)}
                     ELSE {}
      installed == Greatest(installable)
      Wider(scope) == CheckChart([q EXCEPT !.scope = scope]).latest IN
  /\ r.error = "" <=> Asked(q) /\ q.failed = {} /\ (q.listed \/ q.proto = "oci") /\ installable # {}
  /\ r.error # "" => ~r.available /\ r.latest = NoVersion
  /\ \A f \in q.failed : Asked(q) => r.error = Cause(f)
  /\ r.error = "" =>
       /\ r.available <=> \E t \in q.tags : Eligible(t, installed, q.scope)
       /\ r.available =>
            /\ Eligible(r.latest, installed, q.scope)
            /\ \A t \in q.tags : Eligible(t, installed, q.scope) => NotBelow(r.latest, t)
            /\ r.scope \in Allowed(q.scope)
            /\ r.scope = "unknown" <=> IsConstraint(q.decl)
            /\ ~CheckChart([q EXCEPT !.decl = r.latest]).available
            /\ \A s \in {"minor", "all"} : q.scope = "patch" \/ s = "all" => NotBelow(Wider(s), r.latest)

(* Every check of a chart is answered soundly (charts.go:94, scope.go:14,    *)
(* errkind.go:56): see ChartAnswerSound.                                     *)
EveryChartAnswerSound == chart # NoChart => ChartAnswerSound(chart)
=============================================================================
