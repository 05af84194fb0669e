------------------------------ MODULE ImageCheck ------------------------------
(***************************************************************************)
(* lookupImage: the newest tag comparable with the one in use.  Metadata   *)
(* says what a floating or pinned tag stands for; the tag listing is read  *)
(* in windows of a few pages behind several anchors; the newer tags found  *)
(* are verified from the greatest down, until one survives.                *)
(*                                                                         *)
(* The registry's tags are chosen initially, in a listing that honours     *)
(* limit and position with a cursor ("cursor") or without ("plain"), or    *)
(* that ignores both ("whole").  Every request may fail.  What metadata,   *)
(* vendor APIs and signatures say is chosen where it is used.              *)
(***************************************************************************)
EXTENDS ImageTags

CONSTANTS
  Tags,              \* tags a registry may have
  Requests,          \* what is asked of which registry: see RequestsAssumption
  PageSize, MaxPages, PageBudget,   \* limits of tag listings
  VerifyCandidates,  \* limit of candidates that are verified
  MaxTags,           \* bound: tags of a registry
  NoTag

ASSUME LimitsAssumption ==
  /\ PageSize \in Nat \ {0} /\ MaxPages \in Nat \ {0} /\ PageBudget \in Nat \ {0}
  /\ VerifyCandidates \in Nat \ {0}

ASSUME RequestsAssumption ==
  \A r \in Requests : /\ DOMAIN r = {"tag", "pinned", "scope", "listing", "verify"}
                      /\ r.pinned \in BOOLEAN /\ r.verify \in BOOLEAN
                      /\ r.scope \in {"major", "minor", "patch"}
                      /\ r.listing \in {"cursor", "plain", "whole"}

\* Two tags are two texts.
ASSUME TagsAssumption ==
  /\ \A t \in Tags \cup {r.tag : r \in Requests} : t \in Shapes
  /\ \A t, u \in Tags : Spell(t) = Spell(u) => t = u
  /\ NoTag \notin Shapes

VARIABLES
  reg,         \* the registry's tags
  req,         \* the reference: tag, pinned, scope; and the registry's kind, verifyTags
  stage,
  base,        \* the version to compare from
  resolved,    \* the version the metadata named, or NoTag
  anchors,     \* anchors still to walk, the current one first
  after,       \* where the next page of the current walk begins
  page,        \* pages of the current walk
  budget,      \* pages left to all walks
  seen,        \* tags collected
  exhaustive,  \* every walk so far reached the end of the listing
  failed,      \* firstErr is set
  skipped,     \* candidates rejected
  latest, note, err     \* the answer: ImageInfo.Latest, kinds of caveats, an error

imageVars == <<reg, req, stage, base, resolved, anchors, after, page, budget, seen,
          exhaustive, failed, skipped, latest, note, err>>
input == <<reg, req>>
window == <<anchors, after, page, budget, seen, exhaustive, failed>>
answer == <<latest, note, err>>

ImageInit ==
  /\ reg \in {s \in SUBSET Tags : IsFiniteSet(s) /\ Cardinality(s) <= MaxTags}
  /\ req \in Requests
  /\ stage = IF Comparable(req.tag) /\ ~req.pinned THEN "list" ELSE "resolve"
  /\ base = req.tag
  /\ resolved = NoTag
  /\ anchors = <<>> /\ after = <<>> /\ page = 0 /\ budget = PageBudget
  /\ seen = {} /\ exhaustive = TRUE /\ failed = FALSE
  /\ skipped = {}
  /\ latest = NoTag /\ note = {} /\ err = FALSE

----------------------------------------------------------------------------
(* resolveMeta and tagDigest *)

Fail ==
  /\ err' = TRUE
  /\ stage' = "done"
  /\ UNCHANGED <<input, base, resolved, window, skipped, latest, note>>

\* Versions are compared, tags without one by date.
Compare(tag) == IF Comparable(tag) THEN "list" ELSE "dates"

Resolved(tag, caveat) ==
  /\ base' = IF tag = NoTag THEN base ELSE tag
  /\ resolved' = tag
  /\ note' = note \cup caveat
  /\ stage' = IF req.pinned /\ Spell(req.tag) # <<>> THEN "digest" ELSE Compare(base')
  /\ UNCHANGED <<input, window, skipped, latest, err>>

\* The metadata could not be read, names no version, one without a tag here, or
\* one that has a tag; a tag whose metadata cannot be read counts as missing.
ResolveMeta ==
  /\ stage = "resolve"
  /\ \/ ~req.pinned /\ Fail
     \/ Resolved(NoTag, {})
     \/ Resolved(NoTag, {"no such tag"})
     \/ \E t \in reg : Comparable(t) /\ Resolved(t, {})

\* What a pinned tag serves today is known or not.
TagDigest ==
  /\ stage = "digest"
  /\ note' \in {note, note \cup {"digest unknown"}}
  /\ stage' = Compare(base)
  /\ UNCHANGED <<input, base, resolved, window, skipped, latest, err>>

\* newestDatedTag: a tag of the same variant, chosen by date. Dates are not modelled.
CompareDates ==
  /\ stage = "dates"
  /\ latest' \in {NoTag} \cup (reg \ {req.tag})
  /\ note' = note \cup {"dated"}
  /\ stage' = "done"
  /\ UNCHANGED <<input, base, resolved, window, skipped, err>>

----------------------------------------------------------------------------
(* imageTags: windows of the listing *)

Enter(as) ==
  /\ anchors' = as
  /\ after' = IF as = <<>> THEN <<>> ELSE Head(as)
  /\ page' = 0
  /\ stage' = IF as = <<>> THEN "rank" ELSE "walk"

List ==
  /\ stage = "list"
  /\ Enter(Anchors(req.tag, base))
  /\ UNCHANGED <<input, base, resolved, budget, seen, exhaustive, failed, skipped, answer>>

\* The walk is over; the next anchor's begins.
WalkEnds(complete) ==
  /\ exhaustive' = (complete /\ exhaustive)
  /\ Enter(Tail(anchors))

(* Mutant: The budget of all walks is forgotten. *)
MayAskUnbudgeted == page < MaxPages

MayAsk == page < MaxPages /\ budget > 0

OutOfPages ==
  /\ stage = "walk"
  /\ ~MayAsk
  /\ WalkEnds(FALSE)
  /\ UNCHANGED <<input, base, resolved, budget, seen, failed, skipped, answer>>

\* The first tags of a listing, in order, up to a number.
Spelled == [t \in Tags |-> Spell(t)]
FirstTags(tags, n) == {t \in tags : Cardinality({u \in tags : Precedes(Spelled[u], Spelled[t])}) < n}

\* What the registry answers: a page, and whether it points at another one.
TagsPage(from) ==
  LET rest == {t \in reg : Precedes(from, Spelled[t])}
  IN  IF req.listing = "whole" THEN [tags |-> reg, cursor |-> FALSE]
      ELSE [tags |-> FirstTags(rest, PageSize),
            cursor |-> req.listing = "cursor" /\ Cardinality(rest) > PageSize]

LastOf(tags) == CHOOSE t \in tags : \A u \in tags \ {t} : Precedes(Spelled[u], Spelled[t])

Page ==
  /\ stage = "walk"
  /\ MayAsk
  /\ budget' = budget - 1
  /\ LET answered == TagsPage(after)
         n == Cardinality(answered.tags)
     IN  /\ seen' = seen \cup answered.tags
         /\ CASE n > PageSize -> WalkEnds(TRUE)
              [] n <= PageSize /\ ~answered.cursor -> WalkEnds(n < PageSize)
              [] n <= PageSize /\ answered.cursor /\ ~SameFamily(answered.tags, Head(anchors)) ->
                   WalkEnds(FALSE)
              [] OTHER -> /\ page' = page + 1
                          /\ after' = Spell(LastOf(answered.tags))
                          /\ UNCHANGED <<anchors, exhaustive, stage>>
  /\ UNCHANGED <<input, base, resolved, failed, skipped, answer>>

PageFails ==
  /\ stage = "walk"
  /\ MayAsk
  /\ budget' = budget - 1
  /\ failed' = TRUE
  /\ WalkEnds(FALSE)
  /\ UNCHANGED <<input, base, resolved, seen, skipped, answer>>

----------------------------------------------------------------------------
(* compareVersions and verifyCandidates *)

Candidates == RankedCandidates(base, seen, req.scope)

Windowed == IF exhaustive THEN {} ELSE {"windowed"}
Exhausted == IF exhaustive THEN {"none newer"} ELSE {"capped"}

Unreachable ==
  /\ stage = "rank"
  /\ seen = {} /\ failed
  /\ Fail

Rank ==
  /\ stage = "rank"
  /\ seen # {} \/ ~failed
  /\ \/ /\ Candidates = {}
        /\ note' = note \cup (IF resolved # NoTag THEN {"serves"} ELSE {}) \cup Exhausted
        /\ stage' = "done"
        /\ UNCHANGED latest
     \/ /\ Candidates # {} /\ ~req.verify
        /\ latest' = First(Candidates)
        /\ note' = Windowed
        /\ stage' = "done"
     \/ /\ Candidates # {} /\ req.verify
        /\ stage' = "verify"
        /\ UNCHANGED <<latest, note>>
  /\ UNCHANGED <<input, base, resolved, window, skipped, err>>

\* What metadata, vendor APIs and signatures may tell against a candidate.
Hard == {"label", "pre-release alias"}
Evidence == Hard \cup {"pushed earlier", "platforms", "stray alias", "unsigned"}
\* Two signals reject as surely as more do.
Signals == {s \in SUBSET Evidence : Cardinality(s) <= 2}

\* One more page, inside the candidate's series; it may fail.
Listed(cand) == SiblingsOf(cand, seen) # {}
SiblingPage(cand) == SiblingsOf(cand, TagsPage(SiblingProbe(cand)).tags) # {}

Company(cand, sibling) ==
  (IF sibling THEN {} ELSE {"no siblings"})
  \cup (IF MajorJump(base, cand, seen) THEN {"jump"} ELSE {})

Rejects(signals) == signals \cap Hard # {} \/ Cardinality(signals \ Hard) >= 2

Survives(cand, signals) ==
  /\ latest' = cand
  /\ note' = Windowed \cup (IF skipped = {} THEN {} ELSE {"skipped"})
                      \cup (IF signals = {} THEN {} ELSE {"kept despite"})
  /\ stage' = "done"
  /\ UNCHANGED <<input, base, resolved, window, skipped, err>>

Verify ==
  /\ stage = "verify"
  /\ Candidates \ skipped # {}
  /\ Cardinality(skipped) < VerifyCandidates
  /\ \E evidence \in Signals, answered \in BOOLEAN :
       LET cand == First(Candidates \ skipped)
           sibling == Listed(cand) \/ (answered /\ SiblingPage(cand))
           signals == evidence \cup Company(cand, sibling)
       IN  IF Rejects(signals)
           THEN /\ skipped' = skipped \cup {cand}
                /\ UNCHANGED <<input, stage, base, resolved, window, answer>>
           ELSE Survives(cand, signals)

NoneSurvived ==
  /\ stage = "verify"
  /\ Candidates \ skipped = {} \/ Cardinality(skipped) >= VerifyCandidates
  /\ note' = Windowed \cup {"skipped"}
               \cup (IF Candidates \ skipped = {} THEN {} ELSE {"stopped"})
  /\ stage' = "done"
  /\ UNCHANGED <<input, base, resolved, window, skipped, latest, err>>

ImageNext ==
  \/ ResolveMeta \/ TagDigest \/ CompareDates
  \/ List \/ Page \/ PageFails \/ OutOfPages
  \/ Unreachable \/ Rank \/ Verify \/ NoneSurvived

ImageSpec == ImageInit /\ [][ImageNext]_imageVars

----------------------------------------------------------------------------
(* Properties *)

\* Types of all variables.
ImageTypeOK ==
  /\ reg \subseteq Tags /\ req \in Requests
  /\ stage \in {"resolve", "digest", "dates", "list", "walk", "rank", "verify", "done"}
  /\ base \in Tags \cup {r.tag : r \in Requests} /\ resolved \in Tags \cup {NoTag}
  /\ stage = "walk" <=> anchors # <<>>
  /\ page \in 0..MaxPages /\ budget \in 0..PageBudget
  /\ seen \subseteq reg /\ skipped \subseteq seen
  /\ exhaustive \in BOOLEAN /\ failed \in BOOLEAN /\ err \in BOOLEAN
  /\ latest \in reg \cup {NoTag}

\* An answer by version, with an update or without.
Compared == stage = "done" /\ ~err /\ "dated" \notin note

\* A tag better than the one that is offered, if one is, or than the one in use.
Better(t) ==
  /\ Outranks(t, base, req.scope)
  /\ latest # NoTag => RanksBefore(t, latest)

\* A newer tag that the answer passes over was rejected, or the answer says that
\* it saw a part only: never a silent "up to date" (imagelist.go:35, image.go:165-180,
\* imageverify.go:55).
NoSilentMiss ==
  Compared => \A t \in reg \ skipped : Better(t) =>
                note \cap {"windowed", "capped", "stopped"} # {}

\* Of the tags that were listed the answer passes over no better one that was not
\* rejected, up to the limit of candidates, whatever part of the listing failed; and
\* the bump the result calls it (scope.go:37, runner.go:386) is one the scope allows.
BestOffered ==
  Compared =>
    /\ \A t \in seen \ skipped : Better(t) => latest = NoTag /\ "stopped" \in note
    /\ latest # NoTag =>
         LET bump == ImageScope(base, latest) IN
         (req.scope = "patch" => bump \notin {"minor", "major"}) /\ (req.scope = "minor" => bump # "major")
=============================================================================
