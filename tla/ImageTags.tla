------------------------------ MODULE ImageTags ------------------------------
(***************************************************************************)
(* Image tags as internal/registry compares and lists them: what makes two *)
(* comparable, which one is newer, where tag listings are entered, what    *)
(* counts as a sibling.                                                    *)
(*                                                                         *)
(* A tag is its shape, the record classifyTag computes: kind, the text     *)
(* before the version (pre), its numbers (core) and the text after it      *)
(* (post).  Registries list tags in the order of their spelling, so texts  *)
(* are sequences of characters, with a whole word for one character.       *)
(* A character is an integer in ASCII order: '-' and '.' come before the   *)
(* digits, which stand for themselves, and words after them.               *)
(***************************************************************************)
EXTENDS Integers, Sequences, SequencesExt, FiniteSets

CONSTANTS PreWords   \* words that mark a pre-release: rc, beta, dev, ...

Dash == -2
Dot  == -1
IsDigit(c) == c \in 0..9
IsSep(c) == c < 0

Numbers == 0..99     \* bound: the numbers of a version
Shapes == [kind : STRING, pre : Seq(Int), core : Seq(Numbers), post : Seq(Int)]
Digits(n) == IF n < 10 THEN <<n>> ELSE <<n \div 10, n % 10>>

\* The tag as it is written, tagShape.Raw.
Spell(t) ==
  t.pre \o FlattenSeq([i \in DOMAIN t.core |-> (IF i = 1 THEN <<>> ELSE <<Dot>>) \o Digits(t.core[i])]) \o t.post

\* Strings in the order of a listing.
Precedes(a, b) ==
  \E i \in 1..Len(b) : /\ i <= Len(a) + 1
                       /\ \A j \in 1..(i-1) : a[j] = b[j]
                       /\ i <= Len(a) => a[i] < b[i]

Comparable(t) == Len(t.core) > 0

----------------------------------------------------------------------------
(* imagetag.go: order and scope *)

ComparableShapes(cur, cand) ==
  /\ cur.kind = cand.kind /\ cur.pre = cand.pre /\ cur.post = cand.post
  /\ Comparable(cur) /\ Comparable(cand)

\* The number at a position, zero where the version is shorter.
Group(core, i) == IF i \in DOMAIN core THEN core[i] ELSE 0

CoreGreater(a, b) ==
  \E i \in 1..Len(a) : /\ Group(a, i) > Group(b, i)
                       /\ \A j \in 1..(i-1) : Group(a, j) = Group(b, j)

TagScopeOK(cur, cand, scope) ==
  LET same(i) == Group(cand.core, i) = Group(cur.core, i)
  IN  \/ Len(cur.core) < 2
      \/ scope = "major"
      \/ scope = "minor" /\ same(1)
      \/ scope = "patch" /\ same(1) /\ same(2)

AllZero(core) == core # <<>> /\ \A i \in DOMAIN core : core[i] = 0

\* The first word of a text, past its separators, if it begins with one.
FirstWord(text) ==
  LET words == {i \in DOMAIN text : ~IsSep(text[i]) /\ \A j \in 1..(i-1) : IsSep(text[j])}
  IN  {text[i] : i \in words}

IsPrerelease(t) == AllZero(t.core) \/ (FirstWord(t.post) \cup FirstWord(t.pre)) \cap PreWords # {}

\* A tag that can beat cur.
Outranks(t, cur, scope) ==
  /\ t # cur
  /\ ComparableShapes(cur, t)
  /\ ~IsPrerelease(t)
  /\ TagScopeOK(cur, t, scope)
  /\ CoreGreater(t.core, cur.core)

RankedCandidates(cur, tags, scope) == {t \in tags : Outranks(t, cur, scope)}

\* Greatest first; of one version, the more precise spelling.
RanksBefore(a, b) ==
  \/ CoreGreater(a.core, b.core)
  \/ ~CoreGreater(b.core, a.core) /\ Len(a.core) > Len(b.core)

(* Mutant: Versions ranked as texts. *)
FirstBySpelling(tags) == CHOOSE t \in tags : \A u \in tags \ {t} : Precedes(Spell(u), Spell(t))

First(tags) == CHOOSE t \in tags : \A u \in tags \ {t} : RanksBefore(t, u)

\* scope.go: the bump an image update is reported as.
ImageScope(cur, cand) ==
  IF ~ComparableShapes(cur, cand) \/ cur.kind # "semver" \/ Len(cur.core) < 2 THEN "unknown"
  ELSE IF Group(cand.core, 1) # Group(cur.core, 1) THEN "major"
  ELSE IF Group(cand.core, 2) # Group(cur.core, 2) THEN "minor"
  ELSE "patch"

----------------------------------------------------------------------------
(* Where a listing is entered *)

\* The literal prefix of a variant: up to its last separator, if it has one.
ShapePrefix(pre) ==
  LET seps == {i \in DOMAIN pre : i > 1 /\ IsSep(pre[i])}
  IN  IF seps = {} THEN pre ELSE SubSeq(pre, 1, CHOOSE i \in seps : \A j \in seps : j <= i)

\* The text before the version of an anchor; a name has none. (Bound: no
\* numbers before the version.)
PreOf(text) ==
  LET digits == {i \in DOMAIN text : IsDigit(text[i])}
  IN  IF digits = {} THEN <<>> ELSE SubSeq(text, 1, (CHOOSE i \in digits : \A j \in digits : i <= j) - 1)

SameFamily(tags, anchor) ==
  LET prefix == ShapePrefix(PreOf(anchor))
  IN  prefix = <<>> \/ \E t \in tags : IsPrefix(prefix, Spell(t))

\* The numeric family one digit wider: 2.0.0 looks after "1".
WidthProbe(t) == IF Comparable(t) THEN t.pre \o <<1>> ELSE <<>>

(* Mutant: No second look below the last two numbers. *)
RolloverProbeNone(text) == <<>>

\* Before the last two numbers: v1.9.1 looks after "v1".
RolloverProbe(text) ==
  LET ends == {i \in DOMAIN text : IsDigit(text[i]) /\ (i = Len(text) \/ ~IsDigit(text[i+1]))}
      later(i) == Cardinality({j \in ends : j > i})
  IN  IF Cardinality(ends) < 2 THEN <<>>
      ELSE SubSeq(text, 1, CHOOSE i \in ends :
             later(i) = IF Cardinality(ends) = 2 THEN 1 ELSE 2)

\* searchAnchors and imageTags: each anchor and its rollover, once.
Anchors(cur, resolved) ==
  LET search == <<Spell(cur), Spell(resolved), WidthProbe(cur), WidthProbe(resolved)>>
      all == [i \in 1..8 |-> LET anchor == search[(i + 1) \div 2]
                             IN  IF i % 2 = 1 THEN anchor ELSE RolloverProbe(anchor)]
      fresh == {i \in DOMAIN all : all[i] # <<>> /\ \A j \in 1..(i-1) : all[j] # all[i]}
  IN  [n \in 1..Cardinality(fresh) |->
         all[CHOOSE i \in fresh : Cardinality({j \in fresh : j <= i}) = n]]

----------------------------------------------------------------------------
(* imageverify.go: the company a candidate keeps *)

SameSeries(t, cand) == t.kind = cand.kind /\ t.pre = cand.pre /\ Comparable(t)

\* Builds of this very version, and versions of the same major.
SiblingsOf(cand, tags) ==
  {t \in tags \ {cand} :
     \/ IsPrefix(Spell(cand) \o <<Dash>>, Spell(t))
     \/ SameSeries(t, cand) /\ (Len(cand.core) = 1 \/ Group(t.core, 1) = Group(cand.core, 1))}

SiblingProbe(cand) == IF Len(cand.core) = 1 THEN cand.pre ELSE cand.pre \o Digits(cand.core[1])

\* More than one major ahead, and nothing listed in between.
MajorJump(cur, cand, tags) ==
  LET between == (Group(cur.core, 1) + 1)..(Group(cand.core, 1) - 1)
  IN  /\ cur.kind = "semver" /\ Len(cur.core) >= 2 /\ Len(cand.core) >= 2
      /\ between # {}
      /\ ~\E t \in tags : SameSeries(t, cand) /\ Group(t.core, 1) \in between
=============================================================================
