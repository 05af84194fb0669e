---------------------------- MODULE MCImageCheck ----------------------------
(* Versions from 0.9 to 10.0, so that numbers get a digit wider before and   *)
(* after the first dot, with a variant, a pre-release, tags with a prefix of *)
(* their own ("v", "web-") and a floating name.                              *)
EXTENDS ImageCheck, ChartCheck

Alpine == 10
Rc == 11
V == 12
Web == 13
Version(pre, core, post) == [kind |-> "semver", pre |-> pre, core |-> core, post |-> post]
LatestTag == [kind |-> "floating", pre |-> <<>>, core |-> <<>>, post |-> <<14>>]
Untagged == [kind |-> "", pre |-> <<>>, core |-> <<>>, post |-> <<>>]

MCTags == {Version(<<>>, c, <<>>) : c \in {<<0, 9>>, <<0, 9, 0>>, <<0, 10>>, <<2, 0>>, <<10, 0>>}}
          \cup {Version(<<>>, <<2, 0>>, <<Dash, Rc, 1>>), Version(<<>>, <<10, 0>>, <<Dash, Alpine>>)}
          \cup {Version(<<V>>, c, <<>>) : c \in {<<0, 9>>, <<0, 10>>}}
          \cup {Version(<<Web, Dash>>, <<c>>, <<>>) : c \in {1, 2, 3}}

AskedOf(t, pinned, scope, verify, listings) ==
  [tag : {t}, pinned : {pinned}, scope : {scope}, listing : listings, verify : {verify}]
MCRequests ==
  AskedOf(Version(<<>>, <<0, 9>>, <<>>), FALSE, "major", TRUE, {"cursor", "plain", "whole"})
  \cup AskedOf(Version(<<>>, <<0, 9>>, <<>>), FALSE, "minor", FALSE, {"cursor", "plain"})
  \cup AskedOf(Version(<<>>, <<2, 0>>, <<>>), TRUE, "major", TRUE, {"cursor", "whole"})
  \cup AskedOf(Version(<<V>>, <<0, 9>>, <<>>), FALSE, "patch", TRUE, {"cursor", "plain"})
  \cup AskedOf(LatestTag, FALSE, "major", FALSE, {"cursor"})
  \cup AskedOf(Untagged, TRUE, "major", TRUE, {"whole"})
MCPreWords == {Rc}

\* Versions below 1 with a number in the variant: 0.9.1-alpine3.
ZeroTags == {Version(<<>>, c, <<Dash, Alpine, 3>>) : c \in {<<0, 9, 1>>, <<0, 9, 2>>, <<0, 10, 0>>}}
ZeroRequests == AskedOf(Version(<<>>, <<0, 9, 1>>, <<Dash, Alpine, 3>>), FALSE, "major", TRUE, {"cursor", "plain", "whole"})
ZeroSpec == ImageInit /\ chart = NoChart /\ [][ImageNext /\ UNCHANGED chart]_<<imageVars, chart>>

----------------------------------------------------------------------------
(* Charts: two majors of two minors of two patches, a pre-release and a tag  *)
(* that is no version; declared as versions, constraints or neither.         *)
Chart(core, pre) == [core |-> core, pre |-> pre]
Stables == {Chart(<<i, j, k>>, 0) : i \in {1, 2}, j \in {0, 1}, k \in {0, 1}}
Candidate == Chart(<<2, 0, 0>>, 1)
DeclaredVersions ==
  Stables \cup {Candidate, Junk, NoVersion}
  \cup [op : {"ge", "caret", "tilde"}, low : {Chart(<<i, j, 0>>, 0) : i \in {1, 2}, j \in {0, 1}}]

TagLists == {tags \in SUBSET (Stables \cup {Candidate, Junk}) : Cardinality(tags) <= MaxTags}

Failures ==
  {Failure("too_large", 0, FALSE, FALSE, ""), Failure("", 0, TRUE, FALSE, ""), Failure("", 0, FALSE, FALSE, "")}
  \cup {Failure(known, code, FALSE, FALSE, "") : known \in {"", "too_large"}, code \in {401, 403, 404, 418, 429, 500, 503}}
  \cup {Failure("", 0, FALSE, late, net) : late \in BOOLEAN, net \in {"", "refused", "timeout"}}

Charts ==
  [proto : {"https"}, repo : {TRUE}, decl : DeclaredVersions, scope : {"all", "minor", "patch"},
   failed : {{}}, tags : TagLists, listed : {TRUE}]
  \cup [proto : {"http", "https", "oci", "git"}, repo : BOOLEAN, scope : {"all"},
        decl : {Chart(<<1, 0, 0>>, 0), Junk, NoVersion}, listed : BOOLEAN,
        failed : {{}} \cup {{f} : f \in Failures}, tags : {{Chart(<<1, 1, 0>>, 0)}}]
=============================================================================
