----------------------------- MODULE MCRepoScan -----------------------------
(* Revisions with sources and releases in one file or two, a source that is  *)
(* declared twice, one that is gone from a later revision, and one that      *)
(* stands in a file that is too large.                                       *)
EXTENDS RepoScan, RepoConfig, TLC

Entry(repo) == [repo |-> repo, chart |-> "app", version |-> "1"]
Helm(ns, repo) == [kind |-> "HelmRepository", ns |-> ns, name |-> "charts", entry |-> Entry(repo)]
OCI(ns, repo) == [kind |-> "OCIRepository", ns |-> ns, name |-> "charts", entry |-> Entry(repo)]
Release(name, ns, kind) ==
  [kind |-> "HelmRelease", name |-> name, ns |-> ns, chart |-> "app", version |-> "2",
   from |-> [kind |-> kind, ns |-> "", name |-> "charts"]]
File(docs) == [docs |-> docs, fits |-> TRUE]

MCKeys == {"HelmRepository", "OCIRepository"} \X {"", "team", "apps"} \X {"charts"}
MCEntries == {Entry(r) : r \in {"old", "new", "team", "huge"}}
MCUrls == {"a", "b"}

First == {File(<<Helm("", "old"), Release("x", "team", "HelmRepository")>>),
          File(<<Helm("team", "team"), OCI("", "old")>>),
          File(<<Release("y", "apps", "OCIRepository"), Release("z", "apps", "inline")>>)}
Second == {File(<<Release("x", "team", "HelmRepository")>>),
           File(<<Helm("team", "old")>>),
           File(<<OCI("apps", "old"), OCI("apps", "new"), Helm("team", "new")>>),
           [docs |-> <<OCI("team", "huge"), Release("w", "team", "OCIRepository")>>, fits |-> FALSE],
           File(<<Release("y", "team", "OCIRepository")>>)}
MCTree == [r \in Revs |-> IF r[2] = 1 THEN First ELSE Second]

----------------------------------------------------------------------------
(* Documents: one repository with any URL of a few words, or with any auth   *)
(* block; two repositories with any names; any other option.                 *)
MCPadded == " token" :> "token" @@ " ALL " :> "ALL"
MCRaised == "ALL" :> "all" @@ "HTTPS" :> "https"
MCDurations == "30m" :> 1800 @@ "0" :> 0 @@ "-1s" :> -1

Words(n, S) == UNION {[1 .. k -> S] : k \in 0 .. n}
Prefixes == {<<>>, <<"ftp", ":", "/", "/">>, <<"w", ":", "https", ":", "/", "/">>}
            \cup {<<s, ":", "/", "/">> : s \in {"https", "HTTPS", "http", "ssh", "file"}}
Locations == {p \o w : p \in Prefixes, w \in Words(4, {"w", ":", "@", "/", ".", "-"})}
Host == <<"https", ":", "/", "/", "w">>

NoAuth == [type |-> "", token |-> "", tokenFile |-> "", username |-> "", password |-> "",
           passwordFile |-> "", sshKey |-> "", knownHosts |-> ""]
Token == [NoAuth EXCEPT !.type = " token", !.token = "t"]
Auths == [type : {"", "token", " token", "basic", "ssh", "oauth"}, token : {"", "t"}, tokenFile : {"", "f", "gone"},
          username : {"", "u"}, password : {"", "p"}, passwordFile : {"", "f"}, sshKey : {"", "k"},
          knownHosts : {"", "f", "gone"}]
RepoNamed(name, location, auth) == [name |-> name, url |-> location, path |-> <<>>, auth |-> auth]
Document(repos) ==
  [repos |-> repos, updateType |-> "", parallelChecks |-> 0, scanTimeout |-> "", registryAuthFile |-> "",
   switches |-> [key \in {"check_images"} |-> "unset"]]

Loaded(doc) == config = doc
AnyLocation ==
  \E u \in Locations, a \in {NoAuth, Token} : Loaded(Document(<<RepoNamed(<<"w">>, u, a)>>))
AnyAuth ==
  \E u \in {Host, <<"http">> \o Tail(Host), <<"w", "@", "w", ":", "w">>}, a \in Auths :
    Loaded(Document(<<RepoNamed(<<"w">>, u, a)>>))
AnyNames ==
  \E names \in Words(2, Words(3, {"w", "/", "-", "."})) :
    Loaded(Document([i \in DOMAIN names |-> RepoNamed(names[i], Host, NoAuth)]))
AnyOptions ==
  \E p \in Words(2, {"w", "/", ".."}), t \in {"", " ALL ", "minor", "small"}, n \in -1 .. 1,
     d \in {"", "30m", "0", "-1s", "soon"}, f \in {"", "f", "gone"}, s \in {"unset", "null", "true", "yes"} :
    Loaded([Document(<<[RepoNamed(<<"w">>, Host, Token) EXCEPT !.path = p]>>) EXCEPT
              !.updateType = t, !.parallelChecks = n, !.scanTimeout = d, !.registryAuthFile = f,
              !.switches = [@ EXCEPT !["check_images"] = s]])

AnyDocument == AnyLocation \/ AnyAuth \/ AnyNames \/ AnyOptions
=============================================================================
