------------------------------ MODULE RepoConfig ------------------------------
(***************************************************************************)
(* What config.Load accepts and normalises (internal/config/config.go),    *)
(* and what git is run with for an accepted repository (authEnv of         *)
(* internal/gitsync/gitsync.go, scanRepo of internal/scan/runner.go).      *)
(* Pure functions of the document; RepoScan models git itself.             *)
(*                                                                         *)
(* A repository's name and URL are sequences of characters, with a whole   *)
(* word for one character; its path is a sequence of names.  Other texts   *)
(* are values; Padded and Raised say which of them are others with blanks  *)
(* around them, or in upper case.                                          *)
(***************************************************************************)
EXTENDS Integers, Sequences, FiniteSets

CONSTANTS
  Padded, Raised,    \* text -> the text without its blanks, in lower case
  ReadableFiles,     \* files of credentials, host keys, registries that can be read
  Durations,         \* text -> the seconds it says; a text outside says none
  MaxRepoDirLen,     \* limit of a checkout directory's name
  Refused,           \* an error
  NoConfig           \* nothing is loaded

VARIABLE config  \* the document that is loaded

(* Blanks are taken away at once; the types of updates and the transports need neither. *)
ASSUME TextsAssumption ==
  /\ \A t \in DOMAIN Padded : Padded[t] \notin DOMAIN Padded
  /\ {"all", "major", "minor", "patch"} \cap (DOMAIN Padded \cup DOMAIN Raised) = {}
  /\ {"https", "http", "ssh", "git", "file"} \cap DOMAIN Raised = {}
  /\ \A d \in DOMAIN Durations : Durations[d] \in Int
  /\ "first seen" \notin ReadableFiles

Trim(t) == IF t \in DOMAIN Padded THEN Padded[t] ELSE t
Lower(t) == IF t \in DOMAIN Raised THEN Raised[t] ELSE t

(* Positions of a pattern, and the text around them. *)
At(u, pattern) ==
  {i \in DOMAIN u : i + Len(pattern) - 1 <= Len(u) /\ SubSeq(u, i, i + Len(pattern) - 1) = pattern}
FirstAt(u, c) == CHOOSE i \in At(u, c) : \A j \in At(u, c) : i <= j
LastAt(u, c) == IF At(u, c) = {} THEN 0 ELSE CHOOSE i \in At(u, c) : \A j \in At(u, c) : j <= i
UpTo(u, c) == IF At(u, c) = {} THEN u ELSE SubSeq(u, 1, FirstAt(u, c) - 1)

----------------------------------------------------------------------------
(* Locations *)

Mark == <<":", "/", "/">>
Transports == {"https", "http", "ssh", "git", "file"}

(* The scheme in lower case: the URL itself keeps the case it was given. *)
Scheme(u) ==
  IF At(u, Mark) # {}
  THEN IF FirstAt(u, Mark) = 2 /\ Lower(u[1]) \in Transports THEN Lower(u[1]) ELSE Refused
  ELSE IF At(u, <<":">>) # {} /\ Head(u) \notin {"/", "."} THEN "ssh" ELSE "local"

(* The text before the host, in a set; empty if there is none. *)
Userinfo(u) ==
  LET rest == IF At(u, Mark) = {} THEN u ELSE SubSeq(u, FirstAt(u, Mark) + 3, Len(u))
      authority == UpTo(rest, <<"/">>)
      colon == LastAt(authority, <<":">>)
      host == IF At(u, Mark) = {} /\ colon > LastAt(authority, <<"@">>)
              THEN SubSeq(authority, 1, colon - 1) ELSE authority
  IN IF At(host, <<"@">>) = {} THEN {} ELSE {SubSeq(host, 1, LastAt(host, <<"@">>) - 1)}

HasPassword(login) == At(login, <<":">>) # {} /\ FirstAt(login, <<":">>) < Len(login)

ClassifyRepoURL(u) ==
  IF \/ u = <<>> \/ Head(u) = "-" \/ At(u, <<":", ":">>) # {}
     \/ \E login \in Userinfo(u) : HasPassword(login) \/ Scheme(u) \in {"http", "https"}
  THEN Refused ELSE Scheme(u)

(* Mutant: every name is its directory. *)
SafeNameAsIs(name) == name

(* Bound: the characters that are not kept. *)
Replaced == {" ", "/", ":", "@"}

SafeName(name) == [i \in DOMAIN name |-> IF name[i] \in Replaced THEN "-" ELSE name[i]]

(* filepath.IsLocal: not absolute, and never above where it begins. *)
IsLocal(path) ==
  /\ path # <<>> /\ Head(path) # "/"
  /\ \A n \in DOMAIN path :
       Cardinality({i \in 1 .. n : path[i] = ".."}) <= Cardinality({i \in 1 .. n : path[i] \notin {".", ".."}})

----------------------------------------------------------------------------
(* Repositories *)

(* Mutant: the trimmed type is validated and the other one kept. *)
TrimTypeOfCopy(auth) == auth

TrimType(auth) == [auth EXCEPT !.type = Trim(@)]
TrimRepo(repo) == [repo EXCEPT !.auth = TrimType(@)]

HasCredentials(auth) ==
  \E f \in {"token", "tokenFile", "username", "password", "passwordFile", "sshKey"} : auth[f] # ""

AuthValid(auth, scheme) ==
  LET type == Trim(auth.type) IN
  /\ type \in {"", "token", "basic", "ssh"}
  /\ type = "" => ~HasCredentials(auth)
  /\ type \in {"token", "basic"} => scheme = "https"

RepoValid(repo) ==
  LET dir == SafeName(repo.name)
      scheme == ClassifyRepoURL(repo.url) IN
  /\ repo.name # <<>> /\ Head(dir) # "." /\ Len(dir) <= MaxRepoDirLen
  /\ repo.path = <<>> \/ IsLocal(repo.path)
  /\ scheme # Refused /\ AuthValid(repo.auth, scheme)

ReposValid(repos) ==
  /\ repos # <<>>
  /\ \A i \in DOMAIN repos : RepoValid(repos[i])
  /\ \A i, j \in DOMAIN repos : i # j => SafeName(repos[i].name) # SafeName(repos[j].name)

DefaultParallelChecks == 5
DefaultScanTimeout == 1800  \* seconds

(* The limit of a scan, 0 for none. *)
ScanDeadline(text) ==
  IF text = "" THEN DefaultScanTimeout
  ELSE IF text \notin DOMAIN Durations \/ Durations[text] < 0 THEN Refused
  ELSE Durations[text]

UpdateType(text) == IF Lower(Trim(text)) = "" THEN "all" ELSE Lower(Trim(text))

Load(doc) ==
  IF /\ \A key \in DOMAIN doc.switches : doc.switches[key] \in {"unset", "null", "true", "false"}
     /\ ReposValid(doc.repos)
     /\ UpdateType(doc.updateType) \in {"all", "major", "minor", "patch"}
     /\ ScanDeadline(doc.scanTimeout) # Refused
     /\ doc.registryAuthFile \in {""} \cup ReadableFiles
  THEN [doc EXCEPT !.repos = [i \in DOMAIN @ |-> TrimRepo(@[i])],
                   !.updateType = UpdateType(@),
                   !.parallelChecks = IF @ <= 0 THEN DefaultParallelChecks ELSE @]
  ELSE Refused

----------------------------------------------------------------------------
(* What git is run with: the user and secret of its header, its ssh key    *)
(* and the hosts it trusts.                                                *)

Secret(inline, file) ==
  IF inline # "" \/ file = "" THEN inline ELSE IF file \in ReadableFiles THEN "read" ELSE ""

Header(user, secret) == IF secret = "" THEN {} ELSE {<<user, secret>>}
Env(header, key, hosts) == [header |-> header, sshKey |-> key, trusts |-> hosts]

SSHCommand(auth) ==
  IF auth.knownHosts = "" THEN Env({}, auth.sshKey, "first seen")
  ELSE IF auth.knownHosts \in ReadableFiles THEN Env({}, auth.sshKey, auth.knownHosts)
  ELSE Refused

AuthEnv(repo) ==
  LET a == repo.auth IN
  CASE a.type = "ssh" /\ a.sshKey # "" -> SSHCommand(a)
    [] a.type = "token" -> Env(Header("git", Secret(a.token, a.tokenFile)), "", "")
    [] a.type = "basic" -> Env(Header(a.username, Secret(a.password, a.passwordFile)), "", "")
    [] OTHER -> Env({}, "", "")

----------------------------------------------------------------------------
(***************************************************************************)
(* What a scan may rely on once its configuration was loaded, whatever the *)
(* document says.  Repositories scanned side by side have directories of   *)
(* their own below the workspace.  git gets the credential the document    *)
(* gives for the type it names, blanks or not, and gets one only where the *)
(* transport that git itself reads from the URL is https; it trusts a host *)
(* unseen only where no file of host keys is named.  There is always a     *)
(* check to run and a time limit or none, and loading what was loaded      *)
(* changes nothing.                                                        *)
(*                                                                         *)
(* git reads the scheme as it was typed, and config.Load in lower case:    *)
(* "HTTPS://" is accepted and then refused by git (GIT_ALLOW_PROTOCOL), so *)
(* transports are compared in lower case here.                             *)
(***************************************************************************)
GitTransport(u) ==
  LET host == UpTo(u, <<"/">>) IN
  IF At(u, Mark) # {} /\ FirstAt(u, Mark) = 2 THEN u[1]
  ELSE IF At(host, <<":">>) # {} THEN "ssh" ELSE "file"

Provided(auth) ==
  CASE Trim(auth.type) = "token" -> Secret(auth.token, auth.tokenFile)
    [] Trim(auth.type) = "basic" -> Secret(auth.password, auth.passwordFile)
    [] OTHER -> ""

LoadSound(doc) ==
  LET cfg == Load(doc)
      Dir(i) == SafeName(cfg.repos[i].name)
      RepoSound(repo, declared) ==
        LET env == AuthEnv(repo) IN
        /\ Lower(GitTransport(repo.url)) \in Transports
        /\ env = Refused => repo.auth.knownHosts \notin ReadableFiles
        /\ env # Refused =>
             /\ env.header # {} <=> Provided(declared) # ""
             /\ env.header # {} => Lower(GitTransport(repo.url)) = "https"
             /\ env.trusts = "first seen" => declared.knownHosts = "" IN
  cfg # Refused =>
    /\ \A i, j \in DOMAIN cfg.repos : i # j => Dir(i) # Dir(j)
    /\ \A i \in DOMAIN cfg.repos :
         /\ Dir(i) \notin {<<>>, <<".">>, <<".", ".">>} /\ At(Dir(i), <<"/">>) = {}
         /\ RepoSound(cfg.repos[i], doc.repos[i].auth)
    /\ cfg.parallelChecks > 0 /\ ScanDeadline(cfg.scanTimeout) >= 0
    /\ Load(cfg) = cfg

(* Whatever document is accepted, the scan gets what it relies on            *)
(* (config.go:92, gitsync.go:118): see LoadSound.                            *)
EveryLoadSound == config # NoConfig => LoadSound(config)
=============================================================================
