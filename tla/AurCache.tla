------------------------------ MODULE AurCache ------------------------------
(***************************************************************************)
(* The snapshot cache of one package (harness/aur.py: AurClient.pkgbuild), *)
(* used by several threads and processes while the package is pushed to.   *)
(* The index is asked for the current release, and the build files are     *)
(* fetched afterwards and cached under it.                                 *)
(*                                                                         *)
(* A release stands for its (version, LastModified) label, so two pushes   *)
(* of one version within a second are one release; releases are numbered   *)
(* in the order they are pushed.  What a tarball holds is the subject of   *)
(* ReadSnapshot, at the end.                                               *)
(***************************************************************************)
EXTENDS Integers, Sequences

CONSTANT Client

VARIABLES
  release,  \* the release the AUR serves
  cache,    \* per label, the release whose files are cached; Unreadable else
  client    \* each caller's step, label and files

cacheVars == <<release, cache, client>>

\* No file, one that does not parse, one past the read cap or of an older form.
Unreadable == 0
Release == Nat \ {0}

Idle == [at |-> "idle", label |-> Unreadable, files |-> Unreadable]

CacheTypeOK ==
  /\ release \in Release /\ cache \in [Release -> Nat]
  /\ client \in [Client -> [at : {"idle", "look", "fetch", "store", "write", "done"}, label : Nat, files : Nat]]

CacheInit ==
  /\ release = 1 /\ cache = [r \in Release |-> Unreadable]
  /\ client = [c \in Client |-> Idle]

\* The index names the package.
Ask(c) ==
  /\ client[c].at = "idle"
  /\ client' = [client EXCEPT ![c] = [at |-> "look", label |-> release, files |-> Unreadable]]
  /\ UNCHANGED <<release, cache>>

\* The cache answers if it can; no request is made then.
LookUp(c) ==
  /\ client[c].at = "look"
  /\ client' = [client EXCEPT ![c] =
       IF cache[@.label] # Unreadable THEN [@ EXCEPT !.at = "done", !.files = cache[client[c].label]]
       ELSE [@ EXCEPT !.at = "fetch"]]
  /\ UNCHANGED <<release, cache>>

\* The snapshot's address names the package and no release.
Fetch(c) ==
  /\ client[c].at = "fetch"
  /\ client' = [client EXCEPT ![c] = [@ EXCEPT !.at = "store", !.files = release]]
  /\ UNCHANGED <<release, cache>>

\* write_text truncates the file and then writes it; two writers of one label,
\* a full disk or a kill leave something that no reader accepts.
Truncate(c) ==
  /\ client[c].at = "store"
  /\ cache' = [cache EXCEPT ![client[c].label] = Unreadable]
  /\ client' = [client EXCEPT ![c] = [@ EXCEPT !.at = "write"]]
  /\ UNCHANGED release

Write(c) ==
  /\ client[c].at = "write"
  /\ \E left \in {client[c].files, Unreadable} : cache' = [cache EXCEPT ![client[c].label] = left]
  /\ client' = [client EXCEPT ![c] = [@ EXCEPT !.at = "done"]]
  /\ UNCHANGED release

\* A cache that cannot be written to is done without.
Uncached(c) ==
  /\ client[c].at = "store"
  /\ client' = [client EXCEPT ![c] = [@ EXCEPT !.at = "done"]]
  /\ UNCHANGED <<release, cache>>

\* The caller has its answer; or the call raised, or its process was killed.
Leave(c) ==
  /\ client[c].at # "idle"
  /\ client' = [client EXCEPT ![c] = Idle]
  /\ UNCHANGED <<release, cache>>

Push == release' = release + 1 /\ UNCHANGED <<cache, client>>

CacheNext ==
  \/ Push
  \/ \E c \in Client : Ask(c) \/ LookUp(c) \/ Fetch(c) \/ Truncate(c) \/ Write(c) \/ Uncached(c) \/ Leave(c)

CacheSpec == CacheInit /\ [][CacheNext]_cacheVars

\* The files answered under a label are never older than it, whoever cached
\* them.  They may be newer, if the package was pushed in between, and are
\* then what every later caller of that label is given.
NeverOlder ==
  \A c \in Client : client[c].at = "done" => client[c].label <= client[c].files /\ client[c].files <= release

-----------------------------------------------------------------------------
\* A member of a snapshot's tarball: a path without its first component.
Member == [file : BOOLEAN, path : STRING, safe : BOOLEAN, text : BOOLEAN]

Regular(tar) == {i \in DOMAIN tar : tar[i].file}

\* _read_snapshot: the files listed and those whose text is kept.  Of two
\* members of one path the later one's text stays.  No answer stands for a
\* refusal; past a cap on the members or their size it is one too.
ReadSnapshot(tar, withinCaps) ==
  LET paths == {tar[i].path : i \in Regular(tar)}
      texts == {tar[i].path : i \in {j \in Regular(tar) : tar[j].text}} \ {"PKGBUILD"}
  IN IF withinCaps /\ (\A i \in Regular(tar) : tar[i].safe) /\ "PKGBUILD" \in paths
       THEN {[files |-> paths, texts |-> texts]} ELSE {}

=============================================================================
