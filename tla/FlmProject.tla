------------------------------ MODULE FlmProject ------------------------------
(***************************************************************************)
(* A Flavent project on disk and the commands `flavent pkg add` and        *)
(* `flavent pkg install` (flavent/flm.py): the manifest flm.json, the      *)
(* clones under .flavent/git, the links under vendor/, the lock file, the  *)
(* remote repositories, and a crash of the command between any two of its  *)
(* effects on the disk.                                                    *)
(*                                                                         *)
(* A commit is <<u, k>>: the k-th commit of the repository at url u.       *)
(***************************************************************************)
EXTENDS Naturals, FiniteSets

CONSTANTS
  Names,       \* dependency names
  Urls,        \* git urls
  Specs,       \* Specs[n]: the specs a user writes for n
  MaxCommits,  \* bound on the commits of one remote
  None,        \* nothing there
  Torn         \* a file truncated by write_text and not written, a clone without a commit

Commit == Urls \X (1..MaxCommits)
GitSpec == [kind : {"git"}, url : Urls, rev : Commit \cup {None}]
PathSpec == [kind : {"path"}]
BadSpec == [kind : {"bad"}]   \* rejected by _normalize_dependency_spec
Spec_ == GitSpec \cup PathSpec \cup BadSpec

ASSUME SpecsAssumption == Specs \in [Names -> SUBSET Spec_]
ASSUME BoundsAssumption == MaxCommits \in Nat \ {0}

\* whole: the files of the commit at head are all there.
Clone == [url : Urls, upto : 1..MaxCommits, head : Commit, whole : BOOLEAN]
Resolved == [kind : {"path"}] \cup [kind : {"git"}, url : Urls, rev : Commit]

\* None and Torn are not a value of what they stand in for.
ASSUME DistinctAssumption ==
  /\ None # Torn /\ None \notin Spec_ \cup Clone \cup Resolved \cup {"path", "git"}
  /\ Torn \notin Clone /\ Torn \notin [Names -> Spec_ \cup {None}]

Steps == {"idle", "pick", "fetch", "cloning", "checkout", "unlink", "link", "write"}

VARIABLES
  remote,    \* remote[u]: how many commits the repository at u has
  present,   \* the path dependencies whose source exists
  manifest,  \* manifest[n]: the spec of n in flm.json; or Torn
  cache,     \* cache[n]: the clone in .flavent/git/n
  vendor,    \* vendor[n]: what the link vendor/n points to
  lock,      \* "resolved" of flm.lock.json, None if there is no lock, or Torn
  at,        \* where the install command stands
  deps,      \* the dependencies it read
  todo,      \* those it has not installed
  cur,       \* the one it is installing
  resolved,  \* what it will write to the lock
  last       \* history: the last lock written, and for which dependencies

diskVars == <<manifest, cache, vendor, lock>>
installVars == <<at, deps, todo, cur, resolved>>
vars == <<remote, present, manifest, cache, vendor, lock, at, deps, todo, cur,
          resolved, last>>

Nothing == [n \in Names |-> None]

(* A fresh project (init_project), and a remote with one commit.            *)
Init ==
  /\ remote = [u \in Urls |-> 1] /\ present = Names
  /\ manifest = Nothing /\ cache = Nothing /\ vendor = Nothing
  /\ lock = None /\ last = None
  /\ at = "idle" /\ deps = Nothing /\ todo = {} /\ cur = None /\ resolved = Nothing

-----------------------------------------------------------------------------
(* The world around the command.                                            *)

Push(u) ==
  /\ remote[u] < MaxCommits /\ remote' = [remote EXCEPT ![u] = @ + 1]
  /\ UNCHANGED <<present, last>> /\ UNCHANGED diskVars /\ UNCHANGED installVars

MoveSource(n) ==
  /\ present' = (present \ {n}) \cup ({n} \ present)
  /\ UNCHANGED <<remote, last>> /\ UNCHANGED diskVars /\ UNCHANGED installVars

(* flm.json is edited by hand, or by add_dependency, which replaces the     *)
(* spec of n; while it rewrites the file a crash leaves it truncated.       *)
Edit(n, s) ==
  /\ at = "idle"
  /\ manifest' \in {Torn, [(IF manifest = Torn THEN Nothing ELSE manifest) EXCEPT ![n] = s]}
  /\ UNCHANGED <<remote, present, cache, vendor, lock, last>> /\ UNCHANGED installVars

(* The project is checked out elsewhere, with its manifest and its lock.    *)
FreshCheckout ==
  /\ at = "idle" /\ cache' = Nothing /\ vendor' = Nothing
  /\ UNCHANGED <<remote, present, manifest, lock, last>> /\ UNCHANGED installVars

-----------------------------------------------------------------------------
(* install().                                                               *)

Idle == /\ at' = "idle" /\ deps' = Nothing /\ todo' = {} /\ cur' = None
        /\ resolved' = Nothing

(* An exception, or the death of the process, between two effects.          *)
Fail ==
  /\ at # "idle" /\ Idle
  /\ UNCHANGED <<remote, present, last>> /\ UNCHANGED diskVars

(* A manifest that cannot be parsed ends the command at once.               *)
Begin ==
  /\ at = "idle" /\ manifest # Torn
  /\ at' = "pick" /\ deps' = manifest /\ todo' = {n \in Names : manifest[n] # None}
  /\ UNCHANGED <<remote, present, cur, resolved, last>> /\ UNCHANGED diskVars

(* The next dependency; a bad spec and a missing source raise (Fail).       *)
Pick(n) ==
  /\ at = "pick" /\ n \in todo /\ deps[n].kind # "bad"
  /\ deps[n].kind = "path" => n \in present
  /\ cur' = n /\ todo' = todo \ {n}
  /\ at' = IF deps[n].kind = "path" THEN "unlink" ELSE "fetch"
  /\ resolved' = IF deps[n].kind = "path" THEN [resolved EXCEPT ![n] = [kind |-> "path"]]
                                          ELSE resolved
  /\ UNCHANGED <<remote, present, deps, last>> /\ UNCHANGED diskVars

(* An existing directory is kept, whatever it holds; otherwise git clones.  *)
ReuseSameUrl == cache[cur] \notin {None, Torn} /\ cache[cur].url = deps[cur].url
                                       \* fault: a clone is replaced in place
Reuse == cache[cur] # None

KeepClone ==
  /\ at = "fetch" /\ Reuse /\ at' = "checkout"
  /\ UNCHANGED <<remote, present, deps, todo, cur, resolved, last>>
  /\ UNCHANGED diskVars

CloneBegin ==
  /\ at = "fetch" /\ ~Reuse
  /\ cache' = [cache EXCEPT ![cur] = Torn] /\ at' = "cloning"
  /\ UNCHANGED <<remote, present, manifest, vendor, lock, deps, todo, cur, resolved, last>>

\* A clone of what the remote at u holds, with the files or without some.
NewClone(u, w) == [url |-> u, upto |-> remote[u], head |-> <<u, remote[u]>>, whole |-> w]

CloneEnd ==
  /\ at = "cloning" /\ cache' = [cache EXCEPT ![cur] = NewClone(deps[cur].url, TRUE)]
  /\ at' = "checkout"
  /\ UNCHANGED <<remote, present, manifest, vendor, lock, deps, todo, cur, resolved, last>>

(* git clone fails by itself and removes what it made.                      *)
CloneError ==
  /\ at = "cloning" /\ Idle /\ cache' = [cache EXCEPT ![cur] = None]
  /\ UNCHANGED <<remote, present, manifest, vendor, lock, last>>

(* git clone has the commits, and fails or is killed while it writes the    *)
(* files: git keeps the directory, whose HEAD is valid.  (Killed before it  *)
(* has the commits it leaves a Torn clone: Fail.)                           *)
CloneCut ==
  /\ at = "cloning" /\ Idle /\ cache' = [cache EXCEPT ![cur] = NewClone(deps[cur].url, FALSE)]
  /\ UNCHANGED <<remote, present, manifest, vendor, lock, last>>

(* git checkout rev, which finds only what the clone holds; without a rev   *)
(* HEAD stays where an earlier install left it.  Files that are missing may *)
(* stay missing, and a checkout that is cut short leaves HEAD where it was. *)
Has(c, r) == r[1] = c.url /\ r[2] <= c.upto
HeadKept(c, s) == c.head                \* fault: rev is not checked out
CheckedOut(c, s) == IF s.rev = None THEN c.head ELSE s.rev

(* git rev-parse HEAD, for the lock.                                        *)
RevAsWritten(c, s) == s.rev             \* fault: the lock repeats the manifest
RevParse(c, s) == CheckedOut(c, s)

\* What git rev-parse and git checkout ask for, and what becomes of the files.
Found(c, s) == c # Torn /\ (s.rev # None => Has(c, s.rev))
Whole(c, s) == IF c.whole \/ s.rev = None THEN {c.whole} ELSE BOOLEAN

Checkout ==
  /\ at = "checkout" /\ Found(cache[cur], deps[cur])
  /\ \E w \in Whole(cache[cur], deps[cur]) :
       cache' = [cache EXCEPT ![cur].head = CheckedOut(cache[cur], deps[cur]), ![cur].whole = w]
  /\ resolved' = [resolved EXCEPT ![cur] = [kind |-> "git", url |-> deps[cur].url,
                                            rev |-> RevParse(cache[cur], deps[cur])]]
  /\ at' = "unlink"
  /\ UNCHANGED <<remote, present, manifest, vendor, lock, deps, todo, cur, last>>

CheckoutCut ==
  /\ at = "checkout" /\ Found(cache[cur], deps[cur])
  /\ deps[cur].rev \notin {None, cache[cur].head}
  /\ Idle /\ cache' = [cache EXCEPT ![cur].whole = FALSE]
  /\ UNCHANGED <<remote, present, manifest, vendor, lock, last>>

(* The old entry of vendor/ is removed, then the new link is made.          *)
Unlink ==
  /\ at = "unlink" /\ vendor' = [vendor EXCEPT ![cur] = None] /\ at' = "link"
  /\ UNCHANGED <<remote, present, manifest, cache, lock, deps, todo, cur, resolved, last>>

Link ==
  /\ at = "link" /\ vendor' = [vendor EXCEPT ![cur] = deps[cur].kind] /\ at' = "pick"
  /\ UNCHANGED <<remote, present, manifest, cache, lock, deps, todo, cur, resolved, last>>

(* All dependencies done: the wrappers are generated (or that raises), and  *)
(* the lock is truncated and written.                                       *)
Truncate ==
  /\ at = "pick" /\ todo = {} /\ lock' = Torn /\ at' = "write"
  /\ UNCHANGED <<remote, present, manifest, cache, vendor, deps, todo, cur, resolved, last>>

WriteLock ==
  /\ at = "write" /\ lock' = resolved /\ last' = [deps |-> deps, lock |-> resolved] /\ Idle
  /\ UNCHANGED <<remote, present, manifest, cache, vendor>>

Install ==
  \/ Begin \/ KeepClone \/ CloneBegin \/ CloneEnd \/ CloneError \/ CloneCut
  \/ Checkout \/ CheckoutCut
  \/ Unlink \/ Link \/ Truncate \/ WriteLock \/ Fail
  \/ \E n \in Names : Pick(n)

Next ==
  \/ Install
  \/ \E u \in Urls : Push(u)
  \/ \E n \in Names : MoveSource(n) \/ \E s \in Specs[n] \cup {None} : Edit(n, s)
  \/ FreshCheckout

Spec == Init /\ [][Next]_vars

-----------------------------------------------------------------------------
(* Every variable has its type.                                             *)
TypeOK ==
  /\ remote \in [Urls -> 1..MaxCommits] /\ present \subseteq Names
  /\ manifest \in [Names -> Spec_ \cup {None}] \cup {Torn}
  /\ cache \in [Names -> Clone \cup {None, Torn}]
  /\ vendor \in [Names -> {"path", "git", None}]
  /\ lock \in [Names -> Resolved \cup {None}] \cup {None, Torn}
  /\ at \in Steps /\ deps \in [Names -> Spec_ \cup {None}]
  /\ todo \subseteq Names /\ cur \in Names \cup {None}
  /\ resolved \in [Names -> Resolved \cup {None}]
  /\ last \in [deps : [Names -> Spec_ \cup {None}],
                lock : [Names -> Resolved \cup {None}]] \cup {None}

(* The lock file is touched only when every dependency of the manifest that *)
(* install read is in place, and then it tells what is in place: the link   *)
(* is of the locked kind, the HEAD of the clone it leads to is at the         *)
(* locked commit, and that is the commit the manifest asks for, if it asks  *)
(* for one.  Interrupted installs before this one make no difference.       *)
LockDescribesVendor ==
  [][lock' # lock =>
       \A n \in Names :
         /\ resolved[n] = None <=> deps[n] = None
         /\ resolved[n] # None =>
              /\ vendor[n] = resolved[n].kind
              /\ vendor[n] = "git" => /\ cache[n].head = resolved[n].rev
                                     /\ deps[n].rev \in {None, resolved[n].rev}
    ]_vars

(* A link into the clone cache leads to a clone with a commit, also while   *)
(* an install runs and after it was killed: a link is made after its clone, *)
(* and no clone is ever taken away or replaced.  That git rev-parse answers *)
(* is all that install asks of a clone it finds; see LinkedTreesWhole.      *)
NoDanglingLink == \A n \in Names : vendor[n] = "git" => cache[n] \notin {None, Torn}

(* FLM_SPEC.md calls vendor/ "Installed source dependencies".  Not so: when *)
(* git clone or git checkout was cut short while it wrote the files, the    *)
(* next install finds a HEAD, links what is there and locks it.             *)
LinkedTreesWhole == \A n \in Names : vendor[n] = "git" => cache[n].whole

(* "Reproducible builds: Lockfile pins exact sources" (FLM_SPEC.md): while  *)
(* the dependencies in flm.json stay the same, installing them again        *)
(* resolves them to what the lock says. Not so: install never reads it.     *)
Reproducible ==
  [][last # None /\ last' # last /\ last'.deps = last.deps => last'.lock = last.lock]_vars
=============================================================================
