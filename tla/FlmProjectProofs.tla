--------------------------- MODULE FlmProjectProofs ---------------------------
(***************************************************************************)
(* Proofs about FlmProject, for any names, urls, specs and histories of    *)
(* the remotes: the variables keep their types, a link never leads to a    *)
(* clone that is missing or has no commit, and the lock is written only when it tells    *)
(* what is under vendor/.                                                  *)
(***************************************************************************)
EXTENDS FlmProject, TLAPS

Busy == {"fetch", "cloning", "checkout", "unlink", "link"}

(* The link, the clone behind it and the resolution of n agree.             *)
Agrees(n) ==
  /\ vendor[n] = resolved[n].kind
  /\ vendor[n] = "git" => /\ cache[n].head = resolved[n].rev
                          /\ deps[n].rev \in {None, resolved[n].rev}

(* A link still to be made is to a clone with a commit, its HEAD where the  *)
(* resolution says.                                                         *)
Prepared ==
  /\ resolved[cur] # None /\ resolved[cur].kind = deps[cur].kind
  /\ deps[cur].kind = "git" => /\ cache[cur] \notin {None, Torn}
                               /\ cache[cur].head = resolved[cur].rev
                               /\ deps[cur].rev \in {None, resolved[cur].rev}

(* The dependency at hand has been taken from todo, and how far its clone   *)
(* has come is told by where the command stands.                            *)
CurOK ==
  /\ at \in Busy => /\ cur \in Names /\ cur \notin todo
                    /\ deps[cur] # None /\ deps[cur].kind \in {"git", "path"}
  /\ at \in {"fetch", "cloning", "checkout"} => deps[cur].kind = "git"
  /\ at = "cloning" => cache[cur] = Torn
  /\ at = "checkout" => cache[cur] # None
  /\ at \in {"unlink", "link"} => Prepared

(* What has been installed is resolved and in place.                        *)
Settled(n) == n \notin todo /\ (at \in Busy => n # cur)
DoneOK ==
  \A n \in Names : Settled(n) => /\ resolved[n] = None <=> deps[n] = None
                                 /\ resolved[n] # None => Agrees(n)

(* Between two installs nothing of the last one is left.                    *)
RestOK ==
  /\ at = "idle" => deps = Nothing /\ resolved = Nothing /\ todo = {}
  /\ at = "write" => todo = {}
  /\ \A n \in todo : deps[n] # None

IInv == TypeOK /\ NoDanglingLink /\ CurOK /\ DoneOK /\ RestOK

-----------------------------------------------------------------------------
LEMMA InitOK == Init => IInv
<1> SUFFICES ASSUME Init PROVE IInv
  OBVIOUS
<1> USE BoundsAssumption, DistinctAssumption DEF Init, Nothing
<1>1. TypeOK
  BY DEF TypeOK, Steps
<1>2. NoDanglingLink
  BY DEF NoDanglingLink
<1>3. CurOK /\ DoneOK /\ RestOK
  BY DEF CurOK, DoneOK, RestOK, Settled, Busy
<1> QED BY <1>1, <1>2, <1>3 DEF IInv

(* The kind of a spec tells which fields it has.                            *)
LEMMA GitSpecOf == ASSUME NEW s \in Spec_, s.kind = "git" PROVE s \in GitSpec
BY DEF Spec_, PathSpec, BadSpec

LEMMA GitSpecFields == ASSUME NEW s \in GitSpec PROVE s.url \in Urls /\ s.rev \in Commit \cup {None}
BY DEF GitSpec

LEMMA CloneFields ==
  ASSUME NEW c \in Clone PROVE c.url \in Urls /\ c.upto \in 1..MaxCommits /\ c.head \in Commit
BY DEF Clone

LEMMA CloneChanged ==
  ASSUME NEW c \in Clone, NEW h \in Commit, NEW w \in BOOLEAN
  PROVE  /\ [c EXCEPT !.head = h, !.whole = w] \in Clone
         /\ [c EXCEPT !.head = h, !.whole = w].head = h
         /\ [c EXCEPT !.whole = w] \in Clone
BY DEF Clone

LEMMA NewCloneIsClone ==
  ASSUME TypeOK, NEW u \in Urls, NEW w \in BOOLEAN PROVE NewClone(u, w) \in Clone
BY DEF TypeOK, NewClone, Clone, Commit

(* Nothing is left of a command that ended or failed.                       *)
LEMMA IdleOK ==
  ASSUME TypeOK, Idle
  PROVE /\ at' = "idle" /\ deps' \in [Names -> Spec_ \cup {None}] /\ todo' = {} /\ cur' = None
        /\ resolved' \in [Names -> Resolved \cup {None}]
        /\ CurOK' /\ DoneOK' /\ RestOK'
<1> USE DEF Idle, Nothing
<1>1. CurOK'
  BY DEF CurOK, Busy
<1>2. DoneOK'
  BY DEF DoneOK, Settled
<1>3. RestOK'
  BY DEF RestOK
<1> QED BY <1>1, <1>2, <1>3

-----------------------------------------------------------------------------
(* The world changes nothing an install relies on, or does so at rest.      *)

LEMMA PushOK == ASSUME IInv, NEW u \in Urls, Push(u) PROVE IInv'
<1> USE DEF Push, diskVars, installVars
<1>1. TypeOK'
  BY BoundsAssumption DEF IInv, TypeOK
<1>2. NoDanglingLink' /\ CurOK' /\ DoneOK' /\ RestOK'
  BY DEF IInv, NoDanglingLink, CurOK, DoneOK, RestOK, Prepared, Settled, Agrees
<1> QED BY <1>1, <1>2 DEF IInv

LEMMA MoveSourceOK == ASSUME IInv, NEW n \in Names, MoveSource(n) PROVE IInv'
<1> USE DEF MoveSource, diskVars, installVars
<1>1. TypeOK'
  BY DEF IInv, TypeOK
<1>2. NoDanglingLink' /\ CurOK' /\ DoneOK' /\ RestOK'
  BY DEF IInv, NoDanglingLink, CurOK, DoneOK, RestOK, Prepared, Settled, Agrees
<1> QED BY <1>1, <1>2 DEF IInv

LEMMA EditOK ==
  ASSUME IInv, NEW n \in Names, NEW s \in Specs[n] \cup {None}, Edit(n, s) PROVE IInv'
<1> USE DEF Edit, installVars
<1>1. s \in Spec_ \cup {None}
  BY SpecsAssumption
<1>2. manifest' \in [Names -> Spec_ \cup {None}] \cup {Torn}
  BY <1>1 DEF IInv, TypeOK, Nothing
<1>3. TypeOK'
  BY <1>2 DEF IInv, TypeOK
<1>4. NoDanglingLink' /\ CurOK' /\ DoneOK' /\ RestOK'
  BY DEF IInv, NoDanglingLink, CurOK, DoneOK, RestOK, Prepared, Settled, Agrees
<1> QED BY <1>3, <1>4 DEF IInv

LEMMA FreshCheckoutOK == ASSUME IInv, FreshCheckout PROVE IInv'
<1> USE DistinctAssumption DEF FreshCheckout, installVars, Nothing
<1>1. TypeOK'
  BY DEF IInv, TypeOK
<1>2. NoDanglingLink'
  BY DEF NoDanglingLink
<1>3. CurOK' /\ DoneOK' /\ RestOK'
  BY DEF IInv, CurOK, DoneOK, RestOK, Settled, Agrees, Busy
<1> QED BY <1>1, <1>2, <1>3 DEF IInv

-----------------------------------------------------------------------------
(* The steps of install(), one by one.                                      *)

LEMMA FailOK == ASSUME IInv, Fail PROVE IInv'
<1> USE DEF Fail, diskVars
<1>1. TypeOK'
  BY IdleOK DEF IInv, TypeOK, Steps
<1>2. NoDanglingLink'
  BY DEF IInv, NoDanglingLink
<1> QED BY <1>1, <1>2, IdleOK DEF IInv

LEMMA BeginOK == ASSUME IInv, Begin PROVE IInv'
<1> USE DEF Begin, diskVars
<1>1. TypeOK'
  BY DEF IInv, TypeOK, Steps
<1>2. NoDanglingLink'
  BY DEF IInv, NoDanglingLink
<1>3. CurOK' /\ RestOK'
  BY DEF CurOK, RestOK, Busy
<1>4. DoneOK'
  BY DEF IInv, DoneOK, RestOK, Settled, Nothing
<1> QED BY <1>1, <1>2, <1>3, <1>4 DEF IInv

LEMMA PickOK == ASSUME IInv, NEW n \in Names, Pick(n) PROVE IInv'
<1> USE DEF Pick, diskVars
<1>0. /\ deps[n] \in Spec_ /\ deps[n] # None /\ deps[n].kind \in {"git", "path"}
  BY DistinctAssumption DEF IInv, TypeOK, RestOK, Spec_, GitSpec, PathSpec, BadSpec
<1>1. TypeOK'
  <2>1. [kind |-> "path"] \in Resolved
    BY DEF Resolved
  <2> QED BY <2>1 DEF IInv, TypeOK, Steps
<1>2. NoDanglingLink'
  BY DEF IInv, NoDanglingLink
<1>3. CurOK'
  <2>1. CASE deps[n].kind = "path"
    <3>1. /\ cur' = n /\ at' = "unlink" /\ deps' = deps /\ resolved'[n] = [kind |-> "path"]
      BY <2>1 DEF IInv, TypeOK
    <3>2. resolved'[n] # None
      BY <3>1, DistinctAssumption DEF Resolved
    <3>3. Prepared'
      BY <2>1, <3>1, <3>2 DEF Prepared
    <3> QED BY <1>0, <3>1, <3>3 DEF CurOK, Busy
  <2>2. CASE deps[n].kind # "path"
    BY <1>0, <2>2 DEF CurOK, Busy
  <2> QED BY <2>1, <2>2
<1>4. DoneOK'
  <2> SUFFICES ASSUME NEW k \in Names, Settled(k)'
               PROVE (resolved[k] = None <=> deps[k] = None)' /\ (resolved[k] # None => Agrees(k))'
    BY DEF DoneOK
  <2>1. k # n /\ Settled(k) /\ resolved'[k] = resolved[k]
    BY DEF Settled, Busy, IInv, TypeOK
  <2> QED BY <2>1 DEF IInv, DoneOK, Agrees
<1>5. RestOK'
  BY DEF IInv, RestOK
<1> QED BY <1>1, <1>2, <1>3, <1>4, <1>5 DEF IInv

(* Steps that only move on.                                                 *)
LEMMA KeepCloneOK == ASSUME IInv, KeepClone PROVE IInv'
<1> USE DEF KeepClone, Reuse, diskVars
<1>1. TypeOK'
  BY DEF IInv, TypeOK, Steps
<1>2. NoDanglingLink' /\ RestOK'
  BY DEF IInv, NoDanglingLink, RestOK
<1>3. CurOK'
  BY DEF IInv, CurOK, Busy
<1>4. DoneOK'
  BY DEF IInv, DoneOK, Settled, Agrees, Busy
<1> QED BY <1>1, <1>2, <1>3, <1>4 DEF IInv

(* Names other than the one at hand keep what makes them settled.           *)
LEMMA OthersSettled ==
  ASSUME IInv, cur \in Names, deps' = deps, todo' = todo, cur' = cur, at \in Busy, at' \in Busy,
         \A k \in Names \ {cur} : /\ resolved'[k] = resolved[k] /\ vendor'[k] = vendor[k]
                                  /\ cache'[k] = cache[k]
  PROVE  DoneOK'
<1> SUFFICES ASSUME NEW k \in Names, Settled(k)'
             PROVE (resolved[k] = None <=> deps[k] = None)' /\ (resolved[k] # None => Agrees(k))'
  BY DEF DoneOK
<1>1. k # cur /\ Settled(k)
  BY DEF Settled
<1> QED BY <1>1 DEF IInv, DoneOK, Agrees

LEMMA CloneBeginOK == ASSUME IInv, CloneBegin PROVE IInv'
<1> USE DEF CloneBegin, Reuse
<1>0. cur \in Names /\ deps[cur].kind = "git" /\ cache[cur] = None
  BY DEF IInv, CurOK, Busy
<1>1. TypeOK'
  BY <1>0 DEF IInv, TypeOK, Steps
<1>2. NoDanglingLink'
  BY <1>0 DEF IInv, NoDanglingLink, TypeOK
<1>3. CurOK' /\ RestOK'
  BY <1>0 DEF IInv, CurOK, RestOK, Busy, TypeOK
<1>4. DoneOK'
  BY <1>0, OthersSettled DEF IInv, TypeOK, Busy
<1> QED BY <1>1, <1>2, <1>3, <1>4 DEF IInv

LEMMA CloneEndOK == ASSUME IInv, CloneEnd PROVE IInv'
<1> USE DEF CloneEnd
<1>0. /\ cur \in Names /\ deps[cur].kind = "git" /\ deps[cur] # None
      /\ cache[cur] = Torn /\ cache \in [Names -> Clone \cup {None, Torn}]
  BY DEF IInv, CurOK, Busy, TypeOK
<1> DEFINE u == deps[cur].url
           c == NewClone(u, TRUE)
<1>1. u \in Urls
  BY <1>0, GitSpecOf, GitSpecFields DEF IInv, TypeOK
<1>2. c \in Clone
  BY <1>1, NewCloneIsClone DEF IInv
<1>3. cache' = [cache EXCEPT ![cur] = c] /\ cache'[cur] = c
  BY <1>0
<1> HIDE DEF c, u
<1>4. c # None /\ c # Torn
  BY <1>2, DistinctAssumption
<1>5. TypeOK'
  BY <1>0, <1>2, <1>3 DEF IInv, TypeOK, Steps
<1>6. NoDanglingLink'
  BY <1>0, <1>3, <1>4 DEF IInv, NoDanglingLink
<1>7. CurOK' /\ RestOK'
  BY <1>0, <1>3, <1>4 DEF IInv, CurOK, RestOK, Busy
<1>8. DoneOK'
  BY <1>0, <1>3, OthersSettled DEF Busy
<1> QED BY <1>5, <1>6, <1>7, <1>8 DEF IInv

(* The clone that is removed had no commit, and no link leads to it.        *)
LEMMA CloneErrorOK == ASSUME IInv, CloneError PROVE IInv'
<1> USE DEF CloneError
<1>0. cur \in Names /\ cache[cur] = Torn /\ cache \in [Names -> Clone \cup {None, Torn}]
  BY DEF IInv, CurOK, Busy, TypeOK
<1>1. TypeOK'
  BY <1>0, IdleOK DEF IInv, TypeOK, Steps
<1>2. NoDanglingLink'
  BY <1>0 DEF IInv, NoDanglingLink
<1> QED BY <1>1, <1>2, IdleOK DEF IInv

(* A clone that is cut short is one that no link leads to.                  *)
LEMMA CloneCutOK == ASSUME IInv, CloneCut PROVE IInv'
<1> USE DEF CloneCut
<1>0. /\ cur \in Names /\ deps[cur].kind = "git" /\ deps[cur] # None
      /\ cache[cur] = Torn /\ cache \in [Names -> Clone \cup {None, Torn}]
  BY DEF IInv, CurOK, Busy, TypeOK
<1>1. deps[cur].url \in Urls
  BY <1>0, GitSpecOf, GitSpecFields DEF IInv, TypeOK
<1>2. NewClone(deps[cur].url, FALSE) \in Clone
  BY <1>1, NewCloneIsClone DEF IInv
<1>3. TypeOK'
  BY <1>0, <1>2, IdleOK DEF IInv, TypeOK, Steps
<1>4. NoDanglingLink'
  BY <1>0, <1>2 DEF IInv, NoDanglingLink
<1> QED BY <1>3, <1>4, IdleOK DEF IInv

(* Neither is one gone when a checkout is cut short.                        *)
LEMMA CheckoutCutOK == ASSUME IInv, CheckoutCut PROVE IInv'
<1> USE DEF CheckoutCut, Found
<1>0. cur \in Names /\ cache[cur] \in Clone /\ cache \in [Names -> Clone \cup {None, Torn}]
  BY DEF IInv, CurOK, Busy, TypeOK
<1>1. [cache[cur] EXCEPT !.whole = FALSE] \in Clone
  BY <1>0 DEF Clone
<1> PICK c \in Clone : c = [cache[cur] EXCEPT !.whole = FALSE]
  BY <1>1
<1>2. cache' = [cache EXCEPT ![cur] = c] /\ c # None /\ c # Torn
  BY <1>0, DistinctAssumption
<1>3. TypeOK'
  BY <1>0, <1>2, IdleOK DEF IInv, TypeOK, Steps
<1>4. NoDanglingLink'
  BY <1>0, <1>2 DEF IInv, NoDanglingLink
<1> QED BY <1>3, <1>4, IdleOK DEF IInv

(* What git rev-parse answers is the head it checked out, which is the rev  *)
(* that the manifest asks for, if it asks for one.                          *)
LEMMA CheckoutOK == ASSUME IInv, Checkout PROVE IInv'
<1>0. /\ cur \in Names /\ cur \notin todo /\ deps[cur].kind = "git" /\ deps[cur] # None
      /\ cache[cur] \notin {None, Torn} /\ cache \in [Names -> Clone \cup {None, Torn}]
      /\ resolved \in [Names -> Resolved \cup {None}] /\ at \in Busy
  BY DEF Checkout, Found, IInv, CurOK, Busy, TypeOK
<1> DEFINE h == CheckedOut(cache[cur], deps[cur])
           r == [kind |-> "git", url |-> deps[cur].url, rev |-> h]
<1>files. PICK w \in BOOLEAN : cache' = [cache EXCEPT ![cur].head = h, ![cur].whole = w]
  <2>1. cache[cur] \in Clone
    BY <1>0
  <2>2. Whole(cache[cur], deps[cur]) \subseteq BOOLEAN
    BY <2>1 DEF Whole, Clone
  <2> QED BY <2>2 DEF Checkout
<1>1. /\ resolved' = [resolved EXCEPT ![cur] = r]
      /\ at' = "unlink" /\ vendor' = vendor /\ deps' = deps /\ todo' = todo /\ cur' = cur
  BY DEF Checkout, RevParse
<1>2. cache[cur] \in Clone /\ deps[cur] \in GitSpec
  BY <1>0, GitSpecOf DEF IInv, TypeOK
<1>3. h \in Commit /\ deps[cur].url \in Urls /\ deps[cur].rev \in {None, h}
  BY <1>2, CloneFields, GitSpecFields DEF CheckedOut
<1>4. r \in Resolved
  BY <1>3 DEF Resolved
<1> HIDE DEF h
<1>5. /\ cache'[cur] \in Clone /\ cache'[cur].head = h /\ resolved'[cur] = r
      /\ \A k \in Names \ {cur} : cache'[k] = cache[k] /\ resolved'[k] = resolved[k]
      /\ cache' \in [Names -> Clone \cup {None, Torn}]
  <2> DEFINE c == [cache[cur] EXCEPT !.head = h, !.whole = w]
  <2>1. c \in Clone /\ c.head = h
    BY <1>2, <1>3, CloneChanged
  <2>2. cache' = [cache EXCEPT ![cur] = c]
    BY <1>0, <1>2, <1>files DEF Clone
  <2> HIDE DEF c
  <2> QED BY <1>0, <1>1, <2>1, <2>2
<1>6. r # None /\ cache'[cur] # None /\ cache'[cur] # Torn
  BY <1>4, <1>5, DistinctAssumption
<1>7. TypeOK'
  BY <1>0, <1>1, <1>4, <1>5 DEF IInv, TypeOK, Steps, Checkout
<1>8. NoDanglingLink'
  BY <1>0, <1>1, <1>5, <1>6 DEF IInv, NoDanglingLink
<1>9. Prepared'
  BY <1>0, <1>1, <1>3, <1>5, <1>6 DEF Prepared
<1>10. CurOK' /\ RestOK'
  BY <1>0, <1>1, <1>9 DEF IInv, CurOK, RestOK, Busy
<1>11. DoneOK'
  BY <1>0, <1>1, <1>5, OthersSettled DEF Busy
<1> QED BY <1>7, <1>8, <1>10, <1>11 DEF IInv

LEMMA UnlinkOK == ASSUME IInv, Unlink PROVE IInv'
<1> USE DEF Unlink
<1>0. cur \in Names /\ vendor \in [Names -> {"path", "git", None}]
  BY DEF IInv, CurOK, Busy, TypeOK
<1>1. TypeOK'
  BY <1>0 DEF IInv, TypeOK, Steps
<1>2. NoDanglingLink'
  BY <1>0, DistinctAssumption DEF IInv, NoDanglingLink
<1>3. CurOK' /\ RestOK'
  BY DEF IInv, CurOK, RestOK, Prepared, Busy
<1>4. DoneOK'
  BY <1>0, OthersSettled DEF Busy
<1> QED BY <1>1, <1>2, <1>3, <1>4 DEF IInv

(* The link made, the dependency at hand joins those that are done.         *)
LEMMA LinkOK == ASSUME IInv, Link PROVE IInv'
<1> USE DEF Link
<1>0. /\ cur \in Names /\ cur \notin todo /\ deps[cur] # None /\ Prepared
      /\ deps[cur].kind \in {"git", "path"} /\ vendor \in [Names -> {"path", "git", None}]
  BY DEF IInv, CurOK, Busy, TypeOK
<1>1. TypeOK'
  BY <1>0 DEF IInv, TypeOK, Steps
<1>2. NoDanglingLink'
  BY <1>0 DEF IInv, NoDanglingLink, Prepared
<1>3. CurOK' /\ RestOK'
  BY DEF IInv, CurOK, RestOK, Busy
<1>4. DoneOK'
  <2> SUFFICES ASSUME NEW k \in Names, Settled(k)'
               PROVE (resolved[k] = None <=> deps[k] = None)' /\ (resolved[k] # None => Agrees(k))'
    BY DEF DoneOK
  <2>1. CASE k = cur
    BY <1>0, <2>1 DEF Prepared, Agrees
  <2>2. CASE k # cur
    <3>1. Settled(k)
      BY <2>2 DEF Settled
    <3> QED BY <1>0, <2>2, <3>1 DEF IInv, DoneOK, Agrees
  <2> QED BY <2>1, <2>2
<1> QED BY <1>1, <1>2, <1>3, <1>4 DEF IInv

LEMMA TruncateOK == ASSUME IInv, Truncate PROVE IInv'
<1> USE DEF Truncate
<1>1. TypeOK'
  BY DEF IInv, TypeOK, Steps
<1>2. NoDanglingLink' /\ CurOK' /\ RestOK'
  BY DEF IInv, NoDanglingLink, CurOK, RestOK, Busy
<1>3. DoneOK'
  BY DEF IInv, DoneOK, Settled, Agrees, Busy
<1> QED BY <1>1, <1>2, <1>3 DEF IInv

LEMMA WriteLockOK == ASSUME IInv, WriteLock PROVE IInv'
<1> USE DEF WriteLock
<1>1. TypeOK'
  BY IdleOK DEF IInv, TypeOK, Steps
<1>2. NoDanglingLink'
  BY DEF IInv, NoDanglingLink
<1> QED BY <1>1, <1>2, IdleOK DEF IInv

LEMMA StutterOK == ASSUME IInv, UNCHANGED vars PROVE IInv'
BY DEF IInv, TypeOK, NoDanglingLink, CurOK, DoneOK, RestOK, Prepared, Settled, Agrees, vars

LEMMA NextOK == ASSUME IInv, [Next]_vars PROVE IInv'
<1>1. CASE Install
  BY <1>1, BeginOK, PickOK, KeepCloneOK, CloneBeginOK, CloneEndOK, CloneErrorOK, CloneCutOK,
     CheckoutOK, CheckoutCutOK,
     UnlinkOK, LinkOK, TruncateOK, WriteLockOK, FailOK DEF Install
<1>2. CASE \E u \in Urls : Push(u)
  BY <1>2, PushOK
<1>3. CASE \E n \in Names : MoveSource(n) \/ \E s \in Specs[n] \cup {None} : Edit(n, s)
  BY <1>3, MoveSourceOK, EditOK
<1>4. CASE FreshCheckout
  BY <1>4, FreshCheckoutOK
<1>5. CASE UNCHANGED vars
  BY <1>5, StutterOK
<1> QED BY <1>1, <1>2, <1>3, <1>4, <1>5 DEF Next

-----------------------------------------------------------------------------
(* The inductive invariant holds in every reachable state.                  *)
THEOREM Invariance == Spec => []IInv
<1>1. Init => IInv
  BY InitOK
<1>2. IInv /\ [Next]_vars => IInv'
  BY NextOK
<1> QED BY <1>1, <1>2, PTL DEF Spec

(* The disk and the install command stay in the types the model gives them. *)
THEOREM ProjectTypeOK == Spec => []TypeOK
<1>1. IInv => TypeOK
  BY DEF IInv
<1> QED BY <1>1, Invariance, PTL

(* A link under vendor/ never leads to a clone that is missing or has no    *)
(* commit, whatever installs were interrupted and wherever (install).       *)
THEOREM LinksLeadToClones == Spec => []NoDanglingLink
<1>1. IInv => NoDanglingLink
  BY DEF IInv
<1> QED BY <1>1, Invariance, PTL

(* When the lock file is touched, every dependency is in place, and the     *)
(* lock that is written tells what is in place.                             *)
THEOREM LockIsTrue == Spec => LockDescribesVendor
<1> DEFINE Told == lock' # lock =>
             \A n \in Names :
               /\ resolved[n] = None <=> deps[n] = None
               /\ resolved[n] # None =>
                    /\ vendor[n] = resolved[n].kind
                    /\ vendor[n] = "git" => /\ cache[n].head = resolved[n].rev
                                           /\ deps[n].rev \in {None, resolved[n].rev}
<1>1. ASSUME IInv, [Next]_vars PROVE [Told]_vars
  <2> SUFFICES ASSUME lock' # lock PROVE Told
    OBVIOUS
  <2>1. Truncate \/ WriteLock
    BY <1>1 DEF Next, Install, Begin, Pick, KeepClone, CloneBegin, CloneEnd, CloneError, CloneCut, Checkout, CheckoutCut,
                Unlink, Link, Fail, Push, MoveSource, Edit, FreshCheckout, diskVars, vars
  <2>2. todo = {} /\ at \notin Busy
    BY <1>1, <2>1 DEF Truncate, WriteLock, IInv, RestOK, Busy
  <2> QED BY <1>1, <2>2 DEF IInv, DoneOK, Settled, Agrees
<1> QED BY <1>1, Invariance, PTL DEF Spec, LockDescribesVendor
=============================================================================
