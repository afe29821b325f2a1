---------------------------- MODULE MCFlmProject ----------------------------
(* One dependency that changes between two repositories, pinned and not,    *)
(* and one with a path or a malformed spec.                                 *)
EXTENDS FlmProject

CONSTANTS lib, util, repoA, repoB

MCNames == {lib, util}
MCUrls == {repoA, repoB}
Git(url, rev) == [kind |-> "git", url |-> url, rev |-> rev]
MCSpecs == [n \in Names |-> IF n = lib
              THEN {Git(repoA, None), Git(repoA, <<repoA, 1>>), Git(repoB, None)}
              ELSE {[kind |-> "path"], [kind |-> "bad"]}]
=============================================================================
