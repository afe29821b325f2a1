---------------------------- MODULE ModuleLoader ----------------------------
(***************************************************************************)
(* flavent/resolve.py: _expand_uses with _load_module_any, the stdlib      *)
(* prelude and the caches. The use statements of a program are replaced by *)
(* the items of the modules they name, depth first. One step is one call   *)
(* of visit_module or the return from one. A process compiles several      *)
(* programs (the test runner does), and files change meanwhile.            *)
(***************************************************************************)
EXTENDS Integers, SequencesExt

CONSTANTS
    Projects,     \* sets of the projects that may be compiled: records with
                  \*   main      the file that is compiled
                  \*   prelude   use_stdlib
                  \*   roots     module_roots, a sequence of directories
                  \*   path      <<directory, module, form>> |-> file
                  \*   text      file |-> its items
                  \*   compiles  how often the process compiles it
    Stdlib,       \* the files under stdlib/
    MaxEdits

\* Stands for the program itself, and for the prelude among the cached modules.
Main == ""

ASSUME MaxEditsIsNat == MaxEdits \in Nat
ASSUME ProjectsAssumption ==
    \A k \in DOMAIN Projects : \A p \in Projects[k] :
        /\ p.main \in DOMAIN p.text
        /\ p.prelude /\ p.main # "stdlib/prelude.flv" => "stdlib/prelude.flv" \in DOMAIN p.text
        /\ p.roots \in Seq(Range(p.roots))
        /\ Range(p.path) \subseteq DOMAIN p.text
        /\ \A f \in DOMAIN p.text : /\ p.text[f] \in Seq(Range(p.text[f]))
                                    /\ \A n \in DOMAIN p.text[f] : p.text[f][n].kind = "use" => p.text[f][n].name # Main

VARIABLES
    project,      \* the project
    disk,         \* file |-> how often it was edited
    std,          \* _STDLIB_MODULES and _STDLIB_PRELUDE (Main): module |-> the edition that was read
    since,        \* disk when this compilation began
    frames,       \* the calls of visit_module; the first is the program itself
    visited,      \* visited
    order,        \* the modules whose items are in out_items, in their order
    got,          \* module |-> the file it was read from and the edition: cache
    items,        \* out_items; in the end the program without its uses
    at,           \* "loading", the later passes, "done" or an error
    compiles

loaderVars == <<project, disk, std, since, frames, visited, order, got, items, at, compiles>>

P == project
Prelude == "stdlib/prelude.flv"
LoadErrors == {"cyclic use", "missing module", "bridge"}
Passes == {"loading", "loaded", "collecting", "resolving"}

\* resolve_program_with_stdlib puts the prelude's items before the program's.
RootFiles == IF P.prelude /\ P.main # Prelude THEN <<Prelude, P.main>> ELSE <<P.main>>
RootItems == IF P.prelude /\ P.main # Prelude THEN P.text[Prelude] \o P.text[P.main] ELSE P.text[P.main]

\* The use items among some items, and the modules they name.
UsesIn(its) == {n \in DOMAIN its : its[n].kind = "use"}
Requested(its) == {its[n].name : n \in UsesIn(its)}

\* The items a call walks along.
ItemsOf(frame) == IF frame.mod = Main THEN RootItems ELSE P.text[frame.file]

\* _find_module_path_in_roots, then the stdlib: the places where a module may
\* be, the first that exists is taken.
Places(q) ==
    [n \in 1..(2 * Len(P.roots) + 2) |->
        LET r == (n + 1) \div 2
        IN  <<IF r > Len(P.roots) THEN "stdlib" ELSE P.roots[r], q, IF n % 2 = 1 THEN "flv" ELSE "pkg">>]

Existing(q) == {n \in DOMAIN Places(q) : Places(q)[n] \in DOMAIN P.path}
Place(q) == Places(q)[Min(Existing(q))]

\* A module that no project root has is looked up in the process's cache.
FromStdlib(q) == Place(q)[1] = "stdlib" /\ "stdlib" \notin Range(P.roots)

\* The root frame: nothing is loaded yet.
Root == [mod |-> Main, file |-> Main, next |-> 1]

\* d with the entry x |-> y; one that is there is kept.
Adding(d, x, y) == [z \in DOMAIN d \union {x} |-> IF z \in DOMAIN d THEN d[z] ELSE y]

\* _load_stdlib_prelude reads the prelude once per process.
WithPrelude(s) == IF Len(RootFiles) = 2 THEN Adding(s, Main, disk[Prelude]) ELSE s

LoaderInit ==
    /\ \E k \in DOMAIN Projects : project \in Projects[k]
    /\ disk = [f \in DOMAIN P.text |-> 0] /\ since = disk
    /\ std = WithPrelude(<<>>)
    /\ frames = <<Root>> /\ visited = {} /\ order = <<>> /\ got = <<>> /\ items = <<>>
    /\ at = "loading" /\ compiles = 1

-----------------------------------------------------------------------------
\* The use items a call has not come to yet, and the next of them.
Upcoming(frame) == {n \in UsesIn(ItemsOf(frame)) : n >= frame.next}
Position(frame) == Min(Upcoming(frame))

Top == Last(frames)
Wants == Upcoming(Top) # {}
Wanted == ItemsOf(Top)[Position(Top)].name

\* fault: a module on the stack passes for a visited one.
KnownOnStack == visited \union {frames[k].mod : k \in DOMAIN frames}

Known == visited

\* The caller goes on behind the use.
Onward(fs) == [fs EXCEPT ![Len(fs)].next = Position(fs[Len(fs)]) + 1]

Fail(why) == at' = why /\ UNCHANGED <<project, disk, std, since, frames, visited, order, got, items, compiles>>

\* A program outside the stdlib names the bridge: the uses of the prelude come
\* first, so a use behind them is the program's own.
Forbidden == Len(frames) = 1 /\ Wanted = "_bridge_python" /\ P.main \notin Stdlib
             /\ Position(Top) > Len(RootItems) - Len(P.text[P.main])

VisitBridge == at = "loading" /\ Wants /\ Forbidden /\ Fail("bridge")

VisitKnown ==
    /\ at = "loading" /\ Wants /\ ~ Forbidden /\ Wanted \in Known
    /\ frames' = Onward(frames)
    /\ UNCHANGED <<project, disk, std, since, visited, order, got, items, at, compiles>>

VisitCycle ==
    /\ at = "loading" /\ Wants /\ ~ Forbidden /\ Wanted \notin Known
    /\ Wanted \in {frames[k].mod : k \in DOMAIN frames}
    /\ Fail("cyclic use")

VisitMissing ==
    /\ at = "loading" /\ Wants /\ ~ Forbidden /\ Wanted \notin Known
    /\ Wanted \notin {frames[k].mod : k \in DOMAIN frames}
    /\ Existing(Wanted) = {}
    /\ Fail("missing module")

\* fault: modules of the project are kept in the process's cache as well.
CachedAny(q) == Existing(q) # {}

\* _load_stdlib_module keeps what it read for the life of the process.
Cached(q) == FromStdlib(q)

Edition(q) == IF Cached(q) /\ q \in DOMAIN std THEN std[q] ELSE disk[P.path[Place(q)]]

Enter ==
    /\ at = "loading" /\ Wants /\ ~ Forbidden /\ Wanted \notin Known
    /\ Wanted \notin {frames[k].mod : k \in DOMAIN frames}
    /\ Existing(Wanted) # {}
    /\ LET q == Wanted
           file == P.path[Place(q)]
       IN  /\ frames' = Append(frames, [mod |-> q, file |-> file, next |-> 1])
           /\ got' = Adding(got, q, [file |-> file, edition |-> Edition(q)])
           /\ std' = IF Cached(q) THEN Adding(std, q, Edition(q)) ELSE std
    /\ UNCHANGED <<project, disk, since, visited, order, items, at, compiles>>

\* The items of a file that are no uses, each with its file.
Own(file) ==
    LET its == P.text[file]
        kept[k \in 0..Len(its)] ==
            IF k = 0 THEN <<>>
            ELSE IF its[k].kind = "use" THEN kept[k - 1] ELSE Append(kept[k - 1], [file |-> file, it |-> its[k]])
    IN  kept[Len(its)]

\* All uses of the module are expanded: its own items follow, and the caller
\* goes on.
Leave ==
    /\ at = "loading" /\ ~ Wants /\ Len(frames) > 1
    /\ items' = items \o Own(Top.file)
    /\ order' = Append(order, Top.mod)
    /\ visited' = visited \union {Top.mod}
    /\ frames' = Onward(Front(frames))
    /\ UNCHANGED <<project, disk, std, since, got, at, compiles>>

Expanded ==
    /\ at = "loading" /\ ~ Wants /\ Len(frames) = 1
    /\ items' = items \o (IF Len(RootFiles) = 2 THEN Own(Prelude) ELSE <<>>) \o Own(P.main)
    /\ at' = "loaded"
    /\ UNCHANGED <<project, disk, std, since, frames, visited, order, got, compiles>>

\* The files of a library change while the process lives.
Edit ==
    /\ \E f \in DOMAIN disk \ {P.main, Prelude} : disk[f] < MaxEdits /\ disk' = [disk EXCEPT ![f] = @ + 1]
    /\ compiles < P.compiles /\ at \notin Passes \ {"loading"}
    /\ UNCHANGED <<project, std, since, frames, visited, order, got, items, at, compiles>>

\* The process compiles the project once more: all but std is made anew.
Recompile ==
    /\ at \notin Passes /\ compiles < P.compiles
    /\ compiles' = compiles + 1
    /\ std' = WithPrelude(std) /\ since' = disk
    /\ frames' = <<Root>> /\ visited' = {} /\ order' = <<>> /\ got' = <<>> /\ items' = <<>>
    /\ at' = "loading"
    /\ UNCHANGED <<project, disk>>

LoaderNext ==
    \/ VisitBridge \/ VisitKnown \/ VisitCycle \/ VisitMissing \/ Enter \/ Leave \/ Expanded \/ Edit

\* Collecting and resolving (NameResolution) only read what was loaded.
LaterPass ==
    /\ at \in Passes \ {"loading"} /\ at' \notin {"loading"} \union LoadErrors
    /\ UNCHANGED <<project, disk, std, since, frames, visited, order, got, items, compiles>>

LoaderSpec == LoaderInit /\ [][LoaderNext \/ LaterPass \/ Recompile]_loaderVars

-----------------------------------------------------------------------------
(* What the expansion must do.                                             *)

\* Every module comes once, behind those it uses, and for a reason; when the
\* expansion is over nothing that is used is missing.
ModulesInOrder ==
    LET uses(q) == Requested(P.text[got[q].file])
        root == Requested(RootItems)
    IN  /\ IsInjective(order)
        /\ \A k \in DOMAIN order : uses(order[k]) \subseteq {order[j] : j \in 1..(k - 1)}
        /\ at \notin {"loading"} \union LoadErrors =>
               /\ root \subseteq Range(order)
               /\ \A k \in DOMAIN order : order[k] \in root \/ \E j \in (k + 1)..Len(order) : order[k] \in uses(order[j])

\* A module of the project is compiled as it was on the disk in this
\* compilation, whatever the process compiled before.
ReadAfresh ==
    \A q \in DOMAIN got : ~ FromStdlib(q) => got[q].edition \in since[got[q].file]..disk[got[q].file]
=============================================================================
