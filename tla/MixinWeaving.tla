----------------------------- MODULE MixinWeaving -----------------------------
(***************************************************************************)
(* _apply_mixins of flavent/resolve.py for one function `foo` of a sector  *)
(* (a method of a type goes through the same steps): the used mixins are   *)
(* sorted by the prefer rules, the added functions are chosen, the arounds *)
(* and hooks on foo are collected, resolved point by point (duplicate ids, *)
(* missing dependencies, call stack) and woven around foo one by one.      *)
(*                                                                         *)
(* The spec of a hook is identified by its index in specs, the order in    *)
(* which the specs are collected.                                          *)
(***************************************************************************)
EXTENDS Integers, Sequences, FiniteSets, Functions, SequencesExt

CONSTANTS
  Mixins,    \* mixin keys, numbered in the order of their strings
  Ids,       \* hook ids a program writes
  Programs,  \* the programs: `use` statements, prefer rules, mixin items
  None       \* no id written; no outcome yet

Points == {"head", "invoke", "tail"}
Policies == {"error", "prefer", "drop"}
Errors == {"cyclic rules", "ambiguous", "duplicate id", "unknown dependency",
           "cyclic dependencies", "locator"}
DefaultIds == [key : Mixins, point : Points, n : Nat]

\* around fn foo, hook <point> fn foo with(...), and fn bar, which foo's
\* sector does not have.  at tells what _validate_locator finds.
Item == [kind : {"around", "hook", "add"}, point : Points, id : Ids \cup {None},
         priority : Int, depends : SUBSET Ids, policy : Policies,
         strict : BOOLEAN, at : {"match", "mismatch", "malformed"}]
Around == [kind |-> "around", point |-> "invoke", id |-> None, priority |-> 0,
           depends |-> {}, policy |-> "error", strict |-> TRUE, at |-> "match"]

ASSUME MixinsAssumption == Mixins \subseteq Nat /\ IsFiniteSet(Mixins)
ASSUME IdsAssumption == Ids \cap DefaultIds = {}
ASSUME NoneAssumption == None \notin Ids \cup Errors
ASSUME ProgramsAssumption ==
  \A p \in Programs : /\ p.uses \in Seq(Mixins)
                      /\ p.rules \subseteq {r \in Mixins \X Mixins : r[1] # r[2]}
                      /\ p.items \in [Mixins -> Seq(Item)]

VARIABLES
  prog,      \* the program
  at,        \* the step, or "error" or "done"
  why,       \* the error raised
  queue,     \* topo_sort: mixins without a preferred one before them
  indeg,     \* topo_sort: how many are before it
  order,     \* apply_order, as far as it is sorted
  winner,    \* the mixin whose fn bar is added
  specs,     \* the specs of foo, with their mixin and hook id
  point,     \* the point being resolved
  todo,      \* ids of that point whose group has not been looked at
  selected,  \* the specs still in
  blocked,   \* call stack: how many dependencies are not yet placed
  stack,     \* stack[p]: the call stack of point p
  dropped,   \* dropped specs, with the reason
  left,      \* specs still to weave, the next one last
  woven      \* the specs around foo, outermost first

orderVars == <<queue, indeg, order, winner>>
resolveVars == <<point, todo, selected, blocked, stack>>
weaveVars == <<left, woven>>
vars == <<prog, at, why, queue, indeg, order, winner, specs, point, todo,
          selected, blocked, stack, dropped, left, woven>>

Raise(e) == at' = "error" /\ why' = e
Goto(step) == at' = step /\ UNCHANGED why

(* The elements of the finite set S, ordered by R, a set of pairs.          *)
InOrder(S, R) ==
  [k \in 1..Cardinality(S) |-> CHOOSE x \in S : Cardinality({y \in S : <<y, x>> \in R}) = k - 1]
Ascending(ns) == InOrder(ns, {r \in ns \X ns : r[1] < r[2]})

(* What a comprehension with a condition keeps of s: the places ns.         *)
Sublist(s, ns) == LET is == Ascending(ns) IN [k \in DOMAIN is |-> s[is[k]]]

-----------------------------------------------------------------------------
(* The order of the mixins.                                                 *)

Used == Range(prog.uses)
Edges(k) == {b \in Used : <<k, b>> \in prog.rules}

(* A mixin used twice counts twice.                                         *)
UsesBefore(uses, rules, k) == Cardinality({j \in DOMAIN uses : <<uses[j], k>> \in rules})

Init ==
  /\ prog \in Programs /\ at = "order" /\ why = None
  /\ indeg = [k \in Mixins |-> IF k \in Used THEN UsesBefore(prog.uses, prog.rules, k) ELSE 0]
  /\ queue = Sublist(prog.uses, {n \in DOMAIN prog.uses : indeg[prog.uses[n]] = 0})
  /\ order = << >> /\ winner = None /\ specs = << >>
  /\ point = "head" /\ todo = << >> /\ selected = << >> /\ blocked = << >>
  /\ stack = [p \in Points |-> << >>] /\ dropped = {}
  /\ left = << >> /\ woven = << >>

(* The mixins that nothing precedes any more once k is placed.              *)
FreedEarly(k) == {m \in Edges(k) : indeg[m] > 0}  \* fault: the count is not awaited
Freed(k) == {m \in Edges(k) : indeg[m] = 1}

(* One round of topo_sort.                                                  *)
PopMixin ==
  /\ at = "order" /\ queue # << >>
  /\ LET k == Head(queue) IN
       /\ order' = Append(order, k)
       /\ indeg' = [m \in Mixins |-> IF m \in Edges(k) THEN indeg[m] - 1 ELSE indeg[m]]
       /\ queue' = Tail(queue) \o Ascending(Freed(k))
  /\ UNCHANGED <<prog, at, why, winner, specs, dropped>>
  /\ UNCHANGED resolveVars /\ UNCHANGED weaveVars

OrderDone ==
  /\ at = "order" /\ queue = << >>
  /\ IF Len(order) = Len(prog.uses) THEN Goto("add") ELSE Raise("cyclic rules")
  /\ UNCHANGED <<prog, specs, dropped>>
  /\ UNCHANGED orderVars /\ UNCHANGED resolveVars /\ UNCHANGED weaveVars

weaveOrder == Reverse(order)

(* is_preferred: b can be reached from a over the rules, those about unused *)
(* mixins included.                                                         *)
Preferred(a, b) ==
  \A S \in SUBSET Mixins :
    (\A r \in prog.rules : r[1] \in S \cup {a} => r[2] \in S) => b \in S

(* choose_preferred: the first candidate preferred over all others.         *)
Adds(k) == \E i \in DOMAIN prog.items[k] : prog.items[k][i].kind = "add"
Adders == Sublist(weaveOrder, {n \in DOMAIN weaveOrder : Adds(weaveOrder[n])})
Wins(k, ks) == \A b \in ks : b = k \/ Preferred(k, b)
Winners(ks) ==
  LET winning == {k \in Range(ks) : Wins(k, Range(ks))} IN
  Sublist(ks, {n \in DOMAIN ks : ks[n] \in winning})

ChooseAdd ==
  /\ at = "add"
  /\ \E ks \in {Adders} : \E ws \in {Winners(ks)} :
       \/ ks = << >> /\ Goto("collect") /\ winner' = None
       \/ ks # << >> /\ ws = << >> /\ Raise("ambiguous") /\ UNCHANGED winner
       \/ ks # << >> /\ ws # << >> /\ Goto("collect") /\ winner' = Head(ws)
  /\ UNCHANGED <<prog, queue, indeg, order, specs, dropped>>
  /\ UNCHANGED resolveVars /\ UNCHANGED weaveVars

-----------------------------------------------------------------------------
(* The specs of foo: first the arounds, then the hooks, mixins in weave     *)
(* order, items as written.  Ids that are not written contain hook_counter, *)
(* which the arounds use after they count and the hooks before.             *)

Written ==
  UNION {{[m |-> m, i |-> i, key |-> weaveOrder[m], item |-> prog.items[weaveOrder[m]][i]] :
            i \in DOMAIN prog.items[weaveOrder[m]]} : m \in DOMAIN weaveOrder}
Items(kind) ==
  LET xs == {x \in Written : x.item.kind = kind} IN
  InOrder(xs, {r \in xs \X xs : r[1].m < r[2].m \/ (r[1].m = r[2].m /\ r[1].i < r[2].i)})

DefaultId(x, n) == [key |-> x.key, point |-> x.item.point, n |-> n]
SpecOf(x, n) == [key |-> x.key, item |-> x.item,
                 id |-> IF x.item.id = None THEN DefaultId(x, n) ELSE x.item.id]

AroundSpecs == LET xs == Items("around") IN [n \in 1..Len(xs) |-> SpecOf(xs[n], n)]
HookSpecs(counter) ==
  LET xs == Items("hook") IN [n \in 1..Len(xs) |-> SpecOf(xs[n], counter + n - 1)]
Collected == AroundSpecs \o HookSpecs(Len(AroundSpecs))

At(ss, p) == {i \in DOMAIN ss : ss[i].item.point = p}

(* The groups of a point, in the order of their first specs.                *)
GroupIds(ss, p) ==
  LET firsts == {i \in At(ss, p) : \A j \in At(ss, p) : j < i => ss[j].id # ss[i].id}
      is == Ascending(firsts)
  IN [n \in DOMAIN is |-> ss[is[n]].id]

Collect ==
  /\ at = "collect" /\ Goto("select")
  /\ \E ss \in {Collected} : specs' = ss /\ todo' = GroupIds(ss, point)
  /\ UNCHANGED <<prog, point, selected, blocked, stack, dropped>>
  /\ UNCHANGED orderVars /\ UNCHANGED weaveVars

-----------------------------------------------------------------------------
(* _resolve_specs, for one point after the other.                           *)

Precedes(i, j) == \/ specs[i].item.priority > specs[j].item.priority
                  \/ specs[i].item.priority = specs[j].item.priority /\ i < j

FirstOf(S) == CHOOSE i \in S : \A j \in S : i <= j   \* fault: priority ignored
Foremost(S) == CHOOSE i \in S : \A j \in S : i = j \/ Precedes(i, j)

Group == {i \in DOMAIN specs : specs[i].item.point = point /\ specs[i].id = Head(todo)}
Preferring == {i \in Group : specs[i].item.policy = "prefer"}

(* One id: alone it stays, otherwise its conflict policies decide.          *)
SelectGroup ==
  /\ at = "select" /\ todo # << >> /\ todo' = Tail(todo)
  /\ \/ /\ \E i \in Group : Group = {i} /\ selected' = Append(selected, i)
        /\ UNCHANGED <<at, why, dropped>>
     \/ /\ Cardinality(Group) > 1 /\ \E i \in Group : specs[i].item.policy = "error"
        /\ Raise("duplicate id") /\ UNCHANGED <<selected, dropped>>
     \/ /\ Cardinality(Group) > 1 /\ \A i \in Group : specs[i].item.policy # "error"
        /\ selected' = IF Preferring = {} THEN selected
                                          ELSE Append(selected, Foremost(Preferring))
        /\ dropped' = IF Preferring = {} THEN dropped \cup (Group \X {"duplicate_drop"})
                                         ELSE dropped
        /\ UNCHANGED <<at, why>>
  /\ UNCHANGED <<prog, specs, point, blocked, stack>>
  /\ UNCHANGED orderVars /\ UNCHANGED weaveVars

IdsOf(S) == {specs[i].id : i \in S}

(* by_id is rebuilt in each round of the while loop.                        *)
MissingAtPoint(i) ==                    \* fault: by_id is built once
  specs[i].item.depends \ IdsOf(At(specs, point))
Missing(i) == specs[i].item.depends \ IdsOf(Range(selected))

Lenient(i) == TRUE                      \* fault: strict is ignored
MayDrop(i) == ~specs[i].item.strict

KeptAll(out) == selected                \* fault: selected is not replaced
Kept(out) == Sublist(selected, {n \in DOMAIN selected : selected[n] \notin out})

(* One round of the while loop: specs with a missing dependency leave.      *)
DropMissing ==
  /\ at = "select" /\ todo = << >> /\ \E i \in Range(selected) : Missing(i) # {}
  /\ LET out == {i \in Range(selected) : Missing(i) # {}} IN
     IF \A i \in out : MayDrop(i)
       THEN /\ selected' = Kept(out)
            /\ dropped' = dropped \cup (out \X {"unknown_dependency"})
            /\ UNCHANGED <<at, why>>
       ELSE Raise("unknown dependency") /\ UNCHANGED <<selected, dropped>>
  /\ UNCHANGED <<prog, specs, point, todo, blocked, stack>>
  /\ UNCHANGED orderVars /\ UNCHANGED weaveVars

(* Nothing is missing: count the dependencies.                              *)
BuildGraph ==
  /\ at = "select" /\ todo = << >> /\ \A i \in Range(selected) : Missing(i) = {}
  /\ Goto("stack")
  /\ blocked' = [i \in Range(selected) |-> Cardinality(specs[i].item.depends)]
  /\ UNCHANGED <<prog, specs, point, todo, selected, stack, dropped>>
  /\ UNCHANGED orderVars /\ UNCHANGED weaveVars

(* order_idx is the place in selected: of two ids the one written first.   *)
Sooner(i, j) ==
  \/ specs[i].item.priority > specs[j].item.priority
  \/ /\ specs[i].item.priority = specs[j].item.priority
     /\ \E m, n \in DOMAIN selected : m < n /\ selected[m] = i /\ selected[n] = j

SoonestCollected(S) == Foremost(S)      \* fault: ties in the order of collection
Soonest(S) == CHOOSE i \in S : \A j \in S : i = j \/ Sooner(i, j)

Ready == {i \in DOMAIN blocked \ Range(stack[point]) : blocked[i] = 0}

(* ready.sort, pop, and the dependents of the popped id come closer.        *)
PopReady ==
  /\ at = "stack" /\ Ready # {}
  /\ LET i == Soonest(Ready) IN
       /\ stack' = [stack EXCEPT ![point] = Append(@, i)]
       /\ blocked' = [j \in DOMAIN blocked |->
            IF specs[i].id \in specs[j].item.depends THEN blocked[j] - 1 ELSE blocked[j]]
  /\ UNCHANGED <<prog, at, why, specs, point, todo, selected, dropped>>
  /\ UNCHANGED orderVars /\ UNCHANGED weaveVars

(* Heads, then invokes, then tails, which run after proceed: reversed.      *)
TailsAsResolved(st) == st["head"] \o st["invoke"] \o st["tail"]  \* fault: not reversed
OuterStack(st) == st["head"] \o st["invoke"] \o Reverse(st["tail"])

StackDone ==
  /\ at = "stack" /\ Ready = {}
  /\ IF Len(stack[point]) # Len(selected)
       THEN /\ Raise("cyclic dependencies")
            /\ UNCHANGED <<point, todo, selected, blocked, left>>
       ELSE /\ selected' = << >> /\ blocked' = << >>
            /\ CASE point = "head" -> /\ Goto("select") /\ point' = "invoke"
                                      /\ todo' = GroupIds(specs, "invoke") /\ left' = left
                 [] point = "invoke" -> /\ Goto("select") /\ point' = "tail"
                                        /\ todo' = GroupIds(specs, "tail") /\ left' = left
                 [] point = "tail" -> /\ Goto("weave") /\ left' = OuterStack(stack)
                                      /\ UNCHANGED <<point, todo>>
  /\ UNCHANGED <<prog, specs, stack, dropped, woven>> /\ UNCHANGED orderVars

-----------------------------------------------------------------------------
(* Weaving, innermost first: foo is renamed and the spec takes its place.   *)
(* A locator that does not match is found only now.                         *)
Weave ==
  /\ at = "weave" /\ left # << >>
  /\ LET i == Last(left) IN
     \/ /\ specs[i].item.at = "match"
        /\ woven' = << i >> \o woven /\ left' = Front(left) /\ UNCHANGED <<at, why, dropped>>
     \/ /\ specs[i].item.at = "mismatch" /\ MayDrop(i)
        /\ dropped' = dropped \cup {<<i, "locator_mismatch">>} /\ left' = Front(left)
        /\ UNCHANGED <<at, why, woven>>
     \/ /\ specs[i].item.at # "match" /\ (specs[i].item.at = "mismatch" => ~MayDrop(i))
        /\ Raise("locator") /\ UNCHANGED <<dropped, left, woven>>
  /\ UNCHANGED <<prog, specs>> /\ UNCHANGED orderVars /\ UNCHANGED resolveVars

Done ==
  /\ at = "weave" /\ left = << >> /\ Goto("done")
  /\ UNCHANGED <<prog, specs, dropped>>
  /\ UNCHANGED orderVars /\ UNCHANGED resolveVars /\ UNCHANGED weaveVars

Next ==
  \/ PopMixin \/ OrderDone \/ ChooseAdd \/ Collect
  \/ SelectGroup \/ DropMissing \/ BuildGraph \/ PopReady \/ StackDone
  \/ Weave \/ Done

Spec == Init /\ [][Next]_vars

(* A resolver run is a finite computation that nothing interrupts.          *)
FairSpec == Spec /\ WF_vars(Next)

-----------------------------------------------------------------------------
(* "Stable topo sort": a mixin is placed only after every used mixin that   *)
(* is preferred over it, also while the sort runs, and a completed order    *)
(* holds each `use` once.                                                   *)
PreferredFirst ==
  /\ \A n \in DOMAIN order, a \in Used :
       <<a, order[n]>> \in prog.rules => \E m \in 1..n - 1 : order[m] = a
  /\ at \notin {"order", "error"} => \A k \in Mixins :
       Cardinality({n \in DOMAIN order : order[n] = k}) =
         Cardinality({n \in DOMAIN prog.uses : prog.uses[n] = k})

-----------------------------------------------------------------------------
(* What docs/mixin_hooks.md says of a target, applied to one of its points  *)
(* as the code does, without the resolver's steps.                          *)

SameHook(i, j) == specs[i].item.point = specs[j].item.point /\ specs[i].id = specs[j].id
Rivals(i) == {j \in DOMAIN specs : SameHook(i, j) /\ j # i}

(* Specs that survive the conflict policies of their id.                    *)
Survivors(p) ==
  {i \in DOMAIN specs :
     /\ specs[i].item.point = p
     /\ Rivals(i) # {} =>
          /\ specs[i].item.policy = "prefer"
          /\ \A j \in Rivals(i) : specs[j].item.policy = "prefer" => Precedes(i, j)}

(* The largest set of them that has all its dependencies inside.            *)
Closed(p) ==
  UNION {S \in SUBSET Survivors(p) : \A i \in S : specs[i].item.depends \subseteq IdsOf(S)}

(* A set each member of which depends on another member.                    *)
Circular(S) == S # {} /\ \A i \in S : specs[i].item.depends \cap IdsOf(S) # {}

(* Dropping specs round by round, each round looking only at those that are *)
(* still in, ends with the largest set that has all its dependencies.       *)
LargestClosedSet ==
  /\ at = "stack" => Range(selected) = Closed(point)
  /\ at \in {"weave", "done"} => \A p \in Points : Range(stack[p]) = Closed(p)

(* Priority, then the id that was written first, by whichever spec of it.   *)
Ahead(i, j) ==
  \/ specs[i].item.priority > specs[j].item.priority
  \/ /\ specs[i].item.priority = specs[j].item.priority
     /\ \E k \in DOMAIN specs : SameHook(k, i) /\ \A l \in DOMAIN specs : SameHook(l, j) => k < l

(* The call stack of a point takes, at each place, the spec that is ahead   *)
(* (priority, then the first spec of its id) of all others whose            *)
(* dependencies are placed: counting dependencies down finds the same as    *)
(* looking them up, and dropping hooks keeps the order of the others.       *)
StackOrder ==
  \A p \in Points : \A n \in DOMAIN stack[p] :
    LET before == {stack[p][m] : m \in 1..n - 1}
        eligible == {i \in Closed(p) \ before : specs[i].item.depends \subseteq IdsOf(before)}
    IN stack[p][n] \in eligible /\ \A i \in eligible \ {stack[p][n]} : Ahead(stack[p][n], i)

(* The reasons for an error, stated over the program and the specs alone.   *)
CyclicRules == \E C \in (SUBSET Used) \ {{}} : \A b \in C : \E a \in C : <<a, b>> \in prog.rules
Unchosen ==
  /\ \E k \in Used : Adds(k)
  /\ \A k \in Used : Adds(k) => \E b \in Used \ {k} : Adds(b) /\ ~Preferred(k, b)
Clashes(p) == \E i \in DOMAIN specs : /\ specs[i].item.point = p
                                     /\ specs[i].item.policy = "error" /\ Rivals(i) # {}
StrictLoses(p) == \E i \in Survivors(p) \ Closed(p) : specs[i].item.strict
CircularAt(p) == \E S \in SUBSET Closed(p) : Circular(S)
Misplaced(i) == \/ specs[i].item.at = "malformed"
                \/ specs[i].item.at = "mismatch" /\ specs[i].item.strict

(* The resolver fails only for the reason it gives, and never comes past a  *)
(* reason: rules that form a cycle (or that put a mixin used twice behind   *)
(* another, which is reported as a cycle too), an added function that no    *)
(* mixin is preferred for over all others, an id twice at a point with the  *)
(* error policy, a strict hook that loses a dependency, directly or because *)
(* the dependency was dropped itself, circular dependencies, and a locator  *)
(* of a hook of the call stack that is malformed, or strict and wrong.      *)
FailsExactlyWhen ==
  /\ why = "cyclic rules" => CyclicRules \/ ~IsInjective(prog.uses)
  /\ why = "ambiguous" => Unchosen
  /\ why = "duplicate id" => Clashes(point)
  /\ why = "unknown dependency" => ~Clashes(point) /\ StrictLoses(point)
  /\ why = "cyclic dependencies" => ~StrictLoses(point) /\ CircularAt(point)
  /\ why = "locator" => \E p \in Points : \E i \in Closed(p) : Misplaced(i)
  /\ at \notin {"order", "error"} => ~CyclicRules
  /\ at \notin {"order", "add", "error"} => ~Unchosen
  /\ at \in {"weave", "done"} =>
       \A p \in Points : ~Clashes(p) /\ ~StrictLoses(p) /\ ~CircularAt(p)
  /\ at = "done" => \A p \in Points : \A i \in Closed(p) : ~Misplaced(i)

(* When the effect of a woven spec takes place in a call of foo: heads and  *)
(* invokes on the way in, tails on the way out.                             *)
Time(n) == IF specs[woven[n]].item.point = "tail" THEN 2 * Len(woven) - n ELSE n

(* In a call of the woven function the effects of one point follow its call *)
(* stack, the heads come first and the tails last.                          *)
EffectsFollowStack ==
  at = "done" => \A m, n \in DOMAIN woven :
    LET p == specs[woven[m]].item.point  q == specs[woven[n]].item.point IN
    /\ p = q => \A k, l \in DOMAIN stack[p] :
         stack[p][k] = woven[m] /\ stack[p][l] = woven[n] /\ k < l => Time(m) < Time(n)
    /\ <<p, q>> \in {<<"head", "invoke">>, <<"head", "tail">>, <<"invoke", "tail">>}
         => Time(m) < Time(n)

(* Every hook a program uses is woven, or dropped with a reason, or it      *)
(* yielded to a preferred spec of its id, one that precedes it unless it    *)
(* has the drop policy itself; and it is only one of these.                 *)
HooksAccountedFor ==
  at = "done" => \A i \in DOMAIN specs :
    LET isWoven == i \in Range(woven)
        reasons == {r \in dropped : r[1] = i}
        yields == \E j \in Rivals(i) :
                    /\ specs[j].item.policy = "prefer"
                    /\ specs[i].item.policy = "drop" \/ Precedes(j, i)
                    /\ j \in Range(woven) \/ \E r \in dropped : r[1] = j
    IN /\ isWoven => reasons = {} /\ \A j \in DOMAIN woven, k \in DOMAIN woven :
                                    woven[j] = i /\ woven[k] = i => j = k
       /\ Cardinality(reasons) <= 1
       /\ isWoven \/ reasons # {} \/ yields

(* The resolver comes to an end on every program.                           *)
Terminates == <>(at \in {"done", "error"})

(* "depends: comma-separated hook ids that must run before this hook"       *)
(* (docs/mixin_hooks.md): the dependencies of a woven hook are woven too.   *)
(* Not so: a hook that is dropped while weaving leaves its dependents.      *)
DependenciesWoven ==
  at = "done" => \A i \in Range(woven), d \in Ids :
    d \in specs[i].item.depends => \E j \in Range(woven) : specs[j].id = d
=============================================================================
