--------------------------- MODULE MCMixinWeaving ---------------------------
(* Three families of programs: one mixin with three hooks of one point and  *)
(* their conflicts and dependencies; two mixins with hooks of all points,   *)
(* default ids and locators; and three mixins, used up to three times, with *)
(* every set of prefer rules.                                               *)
EXTENDS MixinWeaving

CONSTANTS a, b, c

MCMixins == 1..3
MCIds == {a, b, c}

Hook(p, id, priority, depends, policy, strict, locator) ==
  [kind |-> "hook", point |-> p, id |-> id, priority |-> priority, depends |-> depends,
   policy |-> policy, strict |-> strict, at |-> locator]
Add == [Around EXCEPT !.kind = "add"]

Program(uses, rules, items) ==
  [uses |-> uses, rules |-> rules,
   items |-> [m \in Mixins |-> IF m \in DOMAIN items THEN items[m] ELSE << >>]]

Chained(id) ==
  {Hook("invoke", id, n, d, x[1], x[2], "match") :
     n \in {0, 1}, d \in {{}, {a}, {b}, {c}},
     x \in {<<"error", TRUE>>, <<"error", FALSE>>, <<"prefer", TRUE>>, <<"drop", FALSE>>}}
Chains == {Program(<<1>>, {}, << <<h, i, j>> >>) :
             h \in {x \in Chained(a) : x.priority = 0},
             i \in {x \in Chained(b) : x.policy = "error" /\ (x.priority = 0 \/ x.depends = {})},
             j \in {x \in Chained(a) \cup Chained(c) : x.policy # "error" \/ x.strict}}

Located ==
  {Hook(p, id, n, {}, "error", x[1], x[2]) : p \in Points, id \in {None, a}, n \in {0, 1},
     x \in {<<TRUE, "match">>, <<FALSE, "mismatch">>, <<TRUE, "mismatch">>,
            <<FALSE, "malformed">>}}
Stacks == {Program(<<1, 2>>, {}, << <<h, Around>>, <<i>> \o j >>) :
             h \in {x \in Located : x.priority = 0}, i \in Located,
             j \in {<<Hook(p, b, 0, {a}, "error", FALSE, "match")>> : p \in Points} \cup {<< >>}}

Orders == {Program(uses, rules, << <<Around>>, <<Add>>, <<Add>> >>) :
             uses \in UNION {[1..n -> MCMixins] : n \in 1..3},
             rules \in SUBSET {r \in MCMixins \X MCMixins : r[1] # r[2]}}

MCPrograms == Chains \cup Stacks \cup Orders
=============================================================================
