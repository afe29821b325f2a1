--------------------------- MODULE CompiledProgram ---------------------------
(***************************************************************************)
(* What lowering and type checking promise to the interpreter: every       *)
(* function and handler of a program, as written and as compiled, is run   *)
(* on arguments of its types.                                              *)
(***************************************************************************)
EXTENDS TypeCheck

CONSTANT Arguments  \* type |-> the values of it that functions are run on

RECURSIVE HasType(_, _)
HasType(v, t0) ==
    LET t == ExpandAlias(t0, {}, [bind |-> <<>>])
        sum == Sums[t.n]
        binds == [p \in ToSet(sum.params) |-> t.args[CHOOSE k \in DOMAIN t.args : sum.params[k] = p]]
        fields == RecordOf(t, [bind |-> <<>>])
    IN  CASE t.n \in {"Int", "Bool", "Str"} -> v.tag = t.n
          [] t.n = "Unit" -> v = Nothing
          [] t.n \in DOMAIN Sums ->
                 /\ v.tag = "sum" /\ v.n \in DOMAIN sum.variants
                 /\ LET ts == [k \in DOMAIN sum.variants[v.n] |-> Subst(Generic(sum.variants[v.n][k], ToSet(sum.params)), binds, [bind |-> <<>>])]
                    IN  Len(v.args) = Len(ts) /\ \A k \in DOMAIN ts : HasType(v.args[k], ts[k])
          [] t.n \in DOMAIN Records ->
                 /\ v.tag = "record" /\ {v.args[k][1] : k \in DOMAIN v.args} = DOMAIN fields
                 /\ \A k \in DOMAIN v.args : HasType(v.args[k][2], fields[v.args[k][1]])

ASSUME ArgumentsTyped == \A t \in DOMAIN Arguments : \A v \in Arguments[t] : HasType(v, t)

\* A node is hoist safe if what lowering moves in front of it overtakes nothing that
\* could notice: only literals and other hoisted operands stand left of it.
RECURSIVE Sugar(_), HoistSafe(_)
Hoisted(e) == e.op = "try" \/ (e.op = "match" /\ \E k \in DOMAIN e.arms : e.arms[k].body.op = "do" \/ Sugar(e.arms[k].body))
Operands(e) == IF e.op = "pipe" THEN <<e.a[1]>> ELSE IF e.op \in {"lit", "var", "do"} THEN <<>> ELSE e.a
Sugar(e) == Hoisted(e) \/ \E k \in DOMAIN Operands(e) : Sugar(Operands(e)[k])
HoistSafe(node) ==
    LET es == IF "a" \in DOMAIN node THEN Operands(node) ELSE IF "e" \in DOMAIN node THEN <<node.e>> ELSE <<>>
        blocks == (IF "b" \in DOMAIN node THEN node.b ELSE <<>>) \o (IF "then" \in DOMAIN node THEN node.then \o node.else ELSE <<>>)
                  \o (IF "arms" \in DOMAIN node THEN [k \in DOMAIN node.arms |-> node.arms[k].body] ELSE <<>>)
    IN  /\ \A j \in DOMAIN es : HoistSafe(es[j]) /\ (Sugar(es[j]) => \A i \in 1..(j - 1) : es[i].op = "lit" \/ Hoisted(es[i]))
        /\ \A k \in DOMAIN blocks : HoistSafe(blocks[k])

Source == InOrder(program.decls)

\* The interpreter fills the variables of a sector before anything else, each
\* initialiser may read those before it.
Fresh(state) == [env |-> <<>>, vars |-> state, log |-> <<>>, st |-> "ok", v |-> Nothing]
Outside(mode, ds, aliases) == [sector |-> "", mode |-> mode, by |-> "", aliases |-> aliases, fns |-> FnsOf(ds)]
Initialised(s) ==
    FoldLeft(LAMBDA acc, d : LET r == Eval(d.e, acc, Outside("start", hir, <<>>)) IN Bind(r, d.name :> r.v), Fresh(<<>>),
             SelectSeq(hir, LAMBDA d : d.kind = "let" /\ d.sector = s))

\* The states a program can be in once its variables are filled: one, or none if an
\* initialiser raised.
Sectors == {hir[k].sector : k \in DOMAIN hir}
Started == LET filled == [s \in Sectors |-> Initialised(s)]
           IN  IF \A s \in Sectors : filled[s].st = "ok" THEN {Fresh([s \in Sectors |-> filled[s].env])} ELSE {}

ArgumentsOf(d) == {args \in [DOMAIN d.params -> UNION {Arguments[d.params[k].t] : k \in DOMAIN d.params}] :
                      \A k \in DOMAIN d.params : args[k] \in Arguments[d.params[k].t]}

\* The functions and handlers a program is about, and what each comes to on each of
\* its arguments in the program ds.
Tested == {d \in ToSet(hir) : d.name \in program.tested}
Outcomes(d, ds, aliases) ==
    {<<args, Call(d.name, args, start, d.sector, Outside("forbid", ds, aliases))>> : args \in ArgumentsOf(d), start \in Started}

\* Lowering keeps the meaning: a compiled function or handler returns, aborts, changes
\* the sector variables, calls and emits as the source says, in the same order
\* (REF2.md 2.6, 2.6.1), if nothing is hoisted over an operand that can notice.
MeaningPreserved ==
    stage = "policy" /\ (\A k \in DOMAIN Source : HoistSafe(Source[k])) =>
        \A d \in Tested : Outcomes(d, hir, <<>>) = Outcomes(d, Source, program.aliases)

\* A program that is accepted, and in which the checker guessed no type (open), never
\* applies an operation to a value it cannot take; every function returns a value of
\* the type it declares and the sector variables keep theirs (REF2.md, COMPILER.md).
AcceptedRunsRight ==
    stage = "accepted" /\ ~ ctx.open =>
        \A d \in Tested : \A o \in Outcomes(d, hir, <<>>) :
            LET r == o[2]
            IN  /\ r.st # "wrong"
                /\ d.kind = "fn" /\ r.st = "ok" => HasType(r.v, d.ret)
                /\ \A s \in DOMAIN r.vars : \A x \in DOMAIN r.vars[s] : HasType(r.vars[s][x], ctx.genv[x])

\* In an accepted program the code of a sector runs in that sector only, a function of
\* no sector emits nothing wherever it is called from, no function or handler outside
\* of the standard library reaches the bridge, its sector or its other functions, and
\* only handlers abort (DOCS.md on sectors and effects).
EffectsAsDeclared ==
    stage = "accepted" =>
        \A d \in Tested : \A o \in Outcomes(d, hir, <<>>) :
            LET r == o[2]
                fns == FnsOf(hir)
            IN  /\ r.st = "abort" => d.kind = "on"
                /\ \A k \in DOMAIN r.log :
                       LET x == r.log[k]
                       IN  CASE x.what = "call"   -> fns[x.n].sector \in {"", x.sector}
                             [] x.what = "emit"   -> x.sector # "" /\ fns[x.by].sector = x.sector
                             [] x.what = "bridge" -> fns[x.by].lib

\* That an accepted program starts is false: an initialiser may call or match.
AcceptedStarts == stage = "accepted" => Started # {}

\* Initialisers do reach the bridge: this is false, because the policy is not asked of them.
InitialisersReachNoBridge ==
    stage = "accepted" =>
        \A s \in Sectors : \A k \in DOMAIN Initialised(s).log :
            LET x == Initialised(s).log[k] IN x.what = "bridge" => x.by # ""
=============================================================================
