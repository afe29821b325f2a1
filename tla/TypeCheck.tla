------------------------------ MODULE TypeCheck ------------------------------
(***************************************************************************)
(* flavent/typecheck.py: inference over the lowered program, one           *)
(* declaration a step, after the bridge policy has been enforced on all of *)
(* it. Types are con, app (a type applied to arguments), gen (a type       *)
(* parameter), meta (unknown so far), and fn and ctor for names that are   *)
(* called. What a definition does to the context is a state                *)
(*   k      next_meta                                                      *)
(*   bind   meta_bindings                                                  *)
(*   fields meta_record_fields: what a meta must have as a record          *)
(*   env    the types of the locals     genv  those of sector variables    *)
(*   t, eff the type and the effect ("" for pure) of the last expression   *)
(*   err    a TypeError or EffectError was raised                          *)
(*   open   ghost: the checker made up a type or compared none, where an   *)
(*          operation needs one                                            *)
(* and c is what stays fixed: sector, handler, ret (expected_ret), fns.    *)
(***************************************************************************)
EXTENDS Lowering

CONSTANTS Sums,     \* sum type |-> params, variants: constructor |-> the types of its payload
          Records,  \* record type |-> params, fields: name |-> type
          Aliases   \* type alias |-> params, target

VARIABLES at,       \* declarations checked so far, in check_program's order
          ctx       \* ctx0, the context of check_program

Type(tag, n, args) == [tag |-> tag, n |-> n, args |-> args]
Con(n) == Type("con", n, <<>>)
App(n, args) == Type("app", n, args)
NoType == Type("none", "", <<>>)    \* expected=None
Raised == Type("raised", "", <<>>)  \* of an alias that is cyclic, or has parameters and not as many arguments

Fail(s) == [s EXCEPT !.err = TRUE]
Typed(s, t, eff) == [s EXCEPT !.t = t, !.eff = eff]
FreshMeta(s) == [s EXCEPT !.t = Type("meta", ToString(s.k), <<>>), !.k = @ + 1, !.eff = ""]
MadeUp(s) == [FreshMeta(s) EXCEPT !.open = TRUE]
MetaField(s, n, fs) == [s EXCEPT !.fields = (n :> fs) @@ @]
FieldsOf(s, n) == IF n \in DOMAIN s.fields THEN s.fields[n] ELSE <<>>
Join(s, eff) == IF eff = "" THEN s ELSE IF s.eff \in {"", eff} THEN [s EXCEPT !.eff = eff] ELSE Fail(s)
\* q, which came after s, with the effects of both; q as an expression of the type t.
After(s, q) == Join([q EXCEPT !.eff = s.eff], q.eff)
As(t, q) == [q EXCEPT !.t = t]

\* _lower_type: the names of type parameters become generic types.
RECURSIVE Generic(_, _)
Generic(t, tparams) ==
    CASE t.tag = "con" /\ t.n \in tparams -> Type("gen", t.n, <<>>)
      [] t.tag = "app" -> App(t.n, [k \in DOMAIN t.args |-> Generic(t.args[k], tparams)])
      [] OTHER -> t

RECURSIVE Prune(_, _)
Prune(t, s) == IF t.tag = "meta" /\ t.n \in DOMAIN s.bind THEN Prune(s.bind[t.n], s) ELSE t

RECURSIVE Subst(_, _, _)
Subst(t0, binds, s) ==
    LET t == Prune(t0, s)
    IN  CASE t.tag = "gen" /\ t.n \in DOMAIN binds -> binds[t.n]
          [] t.tag \in {"app", "tuple"} -> [t EXCEPT !.args = [k \in DOMAIN @ |-> Subst(@[k], binds, s)]]
          [] OTHER -> t

RECURSIVE ExpandAlias(_, _, _)
ExpandAlias(t0, seen, s) ==
    LET t == Prune(t0, s)
        alias == Aliases[t.n]
    IN  IF t.tag \notin {"con", "app"} \/ t.n \notin DOMAIN Aliases THEN t
        ELSE IF t.n \in seen \/ (alias.params # <<>> /\ Len(t.args) # Len(alias.params)) THEN Raised
        ELSE ExpandAlias(Subst(Generic(alias.target, ToSet(alias.params)),
                               [p \in ToSet(alias.params) |-> t.args[CHOOSE k \in DOMAIN t.args : alias.params[k] = p]], s),
                         seen \union {t.n}, s)

\* _instantiate: one fresh meta for each parameter in t. The next call, for the next
\* parameter of the same function, starts afresh.
RECURSIVE Gens(_, _)
Gens(t, s) == LET q == Prune(t, s)
              IN  CASE q.tag = "gen" -> <<q.n>>
                    [] q.tag = "app" -> FlattenSeq([k \in DOMAIN q.args |-> Gens(q.args[k], s)])
                    [] OTHER -> <<>>
Instantiate(t, s) ==
    LET gens == SetToSeq(ToSet(Gens(t, s)))
        binds == [g \in ToSet(gens) |-> Type("meta", ToString(s.k - 1 + (CHOOSE k \in DOMAIN gens : gens[k] = g)), <<>>)]
    IN  [s EXCEPT !.t = Subst(t, binds, s), !.k = @ + Len(gens), !.open = @ \/ gens # <<>>]
InstantiateAll(ts, s) ==
    FoldLeft(LAMBDA acc, t : LET q == Instantiate(t, acc.s) IN [s |-> q, ts |-> Append(acc.ts, q.t)], [s |-> s, ts |-> <<>>], ts)

\* The fields of a record type, its parameters replaced; none for any other type.
RecordOf(t, s) ==
    IF t.tag \notin {"con", "app"} \/ t.n \notin DOMAIN Records THEN <<>>
    ELSE LET params == Records[t.n].params
             fields == Records[t.n].fields
             binds == [p \in ToSet(params) |-> t.args[CHOOSE k \in DOMAIN params : params[k] = p]]
         IN  [f \in DOMAIN fields |-> Subst(Generic(fields[f], ToSet(params)), binds, s)]

RECURSIVE Unify(_, _, _), UnifyExpanded(_, _, _), UnifyAll(_, _, _), Constrain(_, _, _), BindMeta(_, _, _)
UnifyAll(as, bs, s) == FoldLeft(LAMBDA acc, k : Unify(as[k], bs[k], acc), s, [k \in DOMAIN as |-> k])

\* _apply_meta_record_constraints: t takes the place of the meta n, so it must have
\* the fields asked of n so far.
Constrain(n, t, s) ==
    LET need == FieldsOf(s, n)
        have == IF t.tag = "meta" THEN FieldsOf(s, t.n) ELSE RecordOf(t, s)
        names == SetToSeq(DOMAIN need)
        shared == SelectSeq(names, LAMBDA f : f \in DOMAIN have)
        dropped == MetaField(s, n, <<>>)
        q == IF t.tag = "meta" THEN MetaField(dropped, t.n, have @@ need) ELSE dropped
    IN  IF need = <<>> THEN s
        ELSE IF t.tag # "meta" /\ (have = <<>> \/ shared # names) THEN Fail(s)
        ELSE UnifyAll([k \in DOMAIN shared |-> have[shared[k]]], [k \in DOMAIN shared |-> need[shared[k]]], q)

BindMeta(n, t, s) == [Constrain(n, t, s) EXCEPT !.bind = (n :> t) @@ @]

Unify(a, b, s) == UnifyExpanded(ExpandAlias(Prune(a, s), {}, s), ExpandAlias(Prune(b, s), {}, s), s)

\* Two names of functions or constructors never unify.
UnifyExpanded(a, b, s) ==
    CASE s.err -> s
      [] ~ s.err /\ (a = Raised \/ b = Raised) -> Fail(s)
      [] ~ s.err /\ a.tag = "meta" -> IF a = b THEN s ELSE BindMeta(a.n, b, s)
      [] ~ s.err /\ a.tag # "meta" /\ b.tag = "meta" -> BindMeta(b.n, a, s)
      [] ~ s.err /\ a.tag = b.tag /\ a.tag \in {"con", "gen"} -> IF a.n = b.n THEN s ELSE Fail(s)
      [] ~ s.err /\ a.tag = b.tag /\ a.tag \in {"app", "tuple"} ->
             IF a.n = b.n /\ Len(a.args) = Len(b.args) THEN UnifyAll(a.args, b.args, s) ELSE Fail(s)
      [] OTHER -> Fail(s)

\* _constrain_record_field: the type of a field of the meta n, which gets it now if it had none.
FieldOfMeta(n, f, expected, s) ==
    LET fs == FieldsOf(s, n)
        new(q) == MetaField(q, n, (f :> q.t) @@ fs)
    IN  IF f \in DOMAIN fs THEN As(fs[f], IF expected = NoType THEN s ELSE Unify(fs[f], expected, s))
        ELSE new(IF expected = NoType THEN MadeUp(s) ELSE As(expected, s))

\* ctor_sig: the types of the payload and the type constructed.
CtorSig(ctor) ==
    LET sum == Sums[Owner[ctor]]
        gens == [k \in DOMAIN sum.params |-> Type("gen", sum.params[k], <<>>)]
    IN  [payload |-> [k \in DOMAIN sum.variants[ctor] |-> Generic(sum.variants[ctor][k], ToSet(sum.params))],
         ret |-> IF gens = <<>> THEN Con(Owner[ctor]) ELSE App(Owner[ctor], gens)]

\* Mutant of FnSig: a function declared outside of its sector gets no effect.
FnSigOutside(f, c) == LET d == c.fns[f]
                      IN  [params |-> [k \in DOMAIN d.params |-> Generic(d.params[k].t, d.tparams)],
                           ret |-> Generic(d.ret, d.tparams), sector |-> IF d.top THEN "" ELSE d.sector]

\* fn_sig, fn_tparams and fn_effect.
FnSig(f, c) == LET d == c.fns[f]
               IN  [params |-> [k \in DOMAIN d.params |-> Generic(d.params[k].t, d.tparams)],
                    ret |-> Generic(d.ret, d.tparams), sector |-> d.sector]

\* A constructor's payload types and then its own, with fresh metas.
InstantiateCtor(sig, s) == InstantiateAll(Append(sig.payload, sig.ret), s)

RECURSIVE BindPattern(_, _, _), BindCtor(_, _, _)
BindCtor(p, t, inst) ==
    IF Len(p.args) # Len(inst.ts) - 1 THEN Fail(inst.s)
    ELSE FoldLeft(LAMBDA acc, k : BindPattern(p.args[k], inst.ts[k], acc), Unify(t, Last(inst.ts), inst.s), [k \in DOMAIN p.args |-> k])
BindPattern(p, t, s) ==
    CASE p.form = "wild" -> s
      [] p.form = "bool" -> Unify(Con("Bool"), t, s)
      [] p.form = "var"  -> [s EXCEPT !.env = (p.name :> t) @@ @]
      [] p.form = "ctor" -> BindCtor(p, t, InstantiateCtor(CtorSig(p.name), s))

RECURSIVE Infer(_, _, _, _), InferArgs(_, _, _, _), InferCall(_, _, _, _), InferCtor(_, _, _, _), InferFn(_, _, _, _), InferBuiltin(_, _, _, _),
          MakeBuiltin(_, _, _, _), InferApplied(_, _, _, _), InferRecord(_, _, _, _, _), InferOpenRecord(_, _, _), InferOperands(_, _, _),
          InferMatch(_, _, _, _), InferArm(_, _, _, _, _), InferRpc(_, _, _), CheckBlock(_, _, _), CheckStmt(_, _, _), CheckUse(_, _, _, _, _)

\* The expression that q came from must have the type t.
Against(t, q) == Unify(t, q.t, q)

\* Mutant of InferArgs: an argument is inferred with what is expected, and taken.
InferArgsUnchecked(es, ts, s, c) ==
    FoldLeft(LAMBDA acc, k : After(acc, Infer(es[k], ts[k], acc, c)), s, [k \in DOMAIN es |-> k])

\* Arguments against the types they must have; their effects are joined.
InferArgs(es, ts, s, c) ==
    FoldLeft(LAMBDA acc, k : After(acc, Against(ts[k], Infer(es[k], ts[k], acc, c))), s, [k \in DOMAIN es |-> k])

\* A name, with the variant for a constructor without payload where a type is
\* expected. A variable nothing is known of gets a type that is kept for the others.
InferVar(x, expected, s, c) ==
    CASE x \in DOMAIN s.env -> Typed(s, s.env[x], "")
      [] x \notin DOMAIN s.env /\ x \in DOMAIN s.genv -> Typed(s, s.genv[x], "")
      [] x \in DOMAIN c.fns -> Typed(s, Type("fn", x, <<>>), "")
      [] x \in DOMAIN Owner -> IF expected = NoType \/ CtorSig(x).payload # <<>> THEN Typed(s, Type("ctor", x, <<>>), "")
                               ELSE Typed(Against(expected, Instantiate(CtorSig(x).ret, s)), Instantiate(CtorSig(x).ret, s).t, "")
      [] OTHER -> [MadeUp(s) EXCEPT !.genv = (x :> MadeUp(s).t) @@ @]

\* Ok, Err, Some and None take the place of what is expected, a meta included.
Arity == [ctor \in {"Ok", "Err", "Some"} |-> 1] @@ [ctor \in {"None"} |-> 0]
InferBuiltin(e, whole, s, c) ==
    IF whole.tag # "app" \/ whole.n # Owner[e.n] \/ Len(e.a) # Arity[e.n] THEN Fail(s)
    ELSE As(whole, InferArgs(e.a, IF e.n = "Err" THEN Tail(whole.args) ELSE whole.args, [s EXCEPT !.eff = ""], c))
MakeBuiltin(e, t, s, c) ==
    LET made == App(Owner[e.n], [k \in DOMAIN Sums[Owner[e.n]].params |-> Type("meta", ToString(s.k + k - 1), <<>>)])
    IN  IF t.tag \notin {"none", "meta"} THEN InferBuiltin(e, t, s, c)
        ELSE InferBuiltin(e, made, [s EXCEPT !.k = @ + Len(made.args), !.bind = IF t.tag = "meta" THEN (t.n :> made) @@ @ ELSE @], c)

\* A constructor of the program is unified with what is expected, and so is a function.
InferApplied(e, ts, q, c) ==
    IF Len(e.a) # Len(ts) - 1 THEN Fail(q) ELSE As(Last(ts), InferArgs(e.a, ts, [q EXCEPT !.eff = ""], c))
InferCtor(e, expected, inst, c) ==
    InferApplied(e, inst.ts, IF expected = NoType THEN inst.s ELSE Unify(expected, Last(inst.ts), inst.s), c)

\* A function of a sector may be called in it only.
InferFn(e, sig, s, c) ==
    LET inst == InstantiateAll(Append(sig.params, sig.ret), s)
    IN  IF sig.sector \notin {"", c.sector} THEN Fail(s) ELSE InferApplied(e, inst.ts, inst.s, c)
InferCall(e, expected, s, c) ==
    CASE e.n \in DOMAIN Arity -> MakeBuiltin(e, Prune(expected, s), s, c)
      [] e.n \in DOMAIN Owner \ DOMAIN Arity -> InferCtor(e, expected, InstantiateCtor(CtorSig(e.n), s), c)
      [] e.n \in DOMAIN c.fns -> InferFn(e, FnSig(e.n, c), s, c)
      [] OTHER -> Fail(s)

\* rpc and call: the parameters as they are declared, not instantiated.
InferRpc(e, s, c) ==
    IF c.sector = "" \/ e.n \notin DOMAIN c.fns \/ Len(e.a) # Len(c.fns[e.n].params) THEN Fail(s)
    ELSE As(IF e.op = "send" THEN Con("Unit") ELSE FnSig(e.n, c).ret, InferArgs(e.a, FnSig(e.n, c).params, [s EXCEPT !.eff = c.sector], c))

\* A literal of an expected record type must have its fields; any other is a meta
\* with those fields.
InferOpenRecord(e, new, c) ==
    LET given(k, v) == FieldOfMeta(new.t.n, e.keys[k], v.t, v)
    IN  As(new.t, FoldLeft(LAMBDA acc, k : After(acc, given(k, Infer(e.a[k], NoType, acc, c))), new, [k \in DOMAIN e.keys |-> k]))
InferRecord(e, t, fields, s, c) ==
    CASE fields = <<>> -> InferOpenRecord(e, MadeUp(s), c)
      [] fields # <<>> /\ ToSet(e.keys) = DOMAIN fields ->
             As(t, InferArgs(e.a, [k \in DOMAIN e.keys |-> fields[e.keys[k]]], [s EXCEPT !.eff = ""], c))
      [] OTHER -> Fail(s)

\* Nothing is asked of a value that is no record: its member has any type.
InferMember(f, expected, t, fields, q) ==
    CASE f \in DOMAIN fields -> As(fields[f], IF expected = NoType THEN q ELSE Unify(expected, fields[f], q))
      [] fields # <<>> /\ f \notin DOMAIN fields -> Fail(q)
      [] fields = <<>> /\ t.tag = "meta" -> [FieldOfMeta(t.n, f, expected, q) EXCEPT !.eff = q.eff]
      [] OTHER -> [MadeUp(q) EXCEPT !.eff = q.eff]

\* The operands unify; that they are numbers is not asked.
InferBinary(op, l, r, kinds, q) ==
    CASE op = "+" /\ kinds = {Con("Int"), Con("Float")} -> As(Con("Float"), q)
      [] op \in {"and", "or"} -> As(Con("Bool"), UnifyAll(<<l.t, l.t, r.t>>, <<r.t, Con("Bool"), Con("Bool")>>, q))
      [] op = "==" -> As(Con("Bool"), Unify(l.t, r.t, q))
      [] OTHER -> [As(IF op = "<" THEN Con("Bool") ELSE l.t, Unify(l.t, r.t, q)) EXCEPT !.open = @ \/ kinds # {Con("Int")}]
InferOperands(e, l, c) ==
    LET both(r) == InferBinary(e.n, l, r, {Prune(l.t, r), Prune(r.t, r)}, After(l, r))
    IN  both(Infer(e.a[2], NoType, l, c))

\* The variables of an arm's pattern are known in the arm only.
InferArm(arm, t, scrut, s, c) == [Against(t, Infer(arm.body, t, BindPattern(arm.pat, scrut.t, s), c)) EXCEPT !.env = s.env]
InferMatch(e, scrut, new, c) ==
    As(new.t, FoldLeft(LAMBDA acc, arm : After(acc, InferArm(arm, new.t, scrut, acc, c)), [new EXCEPT !.eff = scrut.eff], e.arms))

Infer(e, expected, s, c) ==
    LET member(q, t) == InferMember(e.n, expected, t, RecordOf(t, q), q)
        record(t) == InferRecord(e, t, RecordOf(t, s), s, c)
        first == Infer(e.a[1], NoType, s, c)
    IN  CASE s.err -> s
          [] ~ s.err /\ e.op = "lit"    -> Typed(s, Con(e.ty), "")
          [] ~ s.err /\ e.op = "undef"  -> FreshMeta(s)
          [] ~ s.err /\ e.op = "var"    -> InferVar(e.n, expected, s, c)
          [] ~ s.err /\ e.op = "call"   -> InferCall(e, expected, s, c)
          [] ~ s.err /\ e.op \in {"rpc", "send"} -> InferRpc(e, s, c)
          [] ~ s.err /\ e.op = "record" -> record(Prune(expected, s))
          [] ~ s.err /\ e.op = "member" -> member(first, Prune(first.t, first))
          [] ~ s.err /\ e.op = "bin"    -> InferOperands(e, first, c)
          [] ~ s.err /\ e.op = "not"    -> [first EXCEPT !.open = @ \/ Prune(first.t, first) # Con("Bool")]
          [] ~ s.err /\ e.op = "match"  -> InferMatch(e, first, FreshMeta(first), c)

CheckBlock(b, s, c) ==
    FoldLeft(LAMBDA acc, st : After(acc, CheckStmt(st, acc, c)), [s EXCEPT !.eff = ""], b)

CheckStmt(st, s, c) ==
    LET lhs == CASE st.op # "assign" -> NoType
                 [] st.op = "assign" /\ st.n \in DOMAIN s.env -> s.env[st.n]
                 [] st.op = "assign" /\ st.n \notin DOMAIN s.env -> IF st.n \in DOMAIN s.genv THEN s.genv[st.n] ELSE NoType
        expected == CASE st.op = "return" -> c.ret [] st.op = "if" -> Con("Bool") [] st.op = "assign" -> lhs [] OTHER -> NoType
    IN  CheckUse(st, lhs, IF st.op \in {"stop", "yield"} THEN s ELSE Infer(st.e, expected, s, c), s, c)

\* What a statement does with its expression, which left the state q.
CheckUse(st, lhs, q, s, c) ==
    LET inSector(r) == IF c.sector = "" THEN Fail(r) ELSE [r EXCEPT !.eff = c.sector]
        block(b, s1) == After(s1, CheckBlock(b, s1, c))
        arm(p, b, s1) == LET gives == b # <<>> /\ Last(b).op \in {"assign", "return", "abort"}
                         IN  [CheckBlock(b, BindPattern(p, q.t, s1), c) EXCEPT !.env = s1.env, !.open = @ \/ ~ gives]
    IN  CASE s.err -> s
          [] ~ s.err /\ st.op = "expr"   -> q
          [] ~ s.err /\ st.op = "let"    -> [q EXCEPT !.env = (st.n :> q.t) @@ @]
          [] ~ s.err /\ st.op = "assign" -> IF lhs = NoType THEN Fail(s) ELSE Against(lhs, q)
          [] ~ s.err /\ st.op = "emit"   -> IF Prune(q.t, q) \in {Con(t) : t \in EventTypes} THEN inSector(q) ELSE Fail(q)
          [] ~ s.err /\ st.op = "return" -> Against(c.ret, q)
          [] ~ s.err /\ st.op = "abort"  -> IF c.handler THEN inSector(q) ELSE Fail(q)
          [] ~ s.err /\ st.op \in {"stop", "yield"} -> inSector(s)
          [] ~ s.err /\ st.op = "if"     -> block(st.else, block(st.then, Against(Con("Bool"), q)))
          [] ~ s.err /\ st.op = "for"    -> IF c.sector = "" THEN Fail(s)
                 ELSE LET binder == MadeUp(q) IN After(q, CheckBlock(st.b, [binder EXCEPT !.env = (st.n :> binder.t) @@ @], c))
          [] ~ s.err /\ st.op = "match"  -> FoldLeft(LAMBDA acc, x : After(acc, arm(x.pat, x.body.b, acc)), q, st.arms)

(***************************************************************************)
(* check_program.                                                          *)
(***************************************************************************)

\* The policy: outside the standard library no expression names the bridge, its
\* sector or one of its other functions, called or not.
RECURSIVE NamesBridge(_)
NamesBridge(node) ==
    LET among(nodes) == \E k \in DOMAIN nodes : NamesBridge(nodes[k])
        has(part) == part \in DOMAIN node
    IN  \/ node.op \in {"rpc", "send"} /\ node.sector = Bridge
        \/ node.op \in {"var", "call"} /\ node.n \in Primitives
        \/ has("a") /\ among(node.a)
        \/ has("e") /\ NamesBridge(node.e)
        \/ has("b") /\ among(node.b)
        \/ has("then") /\ (among(node.then) \/ among(node.else))
        \/ has("arms") /\ \E k \in DOMAIN node.arms : NamesBridge(node.arms[k].body)

\* Values of the top level, its functions, then sector by sector the variables,
\* the functions and the handlers.
SectorsOf(ds) == FoldLeft(LAMBDA acc, d : IF d.sector = "" \/ d.sector \in ToSet(acc) THEN acc ELSE Append(acc, d.sector), <<>>, ds)
CheckOrder(ds) ==
    LET of(sector, kind) == SelectSeq(ds, LAMBDA d : d.sector = sector /\ d.kind = kind)
    IN  FlattenSeq([k \in DOMAIN (<<"">> \o SectorsOf(ds)) |->
                       LET sector == (<<"">> \o SectorsOf(ds))[k] IN of(sector, "let") \o of(sector, "fn") \o of(sector, "on")])

FnsOf(ds) == LET named == SelectSeq(ds, LAMBDA d : d.kind # "let")
             IN  [f \in {named[k].name : k \in DOMAIN named} |-> named[CHOOSE k \in DOMAIN named : named[k].name = f]]

\* Functions and handlers have locals and metas of their own; the types of the
\* sector variables are shared.
CheckedLet(d, q) == [q EXCEPT !.genv = (d.name :> q.t) @@ @, !.err = @ \/ q.eff # ""]
CheckedCode(d, s, q) == [s EXCEPT !.genv = q.genv, !.open = q.open, !.err = q.err \/ (d.kind = "fn" /\ q.eff \notin {"", d.sector})]
CheckItem(d, s, fns) ==
    LET params == [x \in {d.params[k].n : k \in DOMAIN d.params} |->
                      Generic(d.params[CHOOSE k \in DOMAIN d.params : d.params[k].n = x].t, d.tparams)]
        c == [sector |-> IF d.kind = "let" THEN "" ELSE d.sector, handler |-> d.kind = "on", ret |-> Generic(d.ret, d.tparams), fns |-> fns]
    IN  IF d.kind = "let" THEN CheckedLet(d, Infer(d.e, NoType, s, c))
        ELSE CheckedCode(d, s, CheckBlock(d.b, [s EXCEPT !.env = params, !.bind = <<>>], c))

vars == <<program, hir, fresh, stage, at, ctx>>

Init ==
    /\ InitLowering
    /\ at = 0
    /\ ctx = [k |-> 1, bind |-> <<>>, fields |-> <<>>, env |-> <<>>, genv |-> <<>>, t |-> NoType, eff |-> "", err |-> FALSE, open |-> FALSE]

LowerNext == LowerDecl /\ UNCHANGED <<at, ctx>>

CheckPolicy ==
    /\ stage = "policy"
    /\ stage' = IF \E k \in DOMAIN hir : hir[k].kind # "let" /\ ~ hir[k].lib /\ (\E j \in DOMAIN hir[k].b : NamesBridge(hir[k].b[j]))
                THEN "rejected" ELSE "check"
    /\ UNCHANGED <<program, hir, fresh, at, ctx>>

CheckDecl ==
    /\ stage = "check"
    /\ ctx' = CheckItem(CheckOrder(hir)[at + 1], ctx, FnsOf(hir))
    /\ at' = at + 1
    /\ stage' = IF ctx'.err THEN "rejected" ELSE IF at' = Len(hir) THEN "accepted" ELSE stage
    /\ UNCHANGED <<program, hir, fresh>>

Next == LowerNext \/ CheckPolicy \/ CheckDecl
Spec == Init /\ [][Next]_vars
=============================================================================
