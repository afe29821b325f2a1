------------------------------ MODULE Evaluation ------------------------------
(***************************************************************************)
(* flavent/runtime.py: what expressions, statements and calls evaluate to, *)
(* eval_expr_gen, exec_stmt_gen and call_fn_gen, as functions of a state   *)
(*   env   the variables of the activation                                 *)
(*   vars  sector_state                                                    *)
(*   log   the calls begun, the events emitted and the bridge calls made,  *)
(*         each with the function (by) and the sector it happened in       *)
(*   st    "ok", or why the evaluation left: "return", "abort", "stop",    *)
(*         "no arm", "wrong" (a value of a kind the operation cannot take) *)
(*   v     the value of the last expression, or what was returned          *)
(* The sugar of the source language, which the interpreter never sees, has *)
(* its meaning here as well: that is what lowering has to preserve.        *)
(***************************************************************************)
EXTENDS Integers, SequencesExt

CONSTANTS Owner,      \* constructor |-> the type it belongs to
          Primitives  \* the functions of _bridge_python.flv outside of its sector

EventTypes == {"Event.A", "Event.B"}
Bridge == "_bridge_python"

Value(tag, k, n, args) == [tag |-> tag, k |-> k, n |-> n, args |-> args]
Nothing == Value("none", 0, "", <<>>)           \* Python's None
Truth(b) == Value("Bool", IF b THEN 1 ELSE 0, "", <<>>)
Sum(ctor, args) == Value("sum", 0, ctor, args)
Record(keys, vs) == Value("record", 0, "", [k \in DOMAIN keys |-> <<keys[k], vs[k]>>])

Give(s, v) == [s EXCEPT !.v = v]
Leave(s, why, v) == [s EXCEPT !.st = why, !.v = v]
Bind(s, binds) == [s EXCEPT !.env = binds @@ @]

\* bool(v)
Holds(v) == CASE v.tag \in {"Int", "Bool", "Str"} -> v.k # 0
              [] v.tag = "record" -> v.args # <<>>
              [] OTHER -> v.tag # "none"

\* obj.get(field)
Field(r, f) ==
    LET having == {k \in DOMAIN r.args : r.args[k][1] = f}
    IN  IF having = {} THEN Nothing ELSE r.args[Max(having)][2]

RECURSIVE Same(_, _)
Same(x, y) ==
    /\ x.tag = y.tag /\ x.k = y.k /\ x.n = y.n /\ Len(x.args) = Len(y.args)
    /\ IF x.tag = "record" THEN \A k \in DOMAIN x.args : \E j \in DOMAIN y.args :
                                    x.args[k][1] = y.args[j][1] /\ Same(x.args[k][2], y.args[j][2])
       ELSE \A k \in DOMAIN x.args : Same(x.args[k], y.args[k])

\* What Python adds and orders: two numbers, or two strings. The string k is one
\* letter k times. Two sums it joins and orders as the tuples they are, which is
\* wrong here.
Comparable(x, y) == {x.tag, y.tag} \subseteq {"Int", "Bool"} \/ {x.tag, y.tag} = {"Str"}

\* Both operands are values by now, and / or included.
Binary(s, op, x, y) ==
    CASE op = "=="  -> Give(s, Truth(Same(x, y)))
      [] op = "and" -> Give(s, Truth(Holds(x) /\ Holds(y)))
      [] op = "or"  -> Give(s, Truth(Holds(x) \/ Holds(y)))
      [] op = "+" /\ Comparable(x, y) -> Give(s, Value(IF x.tag = "Str" THEN "Str" ELSE "Int", x.k + y.k, "", <<>>))
      [] op = "<" /\ Comparable(x, y) -> Give(s, Truth(x.k < y.k))
      [] OTHER -> Leave(s, "wrong", Nothing)

\* match_pattern: NoMatch, or the bindings of the pattern. In the source a bare
\* constructor may be an alias, which stands for its pattern.
NoMatch == [ok |-> FALSE, binds |-> <<>>]
RECURSIVE MatchPattern(_, _, _)
MatchPattern(p, v, aliases) ==
    CASE p.form = "ctor" /\ p.args = <<>> /\ p.name \in DOMAIN aliases -> MatchPattern(aliases[p.name], v, aliases)
      [] p.form = "wild" -> [ok |-> TRUE, binds |-> <<>>]
      [] p.form = "bool" -> [ok |-> Holds(v) = (p.name = "true"), binds |-> <<>>]
      [] p.form = "var"  -> [ok |-> TRUE, binds |-> p.name :> v]
      [] p.form = "ctor" /\ ~ (p.args = <<>> /\ p.name \in DOMAIN aliases) ->
             IF v.tag # "sum" \/ v.n # p.name THEN NoMatch
             ELSE IF p.args = <<>> THEN [ok |-> TRUE, binds |-> <<>>]
             ELSE IF Len(p.args) # Len(v.args) THEN NoMatch
             ELSE LET subs == [k \in DOMAIN p.args |-> MatchPattern(p.args[k], v.args[k], aliases)]
                  IN  IF \E k \in DOMAIN subs : ~ subs[k].ok THEN NoMatch
                      ELSE [ok |-> TRUE, binds |-> FoldLeft(LAMBDA b, r : r.binds @@ b, <<>>, subs)]

\* _bind_env and _restore_env: the bindings of an arm hold in its body only.
Restored(s, before, binds) ==
    [s EXCEPT !.env = [x \in (DOMAIN @ \ DOMAIN binds) \union (DOMAIN binds \cap DOMAIN before) |->
                          IF x \in DOMAIN binds THEN before[x] ELSE @[x]]]

\* A local, a variable of the sector, a constructor, or None.
Read(s, x, c) ==
    CASE x \in DOMAIN s.env -> s.env[x]
      [] x \notin DOMAIN s.env /\ c.sector \in DOMAIN s.vars /\ x \in DOMAIN s.vars[c.sector] -> s.vars[c.sector][x]
      [] OTHER -> IF x \in DOMAIN Owner THEN Sum(x, <<>>) ELSE Nothing

Write(s, x, v, c) ==
    IF x \notin DOMAIN s.env /\ c.sector \in DOMAIN s.vars /\ x \in DOMAIN s.vars[c.sector]
    THEN [s EXCEPT !.vars[c.sector][x] = v] ELSE Bind(s, x :> v)

\* list_to_py
RECURSIVE Elements(_)
Elements(v) == IF v.tag = "sum" /\ v.n = "Cons" /\ Len(v.args) = 2 THEN <<v.args[1]>> \o Elements(v.args[2]) ELSE <<>>
RECURSIVE IsList(_)
IsList(v) == v.tag = "sum" /\ (v.n = "Nil" \/ (v.n = "Cons" /\ Len(v.args) = 2 /\ IsList(v.args[2])))

\* _with_fn: what ? does in a function, by the type it returns.
TryMode(d) == CASE d.kind = "on" -> "handler"
                [] d.kind # "on" /\ d.ret.n = "Result" -> "result"
                [] d.kind # "on" /\ d.ret.n = "Option" -> "option"
                [] OTHER -> "forbid"

\* The context of an activation: its program, its function, the current sector and
\* what ? does. In the context of an initialiser (mode "start") the interpreter has
\* no call_fn_gen and no match_pattern yet, and evaluation ends in a NameError.
Inside(c, d, sector) == [c EXCEPT !.sector = sector, !.mode = TryMode(d), !.by = d.name]

Logged(s, what, n, args, c) ==
    [s EXCEPT !.log = Append(@, [what |-> what, n |-> n, args |-> args, by |-> c.by, sector |-> c.sector])]

\* The value of a statement that has none.
Settled(s) == IF s.st = "ok" THEN Give(s, Nothing) ELSE s

RECURSIVE Eval(_, _, _), EvalAll(_, _, _), Arms(_, _, _, _), Try(_, _), Pipe(_, _, _), Exec(_, _, _), Execute(_, _, _), Block(_, _, _),
          Call(_, _, _, _, _), Apply(_, _, _, _)

EvalAll(es, s, c) ==
    FoldLeft(LAMBDA acc, e : LET r == Eval(e, acc.s, c) IN [s |-> r, vs |-> Append(acc.vs, r.v)], [s |-> s, vs |-> <<>>], es)

\* The arms of a match: k is the first that may match v. The body is an
\* expression or, in a statement, a block.
Arms(arms, v, s, c) ==
    IF c.mode = "start" THEN Leave(s, "wrong", Nothing) ELSE IF arms = <<>> THEN Leave(s, "no arm", Nothing)
    ELSE LET m == MatchPattern(arms[1].pat, v, c.aliases) IN
         IF m.ok THEN Restored(Eval(arms[1].body, Bind(s, m.binds), c), s.env, m.binds)
         ELSE Arms(Tail(arms), v, s, c)

\* The caller goes on with its own env; the end of a body returns as well.
Back(r, env) == [r EXCEPT !.env = env, !.st = IF @ = "return" THEN "ok" ELSE @]

\* call_fn_gen: the body runs with an env of its own.
Call(f, vs, s, sector, c) ==
    IF c.mode = "start" THEN Leave(s, "wrong", Nothing) ELSE
    LET d == c.fns[f]
        env == [x \in {d.params[k].n : k \in DOMAIN d.params} |->
                   LET k == CHOOSE k \in DOMAIN d.params : d.params[k].n = x IN IF k \in DOMAIN vs THEN vs[k] ELSE Nothing]
        inner == Inside(c, d, sector)
        begun == [Logged(s, "call", f, vs, inner) EXCEPT !.env = env]
    IN  Back(IF d.form = "do" THEN Settled(Block(d.b, begun, inner)) ELSE Eval(d.e, begun, inner), s.env)

\* eval_pure_bridge: strLen stands for all of the primitives. It takes the length
\* of a value that is no string from its text, which has none here.
Primitive(f, vs, s, c) ==
    LET done == Logged(s, "bridge", f, vs, c)
    IN  IF vs # <<>> /\ vs[1].tag = "Str" THEN Give(done, Value("Int", vs[1].k, "", <<>>)) ELSE Leave(done, "wrong", Nothing)

\* A name applied to arguments: a constructor, a primitive or a function.
Apply(f, vs, s, c) ==
    CASE f \in DOMAIN Owner -> Give(s, Sum(f, vs))
      [] f \in Primitives -> Primitive(f, vs, s, c)
      [] f \in DOMAIN c.fns \ (DOMAIN Owner \union Primitives) -> Call(f, vs, s, c.sector, c)
      [] OTHER -> Leave(s, "wrong", Nothing)

\* e?: the payload of Ok or Some; anything else leaves the function or handler.
Try(s, c) ==
    LET good == IF c.mode = "option" THEN "Some" ELSE "Ok"
        bad == IF c.mode = "option" THEN "None" ELSE "Err"
    IN  CASE s.st = "ok" /\ s.v.tag = "sum" /\ s.v.n = good -> Give(s, s.v.args[1])
          [] s.st = "ok" /\ s.v.tag = "sum" /\ s.v.n = bad ->
                 IF c.mode = "handler" THEN Leave(s, "abort", s.v.args[1]) ELSE Leave(s, "return", s.v)
          [] s.st = "ok" /\ ~ (s.v.tag = "sum" /\ s.v.n \in {good, bad}) -> Leave(s, "no arm", Nothing)
          [] OTHER -> s

\* x |> f |> g(a): each stage is called with the value so far as its first argument.
Pipe(stages, s, c) ==
    IF stages = <<>> \/ s.st # "ok" THEN s
    ELSE LET r == EvalAll(stages[1].a, s, c)
         IN  Pipe(Tail(stages),
                  IF r.s.st = "ok" THEN Apply(stages[1].n, <<s.v>> \o r.vs, r.s, c) ELSE r.s, c)

Eval(e, s, c) ==
    IF s.st # "ok" THEN s ELSE
    CASE e.op = "lit"    -> Give(s, Value(e.ty, e.k, "", <<>>))
      [] e.op = "undef"  -> Give(s, Nothing)
      [] e.op = "var"    -> Give(s, Read(s, e.n, c))
      [] e.op = "not"    -> LET r == Eval(e.a[1], s, c) IN IF r.st = "ok" THEN Give(r, Truth(~ Holds(r.v))) ELSE r
      [] e.op = "record" -> LET r == EvalAll(e.a, s, c) IN IF r.s.st = "ok" THEN Give(r.s, Record(e.keys, r.vs)) ELSE r.s
      [] e.op = "member" -> LET r == Eval(e.a[1], s, c) IN
                            IF r.st # "ok" THEN r ELSE IF r.v.tag # "record" THEN Leave(r, "wrong", Nothing)
                            ELSE Give(r, Field(r.v, e.n))
      [] e.op = "bin"    -> LET r == EvalAll(e.a, s, c) IN IF r.s.st = "ok" THEN Binary(r.s, e.n, r.vs[1], r.vs[2]) ELSE r.s
      [] e.op = "call"   -> LET r == EvalAll(e.a, s, c) IN IF r.s.st = "ok" THEN Apply(e.n, r.vs, r.s, c) ELSE r.s
      [] e.op \in {"rpc", "send"} ->
             LET r == EvalAll(e.a, s, c)
                 q == IF e.sector = Bridge
                      THEN Give(Logged(r.s, "bridge", e.n, r.vs, c), Nothing)
                      ELSE Call(e.n, r.vs, r.s, e.sector, c)
             IN  IF r.s.st # "ok" THEN r.s ELSE IF q.st = "ok" /\ e.op = "send" THEN Give(q, Nothing) ELSE q
      [] e.op = "match"  -> LET r == Eval(e.a[1], s, c) IN IF r.st = "ok" THEN Arms(e.arms, r.v, r, c) ELSE r
      [] e.op = "try"    -> Try(Eval(e.a[1], s, c), c)
      [] e.op = "pipe"   -> Pipe(Tail(e.a), Eval(e.a[1], s, c), c)
      [] e.op = "do"     -> Block(e.b, Give(s, Nothing), c)

\* The value of a block as an arm is that of its last statement, if it is an expression.
Block(b, s, c) == FoldLeft(LAMBDA acc, st : IF acc.st = "ok" THEN Exec(st, Give(acc, Nothing), c) ELSE acc, s, b)

Exec(st, s, c) == Execute(st, IF st.op \in {"stop", "yield"} THEN s ELSE Eval(st.e, s, c), c)

\* What a statement does with the value of its expression.
Execute(st, r, c) ==
    LET done == Give(r, Nothing)
    IN  IF r.st # "ok" THEN r ELSE
        CASE st.op = "expr"   -> r
          [] st.op = "let"    -> Bind(done, st.n :> r.v)
          [] st.op = "assign" -> Write(done, st.n, r.v, c)
          [] st.op = "emit"   -> IF r.v.tag = "sum" /\ Owner[r.v.n] \in EventTypes
                                 THEN Logged(done, "emit", r.v.n, r.v.args, c)
                                 ELSE Leave(r, "wrong", Nothing)
          [] st.op = "if"     -> Settled(Block(IF Holds(r.v) THEN st.then ELSE st.else, r, c))
          [] st.op = "for"    -> IF ~ IsList(r.v) THEN Leave(r, "wrong", Nothing)
                                 ELSE Settled(FoldLeft(LAMBDA acc, x : IF acc.st = "ok" THEN Block(st.b, Bind(acc, st.n :> x), c) ELSE acc,
                                                       done, Elements(r.v)))
          [] st.op = "match"  -> Settled(Arms(st.arms, r.v, r, c))
          [] st.op = "return" -> Leave(r, "return", r.v)
          [] st.op = "abort"  -> Leave(r, "abort", r.v)
          [] st.op = "stop"   -> Leave(r, "stop", Nothing)
          [] st.op = "yield"  -> r
=============================================================================
