------------------------------- MODULE Lowering -------------------------------
(***************************************************************************)
(* flavent/lower.py: the resolved program becomes HIR, in which ?, |> and  *)
(* blocks as arms of a match expression are gone. An expression that held  *)
(* one becomes statements to run before it (pre) and what is left of it    *)
(* (e), which reads the temporaries they set; k counts the fresh symbols   *)
(* (_Ctx.next_sym) and bad says that a LowerError was raised. One          *)
(* declaration is lowered a step, in the order lower_resolved has.         *)
(***************************************************************************)
EXTENDS Evaluation

CONSTANT Programs   \* resolved programs: their declarations and pattern aliases

VARIABLES program,  \* the program being compiled
          hir,      \* its declarations lowered so far
          fresh,    \* the next symbol of lower_resolved's context
          stage     \* "lower", then the stages of type checking; "rejected" is final

Lit(ty, k) == [op |-> "lit", ty |-> ty, k |-> k]
Var(x) == [op |-> "var", n |-> x]
CallOf(f, args) == [op |-> "call", n |-> f, a |-> args]
Statement(op, x, e) == [op |-> op, n |-> x, e |-> e]
DoBlock(b) == [op |-> "do", b |-> b]
Arm(p, body) == [pat |-> p, body |-> body]
Match(e, arms) == [op |-> "match", e |-> e, arms |-> arms]
Pattern(form, n, args) == [form |-> form, name |-> n, args |-> args]
Symbol(k) == "$" \o ToString(k)

Lowered(pre, e, k, bad) == [pre |-> pre, e |-> e, k |-> k, bad |-> bad]
At(c, k) == [c EXCEPT !.k = k]

\* Aliases are replaced until the pattern is none; a chain that comes back is refused.
Cyclic == Pattern("cyclic", "", <<>>)
RECURSIVE Expand(_, _, _)
Expand(p, seen, aliases) ==
    IF p.form # "ctor" \/ p.args # <<>> \/ p.name \notin DOMAIN aliases THEN p
    ELSE IF p.name \in seen THEN Cyclic ELSE Expand(aliases[p.name], seen \union {p.name}, aliases)

RECURSIVE LowerPattern(_, _)
LowerPattern(p, aliases) ==
    LET q == Expand(p, {}, aliases)
        args == [k \in DOMAIN q.args |-> LowerPattern(q.args[k], aliases)]
    IN  IF Cyclic \in ToSet(args) THEN Cyclic ELSE [q EXCEPT !.args = args]

RECURSIVE Lower(_, _), LowerAll(_, _), LowerMatch(_, _), LowerTry(_, _), LowerPipe(_, _), LowerBlock(_, _), LowerStmt(_, _),
          LowerParts(_, _, _)

\* Mutant of LowerAll: what a later operand needs is put in front.
LowerAllInFront(es, c) ==
    FoldLeft(LAMBDA acc, e : LET r == Lower(e, At(c, acc.k))
                             IN  Lowered(r.pre \o acc.pre, Append(acc.e, r.e), r.k, acc.bad \/ r.bad),
             Lowered(<<>>, <<>>, c.k, FALSE), es)

\* Operands, left to right: what each needs runs before all of them.
LowerAll(es, c) ==
    FoldLeft(LAMBDA acc, e : LET r == Lower(e, At(c, acc.k))
                             IN  Lowered(acc.pre \o r.pre, Append(acc.e, r.e), r.k, acc.bad \/ r.bad),
             Lowered(<<>>, <<>>, c.k, FALSE), es)

\* The type the function returns, or the handler, decides what ? turns into.
LowerTry(e, c) ==
    LET r == Lower(e.a[1], c)
        tmp == Symbol(r.k)    res == Symbol(r.k + 1)    v == Symbol(r.k + 2)    x == Symbol(r.k + 3)
        option == c.mode = "option"
        good == Arm(Pattern("ctor", IF option THEN "Some" ELSE "Ok", <<Pattern("var", v, <<>>)>>),
                    DoBlock(<<Statement("assign", res, Var(v))>>))
        leave == CASE c.mode = "result" -> Statement("return", "", CallOf("Err", <<Var(x)>>))
                   [] c.mode = "option" -> Statement("return", "", CallOf("None", <<>>))
                   [] OTHER -> Statement("abort", "", Var(x))
        fail == Arm(IF option THEN Pattern("ctor", "None", <<>>) ELSE Pattern("ctor", "Err", <<Pattern("var", x, <<>>)>>),
                    DoBlock(<<leave>>))
    IN  Lowered(r.pre \o <<Statement("let", tmp, r.e), Statement("let", res, [op |-> "undef"]),
                           Match(Var(tmp), <<good, fail>>)>>,
                Var(res), r.k + (IF option THEN 3 ELSE 4), r.bad \/ c.mode = "forbid")

\* A stage becomes a call with the value so far as first argument. Nothing in a
\* pipeline may need statements of its own.
LowerPipe(e, c) ==
    LET head == Lower(e.a[1], c) IN
    FoldLeft(LAMBDA acc, call : LET r == LowerAll(call.a, At(c, acc.k))
                                 IN  Lowered(<<>>, CallOf(call.n, <<acc.e>> \o r.e), r.k, acc.bad \/ r.bad \/ r.pre # <<>>),
             Lowered(<<>>, head.e, head.k, head.bad \/ head.pre # <<>>), Tail(e.a))

\* The arms lowered as expressions, up to the first that needs statements.
ArmsAsExprs(arms, c) ==
    FoldLeft(LAMBDA acc, arm :
                 IF acc.pre # <<>> THEN acc
                 ELSE LET r == Lower(arm.body, At(c, acc.k))
                          p == LowerPattern(arm.pat, c.aliases)
                      IN  Lowered(r.pre, Append(acc.e, Arm(p, r.e)), r.k, acc.bad \/ r.bad \/ p = Cyclic),
             Lowered(<<>>, <<>>, c.k, FALSE), arms)

\* The body of an arm as a block that leaves its value in res.
ArmAsBlock(arm, res, c) ==
    LET gives(b) == IF b # <<>> /\ Last(b).op = "expr" THEN Append(Front(b), Statement("assign", res, Last(b).e)) ELSE b
        as(p, b, r) == Lowered(<<>>, Arm(p, DoBlock(b)), r.k, r.bad \/ p = Cyclic)
        block(p, r) == as(p, gives(r.e), r)
        expr(p, r) == as(p, Append(r.pre, Statement("assign", res, r.e)), r)
    IN  IF arm.body.op = "do" THEN block(LowerPattern(arm.pat, c.aliases), LowerBlock(arm.body.b, c))
        ELSE expr(LowerPattern(arm.pat, c.aliases), Lower(arm.body, c))

\* A match statement that leaves its value in a temporary.
MatchAsStmt(arms, scrut, k, bad, c) ==
    LET tmp == Symbol(k)
        res == Symbol(k + 1)
        blocks == FoldLeft(LAMBDA acc, arm : LET r == ArmAsBlock(arm, res, At(c, acc.k))
                                             IN  Lowered(<<>>, Append(acc.e, r.e), r.k, acc.bad \/ r.bad),
                           Lowered(<<>>, <<>>, k + 2, bad), arms)
    IN  Lowered(scrut.pre \o <<Statement("let", tmp, scrut.e), Statement("let", res, [op |-> "undef"]),
                               Match(Var(tmp), blocks.e)>>, Var(res), blocks.k, scrut.bad \/ blocks.bad)

\* A match whose arms are plain expressions stays one.
LowerMatch(e, c) ==
    LET scrut == Lower(e.a[1], c)
        anyBlock == \E k \in DOMAIN e.arms : e.arms[k].body.op = "do"
        asExpr(tried) == Lowered(scrut.pre, [e EXCEPT !.a = <<scrut.e>>, !.arms = tried.e], tried.k, scrut.bad \/ tried.bad)
        decide(tried) == IF tried.pre = <<>> THEN asExpr(tried) ELSE MatchAsStmt(e.arms, scrut, tried.k, tried.bad, c)
    IN  IF anyBlock THEN MatchAsStmt(e.arms, scrut, scrut.k, FALSE, c) ELSE decide(ArmsAsExprs(e.arms, At(c, scrut.k)))

\* proceed outside a mixin and a do block outside an arm are refused.
Lower(e, c) ==
    CASE e.op = "try"   -> LowerTry(e, c)
      [] e.op = "pipe"  -> LowerPipe(e, c)
      [] e.op = "match" -> LowerMatch(e, c)
      [] e.op \in {"do", "proceed"} -> Lowered(<<>>, e, c.k, TRUE)
      [] e.op \in {"lit", "var"} -> Lowered(<<>>, e, c.k, FALSE)
      [] OTHER -> LET r == LowerAll(e.a, c) IN [r EXCEPT !.e = [e EXCEPT !.a = r.e]]

LowerBlock(b, c) ==
    FoldLeft(LAMBDA acc, st : LET r == LowerStmt(st, At(c, acc.k)) IN Lowered(<<>>, acc.e \o r.e, r.k, acc.bad \/ r.bad),
             Lowered(<<>>, <<>>, c.k, FALSE), b)

LowerStmt(st, c) ==
    LowerParts(st, IF st.op \in {"stop", "yield"} THEN Lowered(<<>>, <<>>, c.k, FALSE) ELSE Lower(st.e, c), c)

\* The blocks of a statement, whose expression became r.
LowerParts(st, r, c) ==
    CASE st.op \in {"stop", "yield"} -> [r EXCEPT !.e = <<st>>]
      [] st.op = "if"  -> LET then == LowerBlock(st.then, At(c, r.k))
                              else == LowerBlock(st.else, At(c, then.k))
                          IN  Lowered(<<>>, Append(r.pre, [st EXCEPT !.e = r.e, !.then = then.e, !.else = else.e]),
                                      else.k, r.bad \/ then.bad \/ else.bad)
      [] st.op = "for" -> LET body == LowerBlock(st.b, At(c, r.k))
                          IN  Lowered(<<>>, Append(r.pre, [st EXCEPT !.e = r.e, !.b = body.e]), body.k, r.bad \/ body.bad)
      [] OTHER -> Lowered(<<>>, Append(r.pre, [st EXCEPT !.e = r.e]), r.k, r.bad)

\* _lower_value_decl, _lower_handler and _lower_fn. Functions move the counter on;
\* handlers count in a context of their own, which is dropped.
LowerItem(d, c) ==
    LET last(r) == Statement(IF d.kind = "on" THEN "expr" ELSE "return", "", r.e)
        variable(r) == [d |-> [d EXCEPT !.e = r.e], k |-> c.k, bad |-> r.bad \/ r.pre # <<>>]
        code(r) == [d |-> [d EXCEPT !.form = "do", !.b = IF d.form = "do" THEN r.e ELSE Append(r.pre, last(r)),
                                    !.sector = IF d.kind = "on" /\ d.top THEN "main" ELSE @],
                    k |-> IF d.kind = "fn" THEN r.k ELSE c.k, bad |-> r.bad]
    IN  IF d.kind = "let" THEN variable(Lower(d.e, c))
        ELSE code(IF d.form = "do" THEN LowerBlock(d.b, c) ELSE Lower(d.e, c))

ModeOf(d) == IF d.kind = "let" THEN "forbid" ELSE TryMode(d)

\* Values of the top level, then what is in sectors, then the handlers and the
\* functions of the top level.
Rank(d) == CASE d.top /\ d.kind = "let" -> 1
             [] ~ d.top -> 2
             [] d.top /\ d.kind = "on" -> 3
             [] d.top /\ d.kind = "fn" -> 4
InOrder(ds) == FlattenSeq([r \in 1..4 |-> SelectSeq(ds, LAMBDA d : Rank(d) = r)])

InitLowering ==
    /\ program \in Programs
    /\ hir = <<>>
    /\ fresh = 1
    /\ stage = "lower"

LowerDecl ==
    /\ stage = "lower"
    /\ Len(hir) < Len(program.decls)
    /\ LET d == InOrder(program.decls)[Len(hir) + 1]
           Take(r) == /\ hir' = Append(hir, r.d)
                      /\ fresh' = r.k
                      /\ stage' = IF r.bad THEN "rejected"
                                  ELSE IF Len(hir) + 1 = Len(program.decls) THEN "policy" ELSE stage
       IN  Take(LowerItem(d, [mode |-> ModeOf(d), aliases |-> program.aliases, k |-> fresh]))
    /\ UNCHANGED program
=============================================================================
