------------------------------- MODULE Parser -------------------------------
(***************************************************************************)
(* flavent/parser.py: parse_program, one step for each token or item its   *)
(* loop takes. The recursive descent below an item is a family of          *)
(* operators that take a position and return a result [n, i]: the tree and *)
(* the position behind it. Position 0 stands for a raised ParseError: no   *)
(* token is there, so every operator hands it on.                          *)
(*                                                                         *)
(* A token is its text. A tree is a tuple that begins with its node type;  *)
(* spans are left out.                                                     *)
(***************************************************************************)
EXTENDS Grammar, TLC

CONSTANTS
    Programs,   \* programs that are written and read back
    Inputs,     \* further token sequences
    Idents      \* the tokens _parse_ident accepts

VARIABLES
    prog,       \* the program toks was written from, or <<>>
    toks,       \* _Cursor.tokens without EOF
    i,          \* _Cursor.i
    items,      \* the items parsed so far
    at          \* "parsing", "done" or "error"

vars == <<prog, toks, i, items, at>>

Tok(j) == CASE j = 0 -> "error" [] j \in DOMAIN toks -> toks[j] [] OTHER -> "EOF"

Node(n, j) == [n |-> n, i |-> j]
Bad == Node(<<"bad">>, 0)

\* fault: any token is taken where one is expected.
ExpectAny(k, j) == IF Tok(j) \in {"error", "EOF"} THEN 0 ELSE j + 1

Expect(k, j) == IF Tok(j) = k THEN j + 1 ELSE 0

Ints == {"0", "1"}
Strs == {"s", "t"}
Literals == Ints \union Strs \union {"true"}

Ident(j) == IF Tok(j) \in Idents THEN Node(Tok(j), j + 1) ELSE Bad

\* The tokens of the kind IDENT: _parse_ident takes these four keywords too.
IdentTokens == Idents \ {"Ok", "Err", "Some", "None"}

RECURSIVE Path(_), Item(_, _), ListOf(_, _, _), Items(_, _), Expr(_), Binary(_, _), Unary(_),
          Postfix(_), Stages(_), Climb(_, _), TypeRef(_), LValue(_, _), Pattern(_)

\* _parse_qualified_name, as the sequence of its parts.
Path(j) ==
    LET first == Ident(j)
        rest == Path(first.i + 1)
    IN  IF first.i = 0 THEN Bad
        ELSE IF Tok(first.i) # "." THEN Node(<<first.n>>, first.i)
        ELSE IF rest.i = 0 THEN Bad ELSE Node(<<first.n>> \o rest.n, rest.i)

\* The lists that may end in a comma.
Trailing(kind) == kind \in {"expr", "arg", "recitem", "field", "attr", "option"}

\* Items of a kind up to the closing token, with commas between them.
ListOf(kind, j, close) ==
    LET e == Item(kind, j)
        more == Tok(e.i) = "," /\ ~ (Trailing(kind) /\ Tok(e.i + 1) = close)
        rest == ListOf(kind, e.i + 1, close)
    IN  CASE e.i = 0 -> Bad
          [] e.i # 0 /\ more -> IF rest.i = 0 THEN Bad ELSE Node(<<e.n>> \o rest.n, rest.i)
          [] OTHER -> Node(<<e.n>>, Expect(close, IF Tok(e.i) = "," THEN e.i + 1 ELSE e.i))

\* The same, possibly empty.
List(kind, j, close) == IF Tok(j) = close THEN Node(<<>>, j + 1) ELSE ListOf(kind, j, close)

\* An optional list in brackets: <<>> when it is absent.
Optional(kind, j) == IF Tok(j) = "[" THEN ListOf(kind, j + 1, "]") ELSE Node(<<>>, j)

\* The lines of an indented body up to its DEDENT; NL between them is skipped.
Items(kind, j) ==
    LET e == Item(kind, j)
        rest == Items(kind, e.i)
    IN  CASE Tok(j) \in {"DEDENT", "EOF"} -> Node(<<>>, Expect("DEDENT", j))
          [] Tok(j) = "NL" -> Items(kind, j + 1)
          [] OTHER -> IF e.i = 0 \/ rest.i = 0 THEN Bad ELSE Node(<<e.n>> \o rest.n, rest.i)

\* ":" NL INDENT items DEDENT (_parse_block_after_colon and its likes).
Body(kind, j) == Items(kind, Expect("INDENT", Expect("NL", Expect(":", j))))

-----------------------------------------------------------------------------
(* Types and declarations.                                                 *)

TypeRef(j) ==
    LET inner == Item("type", j + 1)
        name == Item("path", j)
        args == Optional("type", name.i)
    IN  IF Tok(j) = "(" THEN Node(<<"paren", inner.n>>, Expect(")", inner.i))
        ELSE Node(<<"name", name.n, args.n>>, args.i)

Variant(j) ==
    LET name == Ident(j)
        payload == List("type", name.i + 1, ")")
    IN  IF Tok(name.i) = "(" THEN Node(<<name.n, payload.n>>, payload.i) ELSE Node(<<name.n, <<>>>>, name.i)

\* _parse_sum_or_alias: variants separated by bars, or else (whatever went
\* wrong with the variants) a type.
SumOrAlias(j) ==
    LET Bars[k \in Nat] ==
            LET v == Item("variant", k)
                rest == Bars[v.i + 1]
            IN  IF v.i = 0 THEN Bad
                ELSE IF Tok(v.i) # "|" THEN Node(<<v.n>>, v.i)
                ELSE IF rest.i = 0 THEN Bad ELSE Node(<<v.n>> \o rest.n, rest.i)
        sum == Bars[j]
    IN  IF sum.i # 0 /\ Len(sum.n) > 1 THEN Node(<<"sum", sum.n>>, sum.i)
        ELSE Node(<<"alias", Item("type", j).n>>, Item("type", j).i)

TypeDecl(j) ==
    LET name == Item("path", j + 1)
        params == Optional("ident", name.i)
        k == Expect("=", params.i)
        rhs == IF Tok(k) = "{" THEN List("field", k + 1, "}") ELSE SumOrAlias(k)
    IN  Node(<<"type", name.n, params.n, IF Tok(k) = "{" THEN <<"record", rhs.n>> ELSE rhs.n>>, rhs.i)

\* const, let and need declarations, and the let statement.
Binding(kind, j) ==
    LET name == Ident(j)
        value == Item("expr", Expect("=", name.i))
    IN  Node(<<kind, name.n, value.n>>, value.i)

\* name sep item, the shape of parameters, fields and record items.
Pair(sep, kind, j) ==
    LET name == Ident(j)
        v == Item(kind, Expect(sep, name.i))
    IN  Node(<<name.n, v.n>>, v.i)

Param(j) ==
    LET p == Pair(":", "type", IF Tok(j) \in {"*", "**"} THEN j + 1 ELSE j)
    IN  Node(<<IF Tok(j) \in {"*", "**"} THEN Tok(j) ELSE "normal">> \o p.n, p.i)

\* name(params) [-> type]
Signature(j) ==
    LET params == List("param", Expect("(", j), ")")
        ret == Item("type", params.i + 1)
    IN  IF Tok(params.i) = "->" THEN Node(<<params.n, <<ret.n>>>>, ret.i) ELSE Node(<<params.n, <<>>>>, params.i)

\* _parse_fn_body, and the body of a handler or of a match arm.
DoOrExpr(j) ==
    LET body == IF Tok(j) = "do" THEN Body("stmt", j + 1) ELSE Item("expr", j)
    IN  Node(<<IF Tok(j) = "do" THEN "do" ELSE "expr", body.n>>, body.i)

FnDecl(j) ==
    LET q == IF Tok(j + 1) = "@" THEN Ident(j + 2) ELSE Node("", j + 1)
        name == Ident(q.i)
        params == Optional("ident", name.i)
        sig == Item("signature", params.i)
        body == Item("body", Expect("=", sig.i))
    IN  Node(<<"fn", q.n, name.n, params.n, sig.n, body.n>>, body.i)

EventPattern(j) ==
    LET name == Item("path", j)
        args == List("expr", name.i + 1, ")")
    IN  IF Tok(name.i) = "(" THEN Node(<<"event", name.n, args.n>>, args.i) ELSE Node(<<"event", name.n>>, name.i)

OnHandler(j) ==
    LET event == Item("event", j + 1)
        binder == IF Tok(event.i) = "as" THEN Ident(event.i + 1) ELSE Node("", event.i)
        when == IF Tok(binder.i) = "when" THEN Item("expr", binder.i + 1) ELSE Node(<<>>, binder.i)
        body == Item("body", Expect("->", when.i))
    IN  Node(<<"on", event.n, binder.n, when.n, body.n>>, body.i)

SectorDecl(j) ==
    LET name == Ident(j + 1)
        body == Body("sector item", name.i)
    IN  Node(<<"sector", name.n, body.n>>, body.i)

\* name v1: a mixin and its version.
Version(j) ==
    LET name == Item("path", j)
    IN  Node(<<name.n, Tok(name.i)>>, IF Tok(name.i) \in {"v1", "v2"} THEN name.i + 1 ELSE 0)

MixinDecl(j) ==
    LET mixin == Item("version", j + 1)
        k == Expect("into", mixin.i)
        target == IF Tok(k) = "sector" THEN Ident(k + 1) ELSE Item("path", IF Tok(k) = "type" THEN k + 1 ELSE k)
        body == Body("mixin item", target.i)
    IN  Node(<<"mixin", mixin.n, IF Tok(k) = "sector" THEN "sector" ELSE "type", target.n, body.n>>, body.i)

\* A dict filled in this order: a key keeps its first place and its last value.
Dict(entries) ==
    FlattenSeq([n \in DOMAIN entries |->
        LET same == {m \in DOMAIN entries : entries[m][1] = entries[n][1]}
        IN  IF n = Min(same) THEN <<entries[Max(same)]>> ELSE <<>>])

\* _parse_hook_with_options
HookOptions(j) ==
    LET o == List("option", Expect("(", j + 1), ")")
    IN  IF Tok(j) = "with" THEN Node(IF o.i = 0 THEN <<>> ELSE Dict(o.n), o.i) ELSE Node(<<>>, j)

\* A value of one token, a negative number, or 0 minus a number.
HookOption(j) ==
    LET k == IF Tok(j) = "const" THEN j + 1 ELSE Ident(j).i
        v == Expect("=", k)
        last == CASE Tok(v) = "-" -> v + 1
                  [] Tok(v) = "0" /\ Tok(v + 1) = "-" /\ Tok(v + 2) \in Ints -> v + 2
                  [] OTHER -> v
        value == IF last = v THEN IdentTokens \union Literals ELSE Ints
    IN  IF Tok(last) \in value THEN Node(<<Tok(j)>> \o SubSeq(toks, v, last), last + 1) ELSE Bad

\* fn (which adds a function), around fn and hook <point> fn.
MixinFn(j, k) ==
    LET name == Ident(Expect("fn", k))
        sig == Item("signature", name.i)
        opts == IF Tok(j) = "hook" THEN HookOptions(sig.i) ELSE Node(<<>>, sig.i)
        body == IF Tok(j) = "around" THEN Body("stmt", opts.i) ELSE Item("body", Expect("=", opts.i))
    IN  Node(<<"member fn", Tok(j), IF Tok(j) = "hook" THEN Tok(j + 1) ELSE "", name.n, sig.n, opts.n, body.n>>, body.i)

MixinItem(j) ==
    LET field == Pair(":", "type", j)
    IN  CASE Tok(j) = "pattern" -> Item("item", j)
          [] Tok(j) = "fn"      -> MixinFn(j, j)
          [] Tok(j) = "around"  -> MixinFn(j, j + 1)
          [] Tok(j) = "hook"    -> IF Tok(j + 1) \in {"head", "tail", "invoke"} THEN MixinFn(j, j + 2) ELSE Bad
          [] OTHER              -> IF Tok(j) \in IdentTokens THEN Node(<<"add", field.n>>, field.i) ELSE Bad

PreferRule(j) ==
    LET prefer == Item("version", Expect("prefer", j))
        over == Item("version", Expect("over", prefer.i))
    IN  Node(<<prefer.n, over.n>>, over.i)

\* use and use mixin
Use(j) ==
    LET name == IF Tok(j + 1) = "mixin" THEN Item("version", j + 2) ELSE Item("path", j + 1)
    IN  Node(<<IF Tok(j + 1) = "mixin" THEN "use mixin" ELSE "use", name.n>>, name.i)

\* _parse_need_decl keeps the last string of cache and of cacheFail, and no
\* attribute of another name.
LastValue(attrs, key) ==
    LET same == {n \in DOMAIN attrs : attrs[n][1] = key} IN IF same = {} THEN "" ELSE attrs[Max(same)][2]

NeedAttr(j) ==
    LET attrs == List("attr", j + 1, ")")
    IN  IF Tok(j) # "(" THEN Node(<<>>, j)
        ELSE IF attrs.i = 0 THEN Bad
        ELSE Node(<<LastValue(attrs.n, "cache"), LastValue(attrs.n, "cacheFail")>>, attrs.i)

TopItem(j) ==
    LET need == NeedAttr(j + 1)
        binding == Binding(Tok(j), IF Tok(j) = "need" THEN need.i ELSE j + 1)
        name == Item("path", j + 1)
        pat == Item("pattern", Expect("=", name.i))
        rules == Body("rule", Expect("conflict", Expect("-", Expect("mixin", j + 1))))
    IN  CASE Tok(j) = "type"                     -> TypeDecl(j)
          [] Tok(j) \in {"const", "let"}         -> binding
          [] Tok(j) = "need"                     -> Node(binding.n \o <<need.n>>, binding.i)
          [] Tok(j) = "fn"                       -> FnDecl(j)
          [] Tok(j) = "pattern"                  -> Node(<<"pattern", name.n, pat.n>>, pat.i)
          [] Tok(j) = "mixin"                    -> MixinDecl(j)
          [] Tok(j) = "use"                      -> Use(j)
          [] Tok(j) = "resolve"                  -> Node(<<"resolve", rules.n>>, rules.i)
          [] Tok(j) = "sector"                   -> SectorDecl(j)
          [] Tok(j) = "on"                       -> OnHandler(j)
          [] OTHER                               -> Bad

-----------------------------------------------------------------------------
(* Expressions.                                                            *)

\* fault: "and" binds as weakly as "or".
FlatPrecedence(op) ==
    CASE op \in {"or", "and"} -> 10 [] op \in {"==", "<"} -> 30 [] op \in {"+", "-"} -> 40 [] op \in {"*", "/"} -> 50
      [] OTHER -> -1

\* _PRECEDENCE; -1 when the token is no binary operator.
Precedence(op) ==
    CASE op = "or" -> 10 [] op = "and" -> 20 [] op \in {"==", "<"} -> 30 [] op \in {"+", "-"} -> 40
      [] op \in {"*", "/"} -> 50 [] OTHER -> -1

Expr(j) ==
    LET head == Binary(j, 0)
        stages == Stages(head.i)
    IN  IF Tok(head.i) = "|>" THEN Node(<<"pipe", head.n, stages.n>>, stages.i) ELSE head

Stages(j) ==
    LET e == Binary(j + 1, 0)
        rest == Stages(e.i)
    IN  IF Tok(j) # "|>" THEN Node(<<>>, j) ELSE Node(<<e.n>> \o rest.n, rest.i)

Binary(j, min) == Climb(Unary(j), min)

Climb(left, min) ==
    LET op == Tok(left.i)
        right == Binary(left.i + 1, Precedence(op) + 1)
    IN  IF Precedence(op) = -1 \/ Precedence(op) < min THEN left
        ELSE Climb(Node(<<"bin", op, left.n, right.n>>, right.i), min)

Unary(j) ==
    LET e == Unary(j + 1)
    IN  IF Tok(j) \in {"-", "not"} THEN Node(<<"un", Tok(j), e.n>>, e.i)
        ELSE Postfix(Item("primary", j))

Postfix(e) ==
    LET args == List("arg", e.i + 1, ")")
        field == Ident(e.i + 1)
        index == Item("expr", e.i + 1)
    IN  CASE Tok(e.i) = "(" -> Postfix(Node(<<"call", e.n, args.n>>, args.i))
          [] Tok(e.i) = "." -> Postfix(Node(<<"member", e.n, field.n>>, field.i))
          [] Tok(e.i) = "[" -> Postfix(Node(<<"index", e.n, index.n>>, Expect("]", index.i)))
          [] Tok(e.i) = "?" -> Postfix(Node(<<"try", e.n>>, e.i + 1))
          [] OTHER          -> e

CallArg(j) ==
    LET kw == Tok(j) \in Idents /\ Tok(j + 1) = "="
        v == Item("expr", IF Tok(j) \in {"*", "**"} THEN j + 1 ELSE IF kw THEN j + 2 ELSE j)
    IN  Node(<<IF Tok(j) \in {"*", "**"} THEN Tok(j) ELSE IF kw THEN "kw" ELSE "pos",
               IF kw THEN Tok(j) ELSE "", v.n>>, v.i)

\* "(": the unit, a tuple or an expression in parentheses.
Parens(j) ==
    LET first == Item("expr", j + 1)
        rest == List("expr", first.i + 1, ")")
    IN  CASE Tok(j + 1) = ")"   -> Node(<<"tuple", <<>>>>, j + 2)
          [] Tok(j + 1) # ")" /\ Tok(first.i) = "," -> Node(<<"tuple", <<first.n>> \o rest.n>>, rest.i)
          [] OTHER              -> Node(first.n, Expect(")", first.i))

\* rpc S.f(args) and call S.f(args)
SectorCall(j) ==
    LET s == Ident(j + 1)
        f == Ident(Expect(".", s.i))
        args == List("expr", Expect("(", f.i), ")")
    IN  Node(<<IF Tok(j) = "rpc" THEN "rpc" ELSE "call sector", s.n, f.n, args.n>>, args.i)

Match(j) ==
    LET e == Item("expr", j + 1)
        arms == Body("arm", e.i)
    IN  Node(<<"match", e.n, arms.n>>, arms.i)

Arm(j) ==
    LET pat == Item("pattern", j)
        body == Item("body", Expect("->", pat.i))
    IN  Node(<<pat.n, body.n>>, body.i)

Primary(j) ==
    LET record == List("recitem", j + 1, "}")
        event == Item("path", j + 1)
        args == List("expr", Expect("(", j + 1), ")")
    IN  CASE Tok(j) \in Literals         -> Node(<<"lit", Tok(j)>>, j + 1)
          [] Tok(j) \in Idents             -> Node(<<"var", Tok(j)>>, j + 1)
          [] Tok(j) = "{"                 -> Node(<<"record", record.n>>, record.i)
          [] Tok(j) = "("                 -> Parens(j)
          [] Tok(j) = "match"             -> Match(j)
          [] Tok(j) = "await"             -> Node(<<"await", event.n>>, event.i)
          [] Tok(j) \in {"rpc", "call"}   -> SectorCall(j)
          [] Tok(j) = "proceed"           -> Node(<<"proceed", args.n>>, args.i)
          [] OTHER                        -> Bad

\* A single name is a constructor if it begins with a capital.
Capital(name) == name \in {"U", "Some"}

Pattern(j) ==
    LET name == Item("path", j)
        args == List("pattern", name.i + 1, ")")
    IN  CASE Tok(j) = "_"    -> Node(<<"wild">>, j + 1)
          [] Tok(j) = "true" -> Node(<<"bool">>, j + 1)
          [] OTHER           -> IF Tok(name.i) = "(" THEN Node(<<"ctor", name.n, args.n>>, args.i)
                                ELSE IF name.i # 0 /\ Len(name.n) = 1 /\ ~ Capital(name.n[1])
                                THEN Node(<<"bind", name.n[1]>>, name.i)
                                ELSE Node(<<"ctor", name.n>>, name.i)

-----------------------------------------------------------------------------
(* Statements.                                                             *)

\* _try_parse_lvalue: each suffix starts again from the base name.
LValue(base, lv) ==
    LET field == Ident(lv.i + 1)
        index == Item("expr", lv.i + 1)
    IN  CASE Tok(lv.i) = "." -> LValue(base, Node(<<"member", base, field.n>>, field.i))
          [] Tok(lv.i) = "[" -> LValue(base, Node(<<"index", base, index.n>>, Expect("]", index.i)))
          [] OTHER           -> lv

If(j) ==
    LET cond == Item("expr", j + 1)
        then == Body("stmt", cond.i)
        else == Body("stmt", then.i + 1)
    IN  IF Tok(then.i) = "else" THEN Node(<<"if", cond.n, then.n, else.n>>, else.i)
        ELSE Node(<<"if", cond.n, then.n>>, then.i)

For(j) ==
    LET binder == Ident(j + 1)
        it == Item("expr", Expect("in", binder.i))
        body == Body("stmt", it.i)
    IN  Node(<<"for", binder.n, it.n, body.n>>, body.i)

AssignOrExpr(j) ==
    LET lv == LValue(<<"var", Tok(j)>>, Node(<<"var", Tok(j)>>, j + 1))
        value == Item("expr", lv.i + 1)
    IN  IF Tok(j) \in Idents /\ Tok(lv.i) \in {"=", "+="}
        THEN Node(<<"assign", lv.n, Tok(lv.i), value.n>>, value.i)
        ELSE Node(<<"expr", Item("expr", j).n>>, Item("expr", j).i)

Stmt(j) ==
    LET e == Item("expr", j + 1)
    IN  CASE Tok(j) = "let"                  -> Binding("let", j + 1)
          [] Tok(j) \in {"emit", "return"}   -> Node(<<Tok(j), e.n>>, e.i)
          [] Tok(j) \in {"stop", "yield"}    -> Node(<<Tok(j)>>, Expect(")", Expect("(", j + 1)))
          [] Tok(j) = "if"                   -> If(j)
          [] Tok(j) = "for"                  -> For(j)
          [] OTHER                           -> AssignOrExpr(j)

\* What occurs in several places, the items of lists and of bodies among them.
Item(kind, j) ==
    IF j = 0 THEN Bad
    ELSE CASE kind = "path" -> Path(j) [] kind = "variant" -> Variant(j) [] kind = "signature" -> Signature(j)
           [] kind = "body" -> DoOrExpr(j) [] kind = "event" -> EventPattern(j) [] kind = "version" -> Version(j)
           [] kind = "type" -> TypeRef(j) [] kind = "ident" -> Ident(j) [] kind = "param" -> Param(j)
           [] kind = "field" -> Pair(":", "type", j) [] kind = "recitem" -> Pair("=", "expr", j)
           [] kind = "attr" -> Pair("=", "str", j) [] kind = "expr" -> Expr(j) [] kind = "arg" -> CallArg(j)
           [] kind = "pattern" -> Pattern(j) [] kind = "arm" -> Arm(j) [] kind = "stmt" -> Stmt(j)
           [] kind = "rule" -> PreferRule(j) [] kind = "option" -> HookOption(j) [] kind = "primary" -> Primary(j)
           [] kind = "mixin item" -> MixinItem(j) [] kind = "item" -> TopItem(j)
           [] kind = "str" -> IF Tok(j) \in Strs THEN Node(Tok(j), j + 1) ELSE Bad
           [] kind = "sector item" -> IF Tok(j) \in {"let", "need", "fn", "on"} THEN Item("item", j) ELSE Bad

-----------------------------------------------------------------------------
(* parse_program                                                           *)

Init ==
    /\ \/ prog \in Programs /\ toks = FlattenSeq([n \in DOMAIN prog |-> WriteItem(prog[n])])
       \/ prog = <<>> /\ toks \in Inputs
    /\ i = 1 /\ items = <<>> /\ at = "parsing"

Separator ==
    /\ at = "parsing" /\ Tok(i) \in {"NL", "DEDENT"}
    /\ i' = i + 1
    /\ UNCHANGED <<prog, toks, items, at>>

ParseItem ==
    /\ at = "parsing" /\ Tok(i) \notin {"NL", "DEDENT", "EOF", "run"}
    /\ LET e == Item("item", i)
       IN  IF e.i = 0 THEN at' = "error" /\ UNCHANGED <<i, items>>
           ELSE i' = e.i /\ items' = Append(items, e.n) /\ UNCHANGED at
    /\ UNCHANGED <<prog, toks>>

\* run() must be the last item.
ParseRun ==
    /\ at = "parsing" /\ Tok(i) = "run"
    /\ LET e == Expect(")", Expect("(", i + 1))
           rest == IF e = 0 THEN <<"bad">> ELSE SubSeq(toks, e, Len(toks))
       IN  IF Range(rest) \subseteq {"NL"}
           THEN i' = Len(toks) + 1 /\ items' = Append(items, <<"run">>) /\ at' = "done"
           ELSE at' = "error" /\ UNCHANGED <<i, items>>
    /\ UNCHANGED <<prog, toks>>

End ==
    /\ at = "parsing" /\ Tok(i) = "EOF"
    /\ at' = "done"
    /\ UNCHANGED <<prog, toks, i, items>>

Next == Separator \/ ParseItem \/ ParseRun \/ End

Spec == Init /\ [][Next]_vars

-----------------------------------------------------------------------------
(* What the parser must do.                                                *)

\* A program that is written down as the grammar asks is read back as it was.
RoundTrip ==
    prog # <<>> => at # "error" /\ (at = "done" => items = prog)

-----------------------------------------------------------------------------
(* What the parser makes of the places where it keeps less than is written. *)

\* The list of need attributes or of hook options in the parentheses at p: the
\* places where its entries begin, and the tokens of an entry.
NeedLists == {p \in 2..Len(toks) : toks[p] = "(" /\ toks[p - 1] = "need"}
OptionLists == {p \in 3..Len(toks) : /\ toks[p] = "(" /\ toks[p - 1] = "with"
                                     /\ toks[p - 2] \in Idents \union {")", "]"}}
Close(p) == Min({q \in p..Len(toks) : toks[q] = ")"})
Entries(p) == {q \in p + 1..Close(p) - 1 : toks[q - 1] \in {"(", ","}}
Entry(q) == SubSeq(toks, q, Min({r \in q..Len(toks) : Tok(r + 1) \in {",", ")"}}))

\* A need has two attributes, a hook has those it names; the last entry of a
\* name counts.
KeysOf(p) ==
    IF p \in NeedLists THEN <<"cache", "cacheFail">>
    ELSE LET firsts == {q \in Entries(p) : \A r \in Entries(p) : toks[r] = toks[q] => q <= r}
             order == SetToSortSeq(firsts, <)
         IN  [n \in DOMAIN order |-> toks[order[n]]]

WhatCounts(p) ==
    LET named(key) == {q \in Entries(p) : toks[q] = key}
        keys == KeysOf(p)
    IN  FlattenSeq([n \in DOMAIN keys |-> IF named(keys[n]) = {} THEN <<>> ELSE Entry(Max(named(keys[n])))])

\* The target of an assignment: of several suffixes only the last counts.
BracketEnd(p) ==
    LET count(t, q) == Cardinality({r \in p..q : toks[r] = t})
    IN  Min({q \in p..Len(toks) : count("[", q) = count("]", q)})

RECURSIVE TargetSuffixes(_)
TargetSuffixes(p) ==
    IF Tok(p) = "." THEN <<p..p + 1>> \o TargetSuffixes(p + 2)
    ELSE IF Tok(p) = "[" THEN <<p..BracketEnd(p)>> \o TargetSuffixes(BracketEnd(p) + 1)
    ELSE <<>>

LostSuffixes(p) ==
    LET ss == TargetSuffixes(p + 1)
    IN  IF Len(ss) > 1 /\ Tok(Max(Last(ss)) + 1) \in {"=", "+="} THEN UNION Range(Front(ss)) ELSE {}
Beginnings == {p \in 2..Len(toks) : toks[p] \in Idents /\ toks[p - 1] \in {"NL", "INDENT", "DEDENT"}}

\* The tokens as the parser takes them; `type` says nothing in `into type T`,
\* nor does an empty `with()`.
Taken ==
    LET lists == NeedLists \union OptionLists
        inside == UNION {p + 1..Close(p) - 1 : p \in lists}
        lost == UNION {LostSuffixes(p) : p \in Beginnings}
    IN  FlattenSeq([p \in DOMAIN toks |->
            CASE p \in lists -> WhatCounts(p)
              [] p \in inside \union lost -> <<>>
              [] toks[p] = "type" /\ Tok(p - 1) = "into" -> <<>>
              [] p + 1 \in OptionLists /\ Entries(p + 1) = {} -> <<>>
              [] OTHER -> <<toks[p]>>])

\* Parentheses, commas and line ends group and separate; the other tokens are
\* the program itself.
Words(ts) == SelectSeq(ts, LAMBDA t : t \notin {"(", ")", ",", "NL"})

\* Whatever is accepted, no other token is dropped, invented or moved: what was
\* read, written down again, has the same words in the same order.
NothingIgnored ==
    at = "done" => Words(FlattenSeq([n \in DOMAIN items |-> WriteItem(items[n])])) = Words(Taken)
=============================================================================
