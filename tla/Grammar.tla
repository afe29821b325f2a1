------------------------------ MODULE Grammar ------------------------------
(***************************************************************************)
(* How a program is written: the grammar of docs/grammar_ebnf.md read from *)
(* the tree to the tokens, with parentheses only where its table of        *)
(* precedences asks for them. A node is a tuple that begins with its type. *)
(***************************************************************************)
EXTENDS Integers, SequencesExt

\* The parts with commas between them.
Commas(parts) ==
    FlattenSeq([n \in DOMAIN parts |-> IF n = 1 THEN parts[n] ELSE <<",">> \o parts[n]])

Dotted(path) == FlattenSeq([n \in DOMAIN path |-> IF n = 1 THEN <<path[n]>> ELSE <<".", path[n]>>])

Indented(lines) ==
    <<":", "NL", "INDENT">> \o FlattenSeq(lines) \o <<"DEDENT">>

\* A line ends in NL unless it ends with a block.
Line(ts) == IF ts # <<>> /\ Last(ts) = "DEDENT" THEN ts ELSE Append(ts, "NL")

InBrackets(parts) == IF parts = <<>> THEN <<>> ELSE <<"[">> \o Commas(parts) \o <<"]">>

\* How tightly a form binds.
Level(n) ==
    CASE n[1] = "pipe" -> 0
      [] n[1] = "bin"  -> (CASE n[2] = "or" -> 1 [] n[2] = "and" -> 2 [] n[2] \in {"==", "<"} -> 3
                             [] n[2] \in {"+", "-"} -> 4 [] n[2] \in {"*", "/"} -> 5)
      [] n[1] = "un"   -> 6
      [] n[1] = "await" -> 7        \* its name would go on with the member
      [] OTHER         -> 8

RECURSIVE WriteType(_), WritePattern(_), WriteExpr(_, _), WriteStmt(_)

WriteType(t) ==
    IF t[1] = "paren" THEN <<"(">> \o WriteType(t[2]) \o <<")">>
    ELSE Dotted(t[2]) \o InBrackets([n \in DOMAIN t[3] |-> WriteType(t[3][n])])

WritePattern(p) ==
    CASE p[1] = "wild" -> <<"_">>
      [] p[1] = "bool" -> <<"true">>
      [] p[1] = "bind" -> <<p[2]>>
      [] p[1] = "ctor" -> Dotted(p[2]) \o
            IF Len(p) = 2 THEN <<>> ELSE <<"(">> \o Commas([n \in DOMAIN p[3] |-> WritePattern(p[3][n])]) \o <<")">>

WriteArgs(args) == <<"(">> \o Commas([n \in DOMAIN args |-> WriteExpr(args[n], 0)]) \o <<")">>

WriteBlock(stmts) == Indented([n \in DOMAIN stmts |-> WriteStmt(stmts[n])])

WriteBody(b) == IF b[1] = "do" THEN <<"do">> \o WriteBlock(b[2]) ELSE WriteExpr(b[2], 0)

\* The expression n where the grammar asks for a form of at least this level.
WriteExpr(n, level) ==
    LET inner ==
          CASE n[1] = "pipe"  -> WriteExpr(n[2], 1) \o
                                 FlattenSeq([s \in DOMAIN n[3] |-> <<"|>">> \o WriteExpr(n[3][s], 1)])
            [] n[1] = "bin"   -> WriteExpr(n[3], Level(n)) \o <<n[2]>> \o WriteExpr(n[4], Level(n) + 1)
            [] n[1] = "un"    -> <<n[2]>> \o WriteExpr(n[3], 6)
            [] n[1] = "call"  -> WriteExpr(n[2], 7) \o <<"(">> \o Commas([a \in DOMAIN n[3] |->
                                    (CASE n[3][a][1] = "pos" -> <<>> [] n[3][a][1] = "kw" -> <<n[3][a][2], "=">>
                                       [] OTHER -> <<n[3][a][1]>>)
                                    \o WriteExpr(n[3][a][3], 0)]) \o <<")">>
            [] n[1] = "member" -> WriteExpr(n[2], 8) \o <<".", n[3]>>
            [] n[1] = "index" -> WriteExpr(n[2], 7) \o <<"[">> \o WriteExpr(n[3], 0) \o <<"]">>
            [] n[1] = "try"   -> WriteExpr(n[2], 7) \o <<"?">>
            [] n[1] \in {"lit", "var"} -> <<n[2]>>
            [] n[1] = "tuple" -> IF Len(n[2]) = 1 THEN <<"(">> \o WriteExpr(n[2][1], 0) \o <<",", ")">> ELSE WriteArgs(n[2])
            [] n[1] = "record" -> <<"{">> \o Commas([f \in DOMAIN n[2] |-> <<n[2][f][1], "=">> \o WriteExpr(n[2][f][2], 0)])
                                  \o <<"}">>
            [] n[1] = "await" -> <<"await">> \o Dotted(n[2])
            [] n[1] \in {"rpc", "call sector"} -> <<IF n[1] = "rpc" THEN "rpc" ELSE "call", n[2], ".", n[3]>> \o WriteArgs(n[4])
            [] n[1] = "proceed" -> <<"proceed">> \o WriteArgs(n[2])
            [] n[1] = "match" -> <<"match">> \o WriteExpr(n[2], 0) \o
                    Indented([a \in DOMAIN n[3] |-> Line(WritePattern(n[3][a][1]) \o <<"->">> \o WriteBody(n[3][a][2]))])
    IN  IF Level(n) < level THEN <<"(">> \o inner \o <<")">> ELSE inner

WriteStmt(s) ==
    Line(CASE s[1] = "let"    -> <<"let", s[2], "=">> \o WriteExpr(s[3], 0)
           [] s[1] \in {"emit", "return"} -> <<s[1]>> \o WriteExpr(s[2], 0)
           [] s[1] \in {"stop", "yield"}  -> <<s[1], "(", ")">>
           [] s[1] = "if"     -> <<"if">> \o WriteExpr(s[2], 0) \o WriteBlock(s[3]) \o
                                 (IF Len(s) = 4 THEN <<"else">> \o WriteBlock(s[4]) ELSE <<>>)
           [] s[1] = "for"    -> <<"for", s[2], "in">> \o WriteExpr(s[3], 0) \o WriteBlock(s[4])
           [] s[1] = "assign" -> WriteExpr(s[2], 7) \o <<s[3]>> \o WriteExpr(s[4], 0)
           [] s[1] = "expr"   -> WriteExpr(s[2], 0))

WriteParams(ps) ==
    <<"(">> \o Commas([n \in DOMAIN ps |->
        (IF ps[n][1] = "normal" THEN <<>> ELSE <<ps[n][1]>>) \o <<ps[n][2], ":">> \o WriteType(ps[n][3])]) \o <<")">>

WriteSignature(sig) ==
    WriteParams(sig[1]) \o (IF sig[2] = <<>> THEN <<>> ELSE <<"->">> \o WriteType(sig[2][1]))

Names(parts) == [n \in DOMAIN parts |-> <<parts[n]>>]

WriteRhs(rhs) ==
    CASE rhs[1] = "record" -> <<"{">> \o Commas([n \in DOMAIN rhs[2] |-> <<rhs[2][n][1], ":">> \o WriteType(rhs[2][n][2])])
                              \o <<"}">>
      [] rhs[1] = "sum"    -> FlattenSeq([n \in DOMAIN rhs[2] |->
                                (IF n = 1 THEN <<>> ELSE <<"|">>) \o <<rhs[2][n][1]>> \o
                                (IF rhs[2][n][2] = <<>> THEN <<>>
                                 ELSE <<"(">> \o Commas([m \in DOMAIN rhs[2][n][2] |-> WriteType(rhs[2][n][2][m])]) \o <<")">>)])
      [] rhs[1] = "alias"  -> WriteType(rhs[2])

\* The attributes of a need, <<>> or the strings of cache and of cacheFail.
WriteNeedAttr(attrs) ==
    LET attr(key, v) == IF v = "" THEN <<>> ELSE <<<<key, "=", v>>>>
    IN  IF attrs = <<>> THEN <<>>
        ELSE <<"(">> \o Commas(attr("cache", attrs[1]) \o attr("cacheFail", attrs[2])) \o <<")">>

RECURSIVE WriteItem(_)
WriteItem(d) ==
    Line(CASE d[1] = "type"    -> <<"type">> \o Dotted(d[2]) \o InBrackets(Names(d[3])) \o <<"=">> \o WriteRhs(d[4])
           [] d[1] \in {"const", "let"} -> <<d[1], d[2], "=">> \o WriteExpr(d[3], 0)
           [] d[1] = "need"    -> <<"need">> \o WriteNeedAttr(d[4]) \o <<d[2], "=">> \o WriteExpr(d[3], 0)
           [] d[1] = "fn"      -> (IF d[2] = "" THEN <<"fn">> ELSE <<"fn", "@", d[2]>>) \o <<d[3]>> \o InBrackets(Names(d[4]))
                                  \o WriteSignature(d[5]) \o <<"=">> \o WriteBody(d[6])
           [] d[1] = "pattern" -> <<"pattern">> \o Dotted(d[2]) \o <<"=">> \o WritePattern(d[3])
           [] d[1] = "use"     -> <<"use">> \o Dotted(d[2])
           [] d[1] = "use mixin" -> <<"use", "mixin">> \o Dotted(d[2][1]) \o <<d[2][2]>>
           [] d[1] = "resolve" -> <<"resolve", "mixin", "-", "conflict">> \o Indented([n \in DOMAIN d[2] |->
                                    <<"prefer">> \o Dotted(d[2][n][1][1]) \o <<d[2][n][1][2], "over">>
                                    \o Dotted(d[2][n][2][1]) \o <<d[2][n][2][2], "NL">>])
           [] d[1] = "sector"  -> <<"sector", d[2]>> \o Indented([n \in DOMAIN d[3] |-> WriteItem(d[3][n])])
           [] d[1] = "on"      -> <<"on">> \o Dotted(d[2][2]) \o (IF Len(d[2]) = 3 THEN WriteArgs(d[2][3]) ELSE <<>>)
                                  \o (IF d[3] = "" THEN <<>> ELSE <<"as", d[3]>>)
                                  \o (IF d[4] = <<>> THEN <<>> ELSE <<"when">> \o WriteExpr(d[4], 0))
                                  \o <<"->">> \o WriteBody(d[5])
           [] d[1] = "mixin"   -> <<"mixin">> \o Dotted(d[2][1]) \o <<d[2][2], "into">> \o
                                  (IF d[3] = "sector" THEN <<"sector", d[4]>> ELSE Dotted(d[4]))
                                  \o Indented([n \in DOMAIN d[5] |-> WriteItem(d[5][n])])
           [] d[1] = "add"     -> <<d[2][1], ":">> \o WriteType(d[2][2])
           [] d[1] = "member fn" -> (IF d[2] = "fn" THEN <<"fn">> ELSE IF d[2] = "around" THEN <<"around", "fn">>
                                     ELSE <<"hook", d[3], "fn">>)
                                  \o <<d[4]>> \o WriteSignature(d[5]) \o
                                  (IF d[6] = <<>> THEN <<>>
                                   ELSE <<"with", "(">> \o Commas([n \in DOMAIN d[6] |->
                                            <<d[6][n][1], "=">> \o Tail(d[6][n])]) \o <<")">>)
                                  \o (IF d[2] = "around" THEN WriteBlock(d[7]) ELSE <<"=">> \o WriteBody(d[7]))
           [] d[1] = "run"     -> <<"run", "(", ")">>)
=============================================================================
