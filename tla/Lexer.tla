------------------------------- MODULE Lexer -------------------------------
(***************************************************************************)
(* flavent/lexer.py: lex(). One step is one iteration of its main loop;    *)
(* handle_line_start, which an iteration begins with at the start of a     *)
(* line, is a step of its own. A character is a string of length one (a    *)
(* full-width one is "w" and its ASCII counterpart); the source is written *)
(* as lines of lexemes so that what the tokens must be can be said without *)
(* lexing.                                                                 *)
(***************************************************************************)
EXTENDS Integers, SequencesExt

CONSTANTS
    Sources,    \* the sources: sequences of lines [indent, body]
    Spelling,   \* lexeme |-> the characters it is written with
    Keywords    \* the words (sequences of characters) of KEYWORDS

\* Characters with a name.
Space == " "
Return == "\r"
Quote == "\""
Underscore == "_"

Text(ls) ==
    FlattenSeq([n \in DOMAIN ls |->
        [m \in 1..ls[n].indent |-> Space] \o FlattenSeq([m \in DOMAIN ls[n].body |-> Spelling[ls[n].body[m]]])
        \o <<"\n">>])

\* A source is a string of characters, however it is written here.
ASSUME SourcesAssumption ==
    \A ls \in Sources : Text(ls) \in Seq(STRING) /\ "end" \notin Range(Text(ls))

VARIABLES
    lines,      \* the source as it was written
    src,        \* its characters
    i,          \* st.i
    indents,    \* indent_stack
    depth,      \* bracket_depth
    atLineStart, expectsIndent, endsWithColon,
    toks,       \* tokens
    at          \* "lexing", "done", or the error that was raised

vars == <<lines, src, i, indents, depth, atLineStart, expectsIndent, endsWithColon, toks, at>>

Letters == {"x", "b", "o", "d", Underscore}
Digits == {"0", "1", "7"}
HexDigits == Digits \union {"b", "d"}
Twos == {<<"-", ">">>, <<"+", "=">>, <<"-", "=">>, <<"*", "=">>, <<"*", "*">>, <<"/", "=">>, <<"=", "=">>,
         <<"!", "=">>, <<"<", "=">>, <<">", "=">>, <<"|", ">">>}
Opening == {"(", "[", "{"}
Closing == {")", "]", "}"}
Ones == Opening \union Closing \union {",", ".", ":", "@", "|", "=", "+", "-", "*", "/", "<", ">", "?"}

Init ==
    /\ lines \in Sources
    /\ src = Text(lines)
    /\ i = 1 /\ indents = <<0>> /\ depth = 0 /\ toks = <<>> /\ at = "lexing"
    /\ atLineStart = TRUE /\ expectsIndent = FALSE /\ endsWithColon = FALSE

-----------------------------------------------------------------------------
(* Reading ahead.                                                          *)

\* st.peek; "end" stands for what it returns behind the source.
Peek(j) == IF j \in DOMAIN src THEN src[j] ELSE "end"

\* The full-width characters that _CONFUSABLE_PUNCT_EQUIV knows.
FullWidth == {"w(", "w)", "w[", "w]", "w{", "w}", "w,", "w:", "w.", "w@",
              "w|", "w=", "w+", "w-", "w*", "w/", "w<", "w>", "w!", "w?"}

\* _norm_punct
Norm(c) ==
    CASE c = "w(" -> "(" [] c = "w)" -> ")" [] c = "w[" -> "[" [] c = "w]" -> "]" [] c = "w{" -> "{"
      [] c = "w}" -> "}" [] c = "w," -> "," [] c = "w:" -> ":" [] c = "w." -> "." [] c = "w@" -> "@"
      [] c = "w|" -> "|" [] c = "w=" -> "=" [] c = "w+" -> "+" [] c = "w-" -> "-" [] c = "w*" -> "*"
      [] c = "w/" -> "/" [] c = "w<" -> "<" [] c = "w>" -> ">" [] c = "w!" -> "!" [] c = "w?" -> "?"
      [] OTHER -> c

\* The first position from j on whose character is not in cs.
After(j, cs) == CHOOSE e \in j..(Len(src) + 1) : Peek(e) \notin cs /\ \A m \in j..(e - 1) : src[m] \in cs

LineEnd(j) == After(j, Range(src) \ {"\n"})

\* skip_block_comment at position p, d levels deep: the position behind the
\* comment; 0 if it has a tab or never ends.
BlockScan[x \in Nat \X Int] ==
    LET p == x[1] d == x[2]
    IN  CASE Peek(p) \in {"end", "\t"}               -> 0
          [] Peek(p) = "/" /\ Peek(p + 1) = "*" -> BlockScan[<<p + 2, d + 1>>]
          [] Peek(p) = "*" /\ Peek(p + 1) = "/" -> IF d = 1 THEN p + 2 ELSE BlockScan[<<p + 2, d - 1>>]
          [] OTHER                              -> BlockScan[<<p + 1, d>>]

BlockCommentEnd(j) == BlockScan[<<j, 0>>]

\* fault: what follows a block comment on its line is lost with it.
CommentEndOfLine(j) == LineEnd(IF Peek(j + 1) = "*" /\ BlockCommentEnd(j) # 0 THEN BlockCommentEnd(j) ELSE j)

CommentEnd(j) ==
    IF Peek(j + 1) = "*" THEN BlockCommentEnd(j)
    ELSE IF \E m \in j..LineEnd(j) : src[m] = "\t" THEN 0 ELSE LineEnd(j)

StartsComment(j) == Peek(j) = "/" /\ Peek(j + 1) \in {"/", "*"}

\* The position behind the comments at j, 0 if one of them is malformed.
CommentsScan[p \in Nat] == IF p > 0 /\ StartsComment(p) THEN CommentsScan[CommentEnd(p)] ELSE p
CommentsEnd(j) == CommentsScan[j]

\* emit(): every token with a spelling says whether it is a colon.
Emit(kind, to) ==
    /\ toks' = Append(toks, [kind |-> kind, from |-> i, to |-> to])
    /\ i' = to
    /\ endsWithColon' = (kind = ":")
    /\ UNCHANGED <<lines, src, indents, atLineStart, expectsIndent, at>>

Raise(why) ==
    /\ at' = why
    /\ UNCHANGED <<lines, src, i, indents, depth, atLineStart, expectsIndent, endsWithColon, toks>>

-----------------------------------------------------------------------------
(* handle_line_start                                                       *)

Layout(kind, n) == [m \in 1..n |-> [kind |-> kind, from |-> i, to |-> i]]

\* fault: one level is closed, however far the line moves out.
StayingButOne(k) == IF k < Last(indents) THEN Len(indents) - 1 ELSE Len(indents)

\* How many widths of the stack stay when a line of width k comes.
Staying(k) == CHOOSE n \in 0..Len(indents) :
    /\ n > 0 => indents[n] <= k
    /\ \A m \in (n + 1)..Len(indents) : indents[m] > k

LineStart ==
    LET k == After(i, {Space}) - i
        j == CommentsEnd(i + k)
        stay == Staying(k)
    IN  /\ at = "lexing" /\ i <= Len(src) /\ atLineStart /\ depth = 0 /\ Peek(i) # "\t"
        /\ CASE Peek(i + k) = "\t" \/ j = 0 -> Raise("comment")
             [] j # 0 /\ Peek(j) = "\n" ->                            \* blank
                    i' = j + 1 /\ UNCHANGED <<lines, src, indents, depth, atLineStart, expectsIndent,
                                              endsWithColon, toks, at>>
             [] j # 0 /\ Peek(i + k) # "\t" /\ Peek(j) # "\n" /\ expectsIndent ->
                    IF k <= Last(indents) THEN Raise("indentation")
                    ELSE /\ indents' = Append(indents, k)
                         /\ toks' = toks \o Layout("INDENT", 1)
                         /\ expectsIndent' = FALSE /\ atLineStart' = FALSE /\ i' = j
                         /\ UNCHANGED <<lines, src, depth, endsWithColon, at>>
             [] OTHER ->
                    IF k > Last(indents) \/ stay = 0 \/ indents[stay] # k THEN Raise("indentation")
                    ELSE /\ indents' = SubSeq(indents, 1, stay)
                         /\ toks' = toks \o Layout("DEDENT", Len(indents) - stay)
                         /\ atLineStart' = FALSE /\ i' = j
                         /\ UNCHANGED <<lines, src, depth, expectsIndent, endsWithColon, at>>

-----------------------------------------------------------------------------
(* The tokens of a line.                                                   *)

InLine == at = "lexing" /\ i <= Len(src) /\ ~ (atLineStart /\ depth = 0)
Here == Peek(i)

Blank ==
    /\ InLine /\ Here \in {Space, Return}
    /\ i' = i + 1
    /\ UNCHANGED <<lines, src, indents, depth, atLineStart, expectsIndent, endsWithColon, toks, at>>

Comment ==
    /\ InLine /\ StartsComment(i)
    /\ IF CommentEnd(i) = 0 THEN Raise("comment")
       ELSE i' = CommentEnd(i) /\ UNCHANGED <<lines, src, indents, depth, atLineStart,
                                                 expectsIndent, endsWithColon, toks, at>>

NewLine ==
    /\ InLine /\ Here = "\n"
    /\ i' = i + 1
    /\ IF depth > 0 THEN UNCHANGED <<toks, atLineStart, expectsIndent>>
       ELSE /\ toks' = Append(toks, [kind |-> "NL", from |-> i, to |-> i + 1])
            /\ expectsIndent' = (expectsIndent \/ endsWithColon)
            /\ atLineStart' = TRUE
    /\ UNCHANGED <<lines, src, indents, depth, endsWithColon, at>>

Word ==
    /\ InLine /\ Here \in Letters /\ ~ (Here = "b" /\ Peek(i + 1) = Quote)
    /\ LET e == After(i, Letters \union Digits)
       IN  Emit(IF SubSeq(src, i, e - 1) \in Keywords THEN "KEYWORD" ELSE "IDENT", e)
    /\ UNCHANGED depth

\* read_digits_with_underscores: the digits in src[j..e-1] are a numeral.
Numeral(j, e) ==
    /\ j < e /\ src[j] # Underscore /\ src[e - 1] # Underscore
    /\ \A m \in j..(e - 2) : ~ (src[m] = Underscore /\ src[m + 1] = Underscore)

Number ==
    /\ InLine /\ Here \in Digits
    /\ LET base == IF Here = "0" /\ Peek(i + 1) \in {"x", "o", "b"} THEN Peek(i + 1) ELSE "ten"
           allowed == CASE base = "x" -> HexDigits [] base = "o" -> Digits [] base = "b" -> {"0", "1"} [] OTHER -> Digits
           j == IF base = "ten" THEN i ELSE i + 2
           e == After(j, allowed \union {Underscore})
           f == After(e + 1, Digits \union {Underscore})
           fraction == base = "ten" /\ Peek(e) = "." /\ Peek(e + 1) \in Digits
       IN  IF ~ Numeral(j, e) \/ (fraction /\ ~ Numeral(e + 1, f)) THEN Raise("number") /\ UNCHANGED depth
           ELSE /\ IF fraction THEN Emit("FLOAT", f) ELSE Emit("INT", e)
                /\ UNCHANGED depth

\* The loop of _lex_string at position p.
StringScan[p \in Nat] ==
    CASE Peek(p) \in {"end", "\n"}                                -> 0
      [] Peek(p) = Quote                                        -> p + 1
      [] Peek(p) = "\\" /\ Peek(p + 1) \in {"end", "\n"}          -> 0
      [] Peek(p) = "\\" /\ Peek(p + 1) = "x"                   ->
            IF Peek(p + 2) \in HexDigits /\ Peek(p + 3) \in HexDigits THEN StringScan[p + 4] ELSE 0
      [] Peek(p) = "\\" /\ Peek(p + 1) \notin {"end", "\n", "x"}  -> StringScan[p + 2]
      [] OTHER                                                 -> StringScan[p + 1]

\* The position behind the literal whose text starts at j; 0 if it does not
\* end on its line, has a malformed \x or, between b-quotes, a character that
\* is no byte (the full-width ones are not).
StringEnd(kind, j) ==
    IF kind = "BYTES" /\ \E m \in j..(StringScan[j] - 1) : src[m] \in FullWidth THEN 0 ELSE StringScan[j]

String ==
    /\ InLine /\ (Here = Quote \/ (Here = "b" /\ Peek(i + 1) = Quote))
    /\ LET kind == IF Here = "b" THEN "BYTES" ELSE "STR"
           e == StringEnd(kind, IF Here = "b" THEN i + 2 ELSE i + 1)
       IN  IF e = 0 THEN Raise("string") ELSE Emit(kind, e) /\ UNCHANGED depth

\* fault: operators of one character are tried first.
OpLenShort == IF Norm(Here) \in Ones THEN 1 ELSE 0

\* How many characters the operator at i has; 0 if there is none.
OpLen == IF <<Norm(Here), Norm(Peek(i + 1))>> \in Twos THEN 2 ELSE IF Norm(Here) \in Ones THEN 1 ELSE 0

\* The bracket depth behind a bracket, never below zero.
Nested(c) == CASE c \in Opening -> depth + 1 [] c \in Closing /\ depth > 0 -> depth - 1 [] OTHER -> depth

Operator ==
    /\ InLine /\ ~ StartsComment(i) /\ OpLen > 0
    /\ Emit(IF OpLen = 2 THEN "op" ELSE Norm(Here), i + OpLen)
    /\ depth' = IF OpLen = 1 THEN Nested(Norm(Here)) ELSE depth

\* A tab, or a character that starts no token.
Unexpected ==
    /\ at = "lexing" /\ i <= Len(src)
    /\ \/ Here = "\t"
       \/ InLine /\ Here \notin {Space, Return, "\n", Quote} \union Letters \union Digits /\ OpLen = 0
    /\ Raise("character")

EndOfFile ==
    /\ at = "lexing" /\ i > Len(src)
    /\ toks' = (toks \o Layout("DEDENT", Len(indents) - 1)) \o Layout("EOF", 1)
    /\ indents' = <<0>> /\ at' = "done"
    /\ UNCHANGED <<lines, src, i, depth, atLineStart, expectsIndent, endsWithColon>>

Next ==
    \/ LineStart \/ Blank \/ Comment \/ NewLine \/ Word \/ Number \/ String \/ Operator
    \/ Unexpected \/ EndOfFile

Spec == Init /\ [][Next]_vars

-----------------------------------------------------------------------------
(* What the tokens must be.                                                *)

Expected == [name |-> <<"IDENT">>, header |-> <<"IDENT", ":">>, open |-> <<"IDENT", "(">>, close |-> <<")">>,
             openSquare |-> <<"IDENT", "[">>, closeCurly |-> <<"}">>, closeHeader |-> <<")", ":">>,
             note |-> <<>>, remark |-> <<>>]

KindsOf(l) == FlattenSeq([m \in DOMAIN l.body |-> Expected[l.body[m]]])

DepthAfter(d, ks) ==
    FoldLeft(LAMBDA n, k : CASE k \in {"(", "[", "{"} -> n + 1 [] k \in {")", "]", "}"} /\ n > 0 -> n - 1
                             [] OTHER -> n, d, ks)

\* The logical lines: lines are joined while a bracket is open, and blank or
\* commented lines outside brackets do not count.
Logical ==
    FoldLeft(LAMBDA acc, l :
        LET ks == KindsOf(l)
            d == DepthAfter(acc.depth, ks)
        IN  IF acc.depth > 0
            THEN [logical |-> [acc.logical EXCEPT ![Len(acc.logical)].kinds = @ \o ks], depth |-> d]
            ELSE IF ks = <<>> THEN acc
            ELSE [logical |-> Append(acc.logical, [k |-> l.indent, kinds |-> ks]), depth |-> d],
        [logical |-> <<>>, depth |-> 0], lines)

Heads(L, n) == n > 0 /\ Last(L[n].kinds) = ":"

\* The block that line h opens reaches to line n.
Encloses(L, h, n) == Heads(L, h) /\ \A m \in (h + 1)..n : L[m].k > L[h].k

Nesting(L, n) == Cardinality({h \in 1..(n - 1) : Encloses(L, h, n)})

WellIndented(L) ==
    \A n \in DOMAIN L :
        IF n = 1 THEN L[n].k = 0
        ELSE IF Heads(L, n - 1) THEN L[n].k > L[n - 1].k
        ELSE \/ L[n].k = L[n - 1].k
             \/ \E h \in 1..(n - 2) : Encloses(L, h, n - 1) /\ L[n].k = L[h].k

Repeat(kind, n) == [m \in 1..n |-> kind]

LineKinds(L, n) ==
    LET from == Nesting(L, n - 1) to == Nesting(L, n)
    IN  Repeat("INDENT", to - from) \o Repeat("DEDENT", from - to) \o L[n].kinds
            \o (IF n = Len(L) /\ Logical.depth > 0 THEN <<>> ELSE <<"NL">>)

\* Indentation (REF2.md 1.4): the source is accepted exactly if each line is
\* as far in as a line it belongs with, only a line behind a colon is further
\* in, and INDENT and DEDENT nest as the blocks do; brackets join lines,
\* comments and blank lines count for nothing, every open block is closed at
\* the end of the file.
LayoutAsSpecified ==
    LET L == Logical.logical
        accepted == WellIndented(L)
    IN  (\A n \in DOMAIN lines : Range(lines[n].body) \subseteq DOMAIN Expected) =>
            CASE at = "lexing"      -> TRUE
              [] at = "indentation" -> ~ accepted
              [] at = "done"        ->
                    /\ accepted
                    /\ [n \in DOMAIN toks |-> toks[n].kind] =
                         FlattenSeq([n \in DOMAIN L |-> LineKinds(L, n)])
                            \o Repeat("DEDENT", Nesting(L, Len(L))) \o <<"EOF">>
              [] OTHER              -> FALSE

\* Is the quote at position m escaped, that is, behind an odd number of
\* backslashes?
Escaped(m) ==
    \E n \in 1..(m - 1) : /\ n % 2 = 1 /\ \A q \in (m - n)..(m - 1) : src[q] = "\\"
                         /\ Peek(m - n - 1) # "\\"

Spelled(t) ==
    LET s == SubSeq(src, t.from, t.to - 1)
        open == IF t.kind = "BYTES" THEN t.from + 1 ELSE t.from
    IN  CASE t.kind = "NL"                      -> s = <<"\n">>
          [] t.kind \in {"INDENT", "DEDENT", "EOF"} -> s = <<>>
          [] t.kind = "KEYWORD"                 -> s \in Keywords
          [] t.kind = "IDENT"                   -> /\ Range(s) \subseteq Letters \union Digits
                                                   /\ s[1] \in Letters /\ s \notin Keywords
          [] t.kind = "INT"                     -> s[1] \in Digits /\ Last(s) \in HexDigits
          [] t.kind = "FLOAT"                   -> s[1] \in Digits /\ Last(s) \in Digits /\ "." \in Range(s)
          [] t.kind \in {"STR", "BYTES"}        ->
                \A m \in open..(t.to - 1) :
                    src[m] = Quote => (m \in {open, t.to - 1} <=> m = open \/ ~ Escaped(m))
          [] t.kind = "op"                      -> Len(s) = 2 /\ <<Norm(s[1]), Norm(s[2])>> \in Twos
          [] OTHER                              -> Len(s) = 1 /\ Norm(s[1]) = t.kind

\* In the text s: does a block comment begin, or end, at p? Is s[a..e-1] a
\* line comment, from its slashes to the end of the line?
BeginsBlock(s, p) == p + 1 \in DOMAIN s /\ s[p] = "/" /\ s[p + 1] = "*"
EndsBlock(s, p) == p + 1 \in DOMAIN s /\ s[p] = "*" /\ s[p + 1] = "/"
LineComment(s, a, e) ==
    /\ s[a] = "/" /\ s[a + 1] = "/"
    /\ e - 1 \in DOMAIN s /\ \A p \in a..(e - 1) : s[p] \notin {"\n", "\t"}
    /\ e \in DOMAIN s => s[e] = "\n"

\* A character that means nothing: a blank in the code, and inside a block
\* comment what begins or ends none.
Idle(s, where, p) ==
    /\ p \in DOMAIN s
    /\ IF where = "code" THEN s[p] \in {Space, Return, "\n"}
       ELSE s[p] # "\t" /\ ~ BeginsBlock(s, p) /\ ~ EndsBlock(s, p)

\* Filler(s)[<<where, a, e>>]: s[a..e-1] is idle characters and whole comments.
\* A block comment is whole if what is between its ends is again filler.
Filler(s) ==
    LET filler[x \in {"code", "comment"} \X Nat \X Nat] ==
            LET where == x[1] a == x[2] e == x[3]
            IN  \/ a = e
                \/ a < e /\ Idle(s, where, a) /\ filler[<<where, a + 1, e>>]
                \/ \E m \in (a + 4)..e : /\ BeginsBlock(s, a) /\ EndsBlock(s, m - 2)
                                        /\ filler[<<"comment", a + 2, m - 2>>] /\ filler[<<where, m, e>>]
                \/ \E m \in (a + 2)..e : where = "code" /\ LineComment(s, a, m) /\ filler[<<where, m, e>>]
    IN  filler

\* Nothing of the source is lost or read twice: the tokens follow each other,
\* each one is spelled as its kind asks (a string ends at its first quote that
\* is not escaped), between them there are only blanks and whole comments, and
\* the last one is where the source ends.
TokensCoverSource ==
    /\ \A n \in DOMAIN toks :
          LET t == toks[n]
              before == IF n = 1 THEN 1 ELSE toks[n - 1].to
          IN  before <= t.from /\ Spelled(t) /\ Filler(src)[<<"code", before, t.from>>]
    /\ at = "done" => toks # <<>> /\ Last(toks).to = Len(src) + 1

\* An operator, a word or a comment is never split: two tokens that touch do
\* not begin with what is a longer one.
LongestMatch ==
    \A n \in 2..Len(toks) :
        LET a == toks[n - 1] b == toks[n]
        IN  a.to = b.from =>
                /\ (a.to = a.from + 1 /\ b.to > b.from) =>
                     /\ <<Norm(src[a.from]), Norm(src[b.from])>> \notin Twos
                     /\ ~ StartsComment(a.from)
                /\ ~ ({a.kind, b.kind} \subseteq {"IDENT", "KEYWORD"})
=============================================================================
