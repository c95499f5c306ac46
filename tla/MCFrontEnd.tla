----------------------------- MODULE MCFrontEnd -----------------------------
(* Files for the lexer and parser: every pair of operator levels in both    *)
(* groupings, every primary and suffix, every statement and declaration.   *)
EXTENDS FrontEnd

MCForms ==
  [w \in {"..."} |-> <<".", ".", ".">>]
  @@ ("STRING" :> <<"\"", "x", "\\", "\"", "\"">>) @@ ("raw string" :> <<"raw", "\"", "\n", "raw">>)
  @@ ("char" :> <<"'", "x", "'">>) @@ ("quote" :> <<"'", "\\", "'", "'">>)
  @@ ("0x1f" :> <<"0", "x", "1", "f">>) @@ ("0b10" :> <<"0", "b", "1", "0">>)
  @@ ("07" :> <<"0", "7">>) @@ ("7.9" :> <<"7", ".", "9">>) @@ ("7e-1" :> <<"7", "e", "-", "1">>)
  @@ ("08" :> <<"0", "8">>) @@ ("7e" :> <<"7", "e">>) @@ ("open" :> <<"\"", "x", "\\">>)
  @@ ("open raw" :> <<"raw", "x">>) @@ ("open char" :> <<"'", "x", "x">>)
  @@ ("open comment" :> <<"/", "*", "/", "*", "*", "/">>)

x == W("ident", "x")
y == W("ident", "y")
n7 == Phrase(<<"7">>, <<<<"constant", "INT">>>>)
str == W("constant", "STRING")
tT == W("type", "T")

Ptr(op, t) == Cat(<<T(op), t, Mark("pointer", op)>>)
Slice(t)   == Cat(<<T("["), T("]"), t, Mark("slice", "")>>)
VecOf(t)   == Cat(<<T("Vec"), T("<"), t, T(">"), Mark("vec", "Vec")>>)
MapOf(k, v) == Cat(<<T("Map"), T("<"), k, T(","), v, T(">"), Mark("map", "Map")>>)
Types == {tT, Ptr("*", tT), Slice(Ptr("&", tT)), VecOf(VecOf(tT)), Ptr("*", Slice(tT)),
          VecOf(VecOf(VecOf(Slice(tT)))), MapOf(tT, VecOf(tT)), W("type", "byte"),
          Cat(<<T("owned"), VecOf(MapOf(tT, tT))>>)}

Calling(e, as) == Cat(<<e, Mark("(", ""), T("("), as, T(")"), Mark("call", "")>>)
Member(e, m)   == Cat(<<e, T("."), W("member", m)>>)
TypeArg(t, e)  == Cat(<<t, Mark("typearg", ""), T(","), e>>)
List(open, es, close, mark) ==
  Cat(<<Mark("[", ""), T("["), es, T("]"), Mark("array", "")>>)
Literal == Cat(<<W("literal", "P"), T("{"), W("init", "x"), T(":"), y, T(","), n7, T(","), T("}"),
                 Mark("end", "")>>)
Primaries ==
  {x, n7, str, W("constant", "true"), W("constant", "none"),
   Calling(x, T("")), Calling(x, y), Calling(Calling(x, Cat(<<x, T(","), n7>>)), y),
   Cat(<<x, T("["), Bin(9, 1, x, y), T("]"), Mark("index", "")>>),
   Member(Cat(<<x, W("postfix", "++")>>), "y"),
   Calling(W("ident", "cast"), TypeArg(Ptr("*", tT), x)),
   Calling(Member(x, "new"), TypeArg(Slice(tT), y)),
   Calling(Member(Member(x, "y"), "sizeof"), Cat(<<VecOf(VecOf(tT)), Mark("typearg", "")>>)),
   List("[", Cat(<<x, T(","), y, T(",")>>), "]", "array"),
   Cat(<<T("["), T("]"), tT, T("{"), x, T(","), n7, T("}"), Mark("slice", "[]")>>),
   Cat(<<W("byte", "byte"), str>>),
   Cat(<<W("byte", "byte"), Mark("[", ""), T("["), n7, T("]"), Mark("array", "")>>)}
Literals ==
  {Literal,
   Cat(<<T("Vec"), T("<"), VecOf(tT), T(">"), T("{"), T("}"), Mark("vec", "Vec")>>),
   Cat(<<T("Vec"), T("<"), tT, T(">"), T("{"), W("capacity", "capacity"), T(":"), x, T("}"),
         Mark("vec", "Vec")>>)}

Constant(w, type) == Phrase(<<w>>, <<<<"constant", type>>>>)
Constants1 ==
  {Constant("raw string", "STRING"), Constant("char", "CHAR"), Constant("quote", "CHAR"),
   Constant("0x1f", "INT"), Constant("0b10", "INT"), Constant("07", "INT"),
   Constant("7.9", "FLOAT"), Constant("7e-1", "FLOAT")}
Malformed == {"08", "7e", "open", "open raw", "open char", "open comment"}

z == W("ident", "z")
Groupings == {Bin(i, 1, Bin(j, 1, x, y), z) : i, j \in 1 .. 10}
             \cup {Bin(i, 1, x, Bin(j, 1, y, z)) : i, j \in 1 .. 10}
Second == {Bin(i, Len(Spelling[i]), Bin(i, 1, x, y), Bin(i, 1, y, z)) : i \in 1 .. 10}
\* `*` and `&` are prefixes before a word or a bracket only.
Addressed == {e \in Primaries \cup Literals : e.s[1] \notin {"7", "STRING", ""}}
Prefixed == {Un(op, e) : op \in {"!", "-", "++"}, e \in Primaries \cup Literals}
            \cup {Un(op, e) : op \in {"*", "&"}, e \in Addressed}
Applied == {Bin(i, 1, x, e) : i \in {5, 9, 10}, e \in Prefixed}
           \cup {Bin(10, 1, e, x) : e \in Prefixed}
           \cup {Un("-", Un("-", x)), Un("*", Un("&", x)), Un("!", Bin(1, 1, x, y)),
                 Member(Of(Un("*", x)), "y"), Calling(Of(Bin(9, 1, x, y)), z)}

Does(e) == Cat(<<e, Mark("do", "")>>)
Body1(s) == Cat(<<T("{"), Mark("{", ""), s, T("}"), Mark("}", "")>>)
Key(w) == W(w, w)
Declares(e) == Cat(<<x, T(":="), e, Mark("var", "")>>)
Conditions == Primaries \cup Prefixed

Statements1 ==
  {Does(x), Declares(n7), Cat(<<x, T("+="), y, Mark("assign", "+=")>>),
   Cat(<<Key("return"), Bin(9, 1, x, y), Mark("end", "")>>), Cat(<<Key("return"), Mark("end", "")>>),
   Cat(<<Key("defer"), Calling(x, y), Mark("end", "")>>),
   Cat(<<Key("defer"), Body1(Does(x)), Mark("end", "")>>),
   Cat(<<Key("const"), x, T(":"), tT, T("="), n7, Mark("var", "")>>),
   Cat(<<Key("if"), x, Body1(Does(y)), Key("else"), Key("if"), Bin(7, 1, x, y), Body1(Does(x)),
         Key("else"), Body1(Key("break"))>>),
   Cat(<<Key("switch"), x, T("{"), Key("case"), n7, Body1(Does(y)), Key("default"),
         Body1(Key("continue")), T("}"), Mark("end", "")>>),
   Cat(<<Key("for"), W("each", "x"), T("in"), y, Body1(Does(x))>>),
   Cat(<<Key("for"), Body1(Key("break"))>>),
   Cat(<<Key("for"), T("("), Declares(n7), T(";"), Bin(7, 1, x, y), T(";"),
         Cat(<<x, W("postfix", "++")>>), T(")"), Body1(Does(y))>>),
   Cat(<<Key("for"), T("("), T(";"), T(";"), T(")"), Body1(Does(y))>>),
   Body1(Does(x))}

Parameters == Cat(<<W("param", "x"), VecOf(VecOf(tT)), T(","), W("param", "y"), T("..."),
                    Mark("...", "..."), Mark("type", "any")>>)
Declarations ==
  {Cat(<<Key("pub"), T("fn"), W("fn", "f"), T("("), Parameters, T(")"), Ptr("*", tT), Body1(Does(x))>>),
   Cat(<<Key("extern"), T("fn"), W("fn", "f"), T("("), W("param", "x"), tT, T(")"), T("as"),
         W("as", "STRING")>>),
   Cat(<<T("fn"), W("fn", "f"), T("."), W("method", "g"), T("("), T(")"), Body1(Does(x))>>),
   Cat(<<Key("pub"), T("struct"), W("struct", "P"), T("{"), T("\n"), W("field", "x"),
         VecOf(VecOf(tT)), T("\n"), W("field", "y"), T("struct"), T("{"), W("field", "x"), tT, T("}"),
         Mark("end", ""), T("}"), Mark("end", "")>>),
   Cat(<<T("enum"), W("enum", "P"), T("{"), W("variant", "x"), T("="),
         W("unary", "-"), Phrase(<<"7">>, <<<<"value", "INT">>>>), T(","), T("\n"), W("variant", "y"), T("\n"), T("}"),
         Mark("end", "")>>),
   Cat(<<T("type"), W("alias", "P"), T("="), Slice(tT)>>),
   Cat(<<T("module"), W("module", "x"), T("."), W("part", "y"), T("\n"), T("import"),
         W("import", "STRING"), T("as"), W("as", "y"), T("\n"), Does(x)>>)}

Drop(p) == [p EXCEPT !.s = SelectSeq(@, LAMBDA w : w # "")]
MCWritten ==
  {Drop(p) : p \in {Declares(e) : e \in Groupings \cup Second \cup Applied \cup Primaries \cup Literals
                                           \cup Constants1}
                   \cup {Cat(<<Key("if"), c, Body1(Does(y))>>) : c \in Primaries}
                   \cup {Cat(<<x, T(":"), t, T("="), y, Mark("var", "")>>) : t \in Types}
                   \cup {Cat(<<s, T("\n"), t>>) : s \in Statements1, t \in {Does(y), Body1(Does(x))}}
                   \cup Declarations}
  \cup {[Declares(x) EXCEPT !.s = <<"x", ":=", w>>, !.o = Error] : w \in Malformed}
MCDamaged ==
  {Drop(p) : p \in Statements1 \cup Declarations
                   \cup {Declares(e) : e \in Literals \cup Primaries}}
MCJunk == {";", ")", "}", "{", "fn", "z", ",", "@", "if", "[", "open", "\n"}
MCGaps == {<<>>, <<" ">>, <<"/", "*", "/", "*", "*", "/", "\n", "*", "/">>}

\* For MCParserHangs.cfg: the grammar's field declaration with its visibility.
PublicFields == {Phrase(<<"struct", "P", "{", "pub", "x", "T", "\n", "}">>, None)}
NoPhrases == {}
=============================================================================
