------------------------------- MODULE Parser -------------------------------
(***************************************************************************)
(* The recursive-descent parser of the C++ bootstrap compiler (bootstrap/  *)
(* cpp/src/parser/parser.cpp) as a pushdown machine.  The call stack is a  *)
(* sequence of goals: a primitive one does what an expect, a match or an   *)
(* advance of the code does, any other stands for a function or a loop of  *)
(* the code and is replaced by the goals that function runs through from   *)
(* the token it sees.  The tree is what the goals build, written as a      *)
(* sequence of entries, each node after its children.                      *)
(*                                                                         *)
(* An error is reported and the parser goes on, as in the code; what it    *)
(* builds from then on is not kept, for the compilation has failed.        *)
(***************************************************************************)
EXTENDS Lexer

VARIABLES
  tokens,    \* the tokens of the file, as the lexer gives them
  at,        \* the number of those read
  cur,       \* the current token
  stack,     \* goals, the next one first
  tree,      \* entries built so far
  last,      \* the expression built last: its kind and callee path
  suppress,  \* suppress_struct_literal_depth
  failed     \* an error was reported

vars == <<tokens, at, cur, stack, tree, last, suppress, failed>>

Is(t)   == cur.type = t
IsIn(S) == cur.type \in S
Word(w) == Is("IDENT") /\ cur.lex = w
Read(n) == tokens[IF n > Len(tokens) THEN Len(tokens) ELSE n]
Peek(k) == Read(at + k)

\* Goals.
Do(g)         == <<g, "", "">>
With(g, a)    == <<g, a, "">>
Expect(t)     == <<"expect", t, "">>
Name(label)   == <<"expect", "IDENT", label>>
Match(t)      == <<"match", t, "">>
Put(label, l) == <<"put", label, l>>
Advance       == Do("advance")
Newlines      == Do("newlines")
Fail          == Do("fail")
Line          == Match("NEWLINE")
Expression    == <<"binary", 1, "">>
NoStructLiterals == <<Do("suppress"), Expression, Do("allow")>>
Block         == Do("block")
Marked(w)     == IF w = "" THEN <<>> ELSE <<Put(w, w)>>

-----------------------------------------------------------------------------
(* Declarations. *)

Program ==
  IF Is("EOF") THEN <<>>
  ELSE <<IF IsIn({"module", "package"}) THEN Do("module")
         ELSE IF Is("import") THEN Do("import") ELSE Do("decl"),
         Newlines, Do("program")>>

Decl == IF Is("pub") THEN <<Advance, With("declared", "pub")>> ELSE <<With("declared", "")>>

Declared(pub) ==
  CASE Is("struct") -> Marked(pub) \o <<Do("struct")>>
    [] Is("enum") -> Marked(pub) \o <<Do("enum")>>
    [] Is("type") -> Marked(pub) \o <<Do("alias")>>
    [] IsIn({"extern", "intrinsic"}) -> <<Advance, <<"function", pub, cur.lex>>>>
    [] OTHER -> <<<<"function", pub, "">>>>

Dotted == IF Is(".") THEN <<Advance, Name("part"), Do("dotted")>> ELSE <<>>
Module == <<Advance, Name("module"), Do("dotted"), Line>>
Import == <<Expect("import"), Do("path"), Do("as"), Line>>
ImportPath == IF Is("STRING") THEN <<Put("import", cur.lex), Advance>>
              ELSE <<Name("import"), Do("dotted")>>
ImportAlias == IF Is("as") THEN <<Advance, Name("as")>> ELSE <<>>

Struct == <<Expect("struct"), Name("struct"), Expect("{"), Newlines, Do("fields"),
            Expect("}"), Put("end", "")>>
InBody == ~IsIn({"}", "EOF"})
Fields == IF InBody THEN <<Name("field"), Do("fieldtype"), Line, Newlines, Do("fields")>>
          ELSE <<>>
FieldType == IF Is("struct")
             THEN <<Advance, Expect("{"), Newlines, Do("inline"), Expect("}"), Put("end", "")>>
             ELSE <<Do("type")>>
InlineFields == IF InBody THEN <<Name("field"), Do("type"), Line, Newlines, Do("inline")>>
                ELSE <<>>

Enum == <<Expect("enum"), Name("enum"), Expect("{"), Newlines, Do("variants"),
          Expect("}"), Put("end", "")>>
Variants ==
  IF InBody THEN <<Name("variant"), Do("value"), Newlines, Do("separator"), Newlines,
                   Do("variants")>>
  ELSE <<>>
Value == IF Is("ASSIGN") /\ cur.lex = "="
         THEN <<Advance, Do("sign"), <<"expect", "INT", "value">>>> ELSE <<>>
Sign  == IF Is("-") THEN <<Put("unary", "-"), Advance>> ELSE <<>>
Separator == IF Is(",") THEN <<Advance, Newlines>> ELSE <<Line>>

Alias == <<Expect("type"), Name("alias"), Do("equals"), Do("type"), Line>>
Equals == IF Is("ASSIGN") /\ cur.lex = "=" THEN <<Advance>> ELSE <<>>

TypeStart == {"IDENT", "[", "DEREF", "ADDRESS_OF", "byte"}
Function(pub, kind) ==
  IF Is("fn")
  THEN Marked(pub) \o Marked(kind)
       \o <<Advance, Name("fn"), Do("receiver"), Expect("("), Do("params"), Expect(")"),
            Do("result"), Do("linkname"), With("body", kind)>>
  ELSE <<Do("stmt")>>
Receiver == IF Is(".") THEN <<Advance, Name("method")>> ELSE <<>>
Params   == IF Is(")") THEN <<>> ELSE <<With("param", "")>>
Param(prefix) ==
  IF IsIn({"DEREF", "ADDRESS_OF"}) THEN <<Advance, With("param", prefix \o cur.lex)>>
  ELSE <<Name("param"), With("variadic", prefix)>>
Variadic(prefix) ==
  CASE Is("...") -> <<Advance, Put("...", "..."), <<"paramtype", prefix, "...">>,
                      With("paramend", "...")>>
    [] Is(".") /\ Peek(1).type = "." /\ Peek(2).type = "." ->
         <<Advance, Advance, Advance, Put("...", "..."), <<"paramtype", prefix, "...">>,
           With("paramend", "...")>>
    [] OTHER -> <<<<"paramtype", prefix, "">>, With("paramend", "")>>
ParamType(prefix, variadic) ==
  CASE IsIn(TypeStart) -> <<Do("type")>>
    [] ~IsIn(TypeStart) /\ variadic # "" -> <<Put("type", "any")>>
    [] ~IsIn(TypeStart) /\ variadic = "" /\ prefix # "" -> <<Put("type", prefix)>>
    [] OTHER -> <<Fail>>
ParamEnd(variadic) ==
  CASE ~Is(",") -> <<>>
    [] Is(",") /\ variadic = "" -> <<Advance, With("param", "")>>
    [] Is(",") /\ variadic # "" -> <<Advance, Fail, Do("skipparams")>>
SkipParams == IF IsIn({")", "EOF"}) THEN <<>> ELSE <<Advance, Do("skipparams")>>
Result   == IF IsIn(TypeStart) THEN <<Do("type")>> ELSE <<>>
LinkName == IF Is("as") THEN <<Advance, <<"expect", "STRING", "as">>>> ELSE <<>>
Body(kind) == CASE Is("{") -> <<Block>>
                [] ~Is("{") /\ kind = "" -> <<Fail>>
                [] OTHER -> <<>>

-----------------------------------------------------------------------------
(* Types. *)

Type == IF Word("owned") THEN <<Advance, Do("type")>> ELSE <<Do("pointed")>>
Pointed == IF IsIn({"DEREF", "ADDRESS_OF"})
           THEN <<Advance, Do("pointed"), Put("pointer", cur.lex)>>
           ELSE <<IF Is("[") THEN Do("elements") ELSE Do("base")>>
Elements == IF Is("[") THEN <<Advance, Expect("]"), Do("elements"), Put("slice", "")>>
            ELSE <<Do("type")>>
BaseType ==
  CASE Word("Map") /\ Peek(1).type = "<" ->
         <<Advance, Advance, Do("type"), Expect(","), Do("type"), Do("gt"), Put("map", "Map")>>
    [] Word("Vec") /\ Peek(1).type = "<" ->
         <<Advance, Advance, Do("type"), Do("gt"), Put("vec", "Vec")>>
    [] Is("byte") -> <<Put("type", "byte"), Advance>>
    [] OTHER -> <<Name("type")>>

-----------------------------------------------------------------------------
(* Statements. *)

Statements == IF InBody THEN <<Do("stmt"), Newlines, Do("stmts")>> ELSE <<>>

\* A slip: a label that is neither `case` nor `default` is passed over in silence.
QuietCases(seen) ==
  CASE ~InBody -> <<>>
    [] InBody /\ ~Is("IDENT") -> <<Fail, Advance, Newlines, With("cases", seen)>>
    [] InBody /\ Word("case") ->
         <<Put("case", "case"), Advance>> \o NoStructLiterals
         \o <<Block, Newlines, With("cases", seen)>>
    [] OTHER -> <<Advance, Do("skipped"), Newlines, With("cases", seen)>>

Cases(seen) ==
  CASE ~InBody -> <<>>
    [] InBody /\ ~Is("IDENT") -> <<Fail, Advance, Newlines, With("cases", seen)>>
    [] InBody /\ Word("case") ->
         <<Put("case", "case"), Advance>> \o NoStructLiterals
         \o <<Block, Newlines, With("cases", seen)>>
    [] InBody /\ Word("default") ->
         <<Put("default", "default"), Advance>> \o (IF seen = "default" THEN <<Fail>> ELSE <<>>)
         \o <<Block, Newlines, With("cases", "default")>>
    [] OTHER -> <<Fail, Advance, Do("skipped"), Newlines, With("cases", seen)>>

Switch == NoStructLiterals
          \o <<Expect("{"), Newlines, With("cases", ""), Expect("}"), Put("end", "")>>
SkippedBlock == IF Is("{") THEN <<Block>> ELSE <<>>

Condition == IF Is("IDENT") /\ Peek(1).type = "{" THEN <<Put("ident", cur.lex), Advance>>
             ELSE NoStructLiterals
Else     == IF Is("else") THEN <<Advance, Do("otherwise")>> ELSE <<>>
ElseBody == CASE Is("{") -> <<Put("else", "else"), Block>>
              [] Is("if") -> <<Put("else", "else"), Do("stmt")>>
              [] OTHER -> <<>>

For ==
  CASE Is("(") -> <<Advance, Do("init"), Expect(";"), With("clause", ";"), Expect(";"),
                    With("clause", ")"), Expect(")"), Block>>
    [] Is("IDENT") -> <<Put("each", cur.lex), Advance, Expect("in"), Do("condition"), Block>>
    [] OTHER -> <<Block>>
ForInit ==
  CASE Is(";") -> <<>>
    [] Is("IDENT") /\ Peek(1).type = ":" ->
         <<Put("ident", cur.lex), Advance, Advance, Do("type"), With("initializer", "")>>
    [] Is("IDENT") /\ Peek(1).lex = ":=" ->
         <<Put("ident", cur.lex), Advance, Advance, Expression, Put("var", "")>>
    [] OTHER -> <<Expression>>
ForClause(close) == IF Is(close) THEN <<>> ELSE <<Expression>>
Initializer(line) ==
  IF Is("ASSIGN") THEN <<Advance, Expression>> \o (IF line = "" THEN <<>> ELSE <<Line>>)
                       \o <<Put("var", "")>>
  ELSE <<Fail>>
Const == <<Name("ident"), Do("annotation"), With("initializer", "line")>>
Annotation == IF Is(":") THEN <<Advance, Do("type")>> ELSE <<>>

ReturnValue == IF IsIn({"NEWLINE", "}", "EOF"}) THEN <<>> ELSE <<Expression>>
Deferred    == IF Is("{") THEN <<Block>> ELSE <<Expression, Line>>

Statement ==
  LET keyword == <<Put(cur.lex, cur.lex), Advance>>
  IN  CASE IsIn({"break", "continue"}) -> Append(keyword, Line)
        [] Is("return") -> keyword \o <<Do("returned"), Line, Put("end", "")>>
        [] Is("defer")  -> keyword \o <<Do("deferred"), Put("end", "")>>
        [] Is("if")     -> keyword \o <<Do("condition"), Block, Do("else")>>
        [] Is("switch") -> keyword \o Switch
        [] Is("for")    -> keyword \o <<Do("for")>>
        [] Is("const")  -> keyword \o Const
        [] Is("{")      -> <<Block>>
        [] OTHER        -> <<Expression, Do("assigned")>>

Assigned ==
  CASE last[1] = "ident" /\ Is(":") -> <<Advance, Do("type"), With("initializer", "line")>>
    [] IsIn({"ASSIGN", "+=", "-=", "*=", "/=", "%="}) ->
         <<Advance, Expression, Line,
           IF cur.lex # ":=" THEN Put("assign", cur.lex)
           ELSE IF last[1] = "ident" THEN Put("var", "") ELSE Fail>>
    [] OTHER -> <<Line, Put("do", "")>>

-----------------------------------------------------------------------------
(* Expressions. *)

Levels == <<{"||"}, {"&&"}, {"|"}, {"^"}, {"BIT_AND", "ADDRESS_OF"}, {"==", "!="},
            {"<", ">", "<=", ">="}, {"<<", ">>"}, {"+", "-"}, {"STAR", "DEREF", "/", "%"}>>

Binary(n) == IF n > Len(Levels) THEN <<Do("unary")>>
             ELSE <<<<"binary", n + 1, "">>, <<"operators", n, "">>>>

\* A slip: the operand on the right takes the operators of its own level too.
RightOperators(n) ==
  IF IsIn(Levels[n]) THEN <<Advance, <<"binary", n, "">>, Put("binary", cur.lex)>> ELSE <<>>

Operators(n) ==
  IF IsIn(Levels[n])
  THEN <<Advance, <<"binary", n + 1, "">>, Put("binary", cur.lex), <<"operators", n, "">>>>
  ELSE <<>>

Unary ==
  CASE IsIn({"!", "-", "+", "++", "--", "DEREF", "ADDRESS_OF"}) ->
         <<Advance, Do("unary"), Put("unary", cur.lex)>>
    [] Is("[") /\ Peek(1).type = "]" /\ Peek(2).type = "IDENT" /\ Peek(3).type = "{" ->
         <<Advance, Advance, Name("type"), Expect("{"), Newlines, <<"items", "}", "">>,
           Expect("}"), Put("slice", "[]"), Do("postfix")>>
    [] Is("[") /\ ~(Peek(1).type = "]" /\ Peek(2).type = "IDENT" /\ Peek(3).type = "{") ->
         <<Do("array"), Do("postfix")>>
    [] OTHER -> <<Do("primary")>>

ArrayLiteral == <<Put("[", ""), Expect("["), Newlines, <<"items", "]", "">>, Expect("]"),
                  Put("array", "")>>
Items(close, item) ==
  IF Is(close) THEN <<>>
  ELSE <<Newlines, IF item = "" THEN Expression ELSE Do(item), Newlines,
         <<"more", close, item>>>>
More(close, item) == IF Is(",") THEN <<Advance, Newlines, <<"items", close, item>>>> ELSE <<>>
Field == IF Is("IDENT") /\ Peek(1).type = ":"
         THEN <<Put("init", cur.lex), Advance, Advance, Expression>> ELSE <<Expression>>

Call(path) == <<Put("(", ""), Advance, Newlines, With("args", path), Expect(")"),
                Put("call", "")>>
Args(path) == IF Is(")") THEN <<>>
              ELSE <<Newlines, With("arg", path), Newlines, Do("moreargs")>>
MoreArgs == IF Is(",") THEN <<Advance, Newlines, Expression, Newlines, Do("moreargs")>>
            ELSE <<>>
FirstArg(path) ==
  IF \/ path \in {"cast", ".cast", ".sizeof"} /\ IsIn(TypeStart)
     \/ path \in {".new", ".make"} /\ Is("[") /\ Peek(1).type = "]"
  THEN <<Do("type"), Put("typearg", "")>> ELSE <<Expression>>

Postfix ==
  CASE Is("(") -> Call(last[2]) \o <<Do("postfix")>>
    [] Is("[") -> <<Advance, Expression, Expect("]"), Put("index", ""), Do("postfix")>>
    [] IsIn({"++", "--"}) -> <<Put("postfix", cur.lex), Advance, Do("postfix")>>
    [] Is(".") -> <<Advance, Name("member"), Do("postfix")>>
    [] OTHER -> <<>>

Named(name) ==
  CASE name = "Vec" /\ Is("<") ->
         <<Advance, Do("type"), Do("gt"), Expect("{"), Newlines, Do("capacity"), Expect("}"),
           Put("vec", "Vec")>>
    [] Is("(") -> <<Put("ident", name)>> \o Call(name)
    [] Is("{") /\ suppress = 0 ->
         <<Put("literal", name), Advance, Newlines, <<"items", "}", "field">>, Expect("}"),
           Put("end", "")>>
    [] OTHER -> <<Put("ident", name)>>
Capacity ==
  IF Is("}") THEN <<>>
  ELSE <<IF Word("capacity") THEN Put("capacity", "capacity") ELSE Fail, Match("IDENT"),
         Expect(":"), Expression, Newlines, Do("nomore")>>
NoMore == IF Is(",") THEN <<Advance, Newlines, Do("onlyone")>> ELSE <<>>
OnlyOne == IF Is("}") THEN <<>> ELSE <<Fail>>

\* A slip: the token no expression begins with is left for the caller.
StandingPrimary ==
  CASE IsIn({"INT", "FLOAT", "STRING", "CHAR", "true", "false", "none"}) ->
         <<Put("constant", cur.lex), Advance, Do("postfix")>>
    [] Is("IDENT") -> <<Advance, With("named", cur.lex), Do("postfix")>>
    [] Is("(") -> <<Advance, Expression, Expect(")"), Do("postfix")>>
    [] OTHER -> <<Fail, Put("constant", ""), Do("postfix")>>

Primary ==
  CASE IsIn({"INT", "FLOAT", "STRING", "CHAR", "true", "false", "none"}) ->
         <<Put("constant", cur.lex), Advance, Do("postfix")>>
    [] Is("IDENT") -> <<Advance, With("named", cur.lex), Do("postfix")>>
    [] Is("(") -> <<Advance, Expression, Expect(")"), Do("postfix")>>
    [] Is("byte") -> <<Put("byte", "byte"), Advance, Do("bytes"), Do("postfix")>>
    [] OTHER -> <<Fail, Advance, Put("constant", ""), Do("postfix")>>

Bytes == CASE Is("[") -> <<Do("array")>>
           [] Is("STRING") -> <<Put("constant", cur.lex), Advance>>
           [] OTHER -> <<Fail, Put("constant", "")>>

-----------------------------------------------------------------------------
Goals(g) ==
  CASE g[1] = "program" -> Program        [] g[1] = "decl" -> Decl
    [] g[1] = "declared" -> Declared(g[2]) [] g[1] = "function" -> Function(g[2], g[3])
    [] g[1] = "module" -> Module          [] g[1] = "dotted" -> Dotted
    [] g[1] = "import" -> Import          [] g[1] = "path" -> ImportPath
    [] g[1] = "as" -> ImportAlias         [] g[1] = "struct" -> Struct
    [] g[1] = "fields" -> Fields          [] g[1] = "fieldtype" -> FieldType
    [] g[1] = "inline" -> InlineFields    [] g[1] = "enum" -> Enum
    [] g[1] = "variants" -> Variants      [] g[1] = "value" -> Value
    [] g[1] = "sign" -> Sign
    [] g[1] = "separator" -> Separator    [] g[1] = "alias" -> Alias
    [] g[1] = "equals" -> Equals          [] g[1] = "receiver" -> Receiver
    [] g[1] = "params" -> Params          [] g[1] = "param" -> Param(g[2])
    [] g[1] = "variadic" -> Variadic(g[2]) [] g[1] = "paramtype" -> ParamType(g[2], g[3])
    [] g[1] = "paramend" -> ParamEnd(g[2]) [] g[1] = "skipparams" -> SkipParams
    [] g[1] = "result" -> Result          [] g[1] = "linkname" -> LinkName
    [] g[1] = "body" -> Body(g[2])        [] g[1] = "type" -> Type
    [] g[1] = "pointed" -> Pointed        [] g[1] = "elements" -> Elements
    [] g[1] = "base" -> BaseType
    [] g[1] = "block" -> <<Expect("{"), Put("{", ""), Newlines, Do("stmts"), Expect("}"),
                           Put("}", "")>>
    [] g[1] = "stmts" -> Statements       [] g[1] = "stmt" -> <<Newlines, Do("statement")>>
    [] g[1] = "statement" -> Statement    [] g[1] = "assigned" -> Assigned
    [] g[1] = "cases" -> Cases(g[2])      [] g[1] = "skipped" -> SkippedBlock
    [] g[1] = "condition" -> Condition    [] g[1] = "else" -> Else
    [] g[1] = "otherwise" -> ElseBody     [] g[1] = "for" -> For
    [] g[1] = "init" -> ForInit           [] g[1] = "clause" -> ForClause(g[2])
    [] g[1] = "initializer" -> Initializer(g[2]) [] g[1] = "annotation" -> Annotation
    [] g[1] = "returned" -> ReturnValue   [] g[1] = "deferred" -> Deferred
    [] g[1] = "binary" -> Binary(g[2])    [] g[1] = "operators" -> Operators(g[2])
    [] g[1] = "unary" -> Unary            [] g[1] = "array" -> ArrayLiteral
    [] g[1] = "items" -> Items(g[2], g[3]) [] g[1] = "more" -> More(g[2], g[3])
    [] g[1] = "field" -> Field            [] g[1] = "args" -> Args(g[2])
    [] g[1] = "arg" -> FirstArg(g[2])     [] g[1] = "moreargs" -> MoreArgs
    [] g[1] = "postfix" -> Postfix        [] g[1] = "primary" -> Primary
    [] g[1] = "named" -> Named(g[2])      [] g[1] = "capacity" -> Capacity
    [] g[1] = "nomore" -> NoMore          [] g[1] = "onlyone" -> OnlyOne
    [] g[1] = "bytes" -> Bytes

Primitive == {"expect", "match", "advance", "newlines", "gt", "put", "fail", "suppress",
              "allow"}

Consume ==
  /\ cur' = Read(at + 1) /\ at' = IF at = Len(tokens) THEN at ELSE at + 1
  /\ failed' = (failed \/ Read(at + 1).bad)
Build(label, lex) ==
  /\ tree' = IF failed THEN tree ELSE Append(tree, <<label, lex>>)
  /\ last' = CASE label = "ident" -> <<"ident", lex>>
               [] label = "member" ->
                    <<"member", IF last[2] = "" THEN lex ELSE "." \o lex>>
               [] OTHER -> <<"other", "">>
Pop(g) == stack # <<>> /\ Head(stack)[1] = g /\ stack' = Tail(stack)

Init(source) ==
  /\ tokens = TokenizeAll(source) /\ at = 1 /\ cur = tokens[1] /\ failed = cur.bad
  /\ stack = <<Do("program")>> /\ tree = <<>> /\ last = <<"other", "">> /\ suppress = 0

DoExpect ==
  LET t == Head(stack)[2] label == Head(stack)[3]
  IN  /\ Pop("expect")
      /\ \/ Is(t) /\ Consume
         \/ ~Is(t) /\ failed' = TRUE /\ UNCHANGED <<at, cur>>
      /\ IF label = "" THEN UNCHANGED <<tree, last>>
         ELSE Build(label, IF Is(t) THEN cur.lex ELSE "")
      /\ UNCHANGED <<tokens, suppress>>

DoMatch ==
  /\ Pop("match")
  /\ IF Is(Head(stack)[2]) THEN Consume ELSE UNCHANGED <<at, cur, failed>>
  /\ UNCHANGED <<tokens, tree, last, suppress>>

DoAdvance == Pop("advance") /\ Consume /\ UNCHANGED <<tokens, tree, last, suppress>>

SkipNewlines ==
  /\ stack # <<>> /\ Head(stack) = Newlines
  /\ IF Is("NEWLINE") THEN Consume /\ UNCHANGED stack
     ELSE stack' = Tail(stack) /\ UNCHANGED <<at, cur, failed>>
  /\ UNCHANGED <<tokens, tree, last, suppress>>

\* `>>` closes two types: the first to see it leaves a `>` for the other.
ExpectTypeGt ==
  /\ Pop("gt")
  /\ CASE Is(">") -> Consume
       [] Is(">>") -> cur' = [cur EXCEPT !.type = ">", !.lex = ">"] /\ UNCHANGED <<at, failed>>
       [] OTHER -> failed' = TRUE /\ UNCHANGED <<at, cur>>
  /\ UNCHANGED <<tokens, tree, last, suppress>>

DoPut ==
  /\ Pop("put") /\ Build(Head(stack)[2], Head(stack)[3])
  /\ UNCHANGED <<tokens, at, cur, suppress, failed>>

EmitError == Pop("fail") /\ failed' = TRUE /\ UNCHANGED <<tokens, at, cur, tree, last, suppress>>

Suppress ==
  /\ \/ Pop("suppress") /\ suppress' = suppress + 1
     \/ Pop("allow") /\ suppress' = suppress - 1
  /\ UNCHANGED <<tokens, at, cur, tree, last, failed>>

Expand ==
  /\ stack # <<>> /\ Head(stack)[1] \notin Primitive
  /\ stack' = Goals(Head(stack)) \o Tail(stack)
  /\ UNCHANGED <<tokens, at, cur, tree, last, suppress, failed>>

Step == \/ DoExpect \/ DoMatch \/ DoAdvance \/ SkipNewlines \/ ExpectTypeGt \/ DoPut
        \/ EmitError \/ Suppress \/ Expand
Done == stack = <<>>
=============================================================================
