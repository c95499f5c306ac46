------------------------------- MODULE Lexer -------------------------------
(***************************************************************************)
(* The lexer of the C++ bootstrap compiler (bootstrap/cpp/src/lexer/       *)
(* lexer.cpp) as functions of the source and a position in it.             *)
(*                                                                         *)
(* A source is a sequence of symbols: a symbol is one character, except    *)
(* that a word (an identifier or keyword) is one symbol whatever its       *)
(* length, and the backquote is the symbol "raw".  A token carries its     *)
(* type, its lexeme, the position after it and whether reading it reported *)
(* an error.  Types are the lexer's own where two of them share a          *)
(* spelling, and the spelling elsewhere.                                   *)
(***************************************************************************)
EXTENDS Naturals, Sequences, FiniteSets

Blank    == {" ", "\t", "\r"}
Digit    == {"0", "1", "2", "7", "8", "9"}
HexDigit == Digit \cup {"a", "b", "e", "f"}
Quote    == {"\"", "raw", "'"}
Single   == {"(", ")", "{", "}", "[", "]", ",", ".", ":", ";", "?", "+", "-", "*",
             "/", "%", "^", "&", "|", "!", "~", "=", "<", ">"}
Double   == {":=", "+=", "++", "-=", "->", "--", "*=", "/=", "%=", "&&", "||", "!=",
             "==", "=>", "<=", "<<", ">=", ">>"}
Illegal  == {"#", "@", "$"}
Keyword  == {"module", "package", "import", "pub", "extern", "intrinsic", "fn",
             "struct", "enum", "const", "if", "else", "for", "in", "return", "break",
             "continue", "as", "switch", "true", "false", "none", "type", "defer", "byte"}

At(s, p) == IF p <= Len(s) THEN s[p] ELSE ""
IsIdentStart(c) ==
  c \notin Blank \cup Digit \cup Quote \cup Single \cup Illegal \cup {"", "\n", "\\"}

SpanEnd(s, p, S) == CHOOSE q \in p .. Len(s) + 1 :
                      /\ At(s, q) \notin S
                      /\ \A r \in p .. q - 1 : s[r] \in S

-----------------------------------------------------------------------------
RECURSIVE CommentEnd(_, _, _)
CommentEnd(s, p, depth) ==
  CASE depth = 0 -> [at |-> p, bad |-> FALSE]
    [] depth > 0 /\ p > Len(s) -> [at |-> p, bad |-> TRUE]
    [] OTHER -> CASE At(s, p) = "/" /\ At(s, p + 1) = "*" -> CommentEnd(s, p + 2, depth + 1)
                  [] At(s, p) = "*" /\ At(s, p + 1) = "/" -> CommentEnd(s, p + 2, depth - 1)
                  [] OTHER -> CommentEnd(s, p + 1, depth)

\* Where the next token begins, and whether a line or an open comment ended before it.
RECURSIVE Skipped(_, _, _)
Skipped(s, p, newline) ==
  CASE At(s, p) \in Blank -> Skipped(s, p + 1, newline)
    [] At(s, p) = "\n" -> Skipped(s, p + 1, TRUE)
    [] At(s, p) = "/" /\ At(s, p + 1) = "/" ->
         Skipped(s, CHOOSE q \in p .. Len(s) + 1 :
                      /\ At(s, q) \in {"\n", ""}
                      /\ \A r \in p .. q - 1 : s[r] # "\n", newline)
    [] At(s, p) = "/" /\ At(s, p + 1) = "*" ->
         LET end == CommentEnd(s, p + 2, 1) rest == Skipped(s, end.at, newline)
         IN  [rest EXCEPT !.bad = @ \/ end.bad]
    [] OTHER -> [at |-> p, newline |-> newline, bad |-> FALSE]

\* peek_nonspace_char: comments are not skipped.
NonSpace(s, p) == At(s, SpanEnd(s, p, Blank \cup {"\n"}))

-----------------------------------------------------------------------------
Token(type, lex, next, bad) == [type |-> type, lex |-> lex, next |-> next, bad |-> bad]

Number(s, p) ==
  LET Prefixed(letters) == At(s, p) = "0" /\ At(s, p + 1) \in letters
      whole    == SpanEnd(s, p, Digit)
      fraction == IF At(s, whole) = "." /\ At(s, whole + 1) \in Digit
                  THEN SpanEnd(s, whole + 1, Digit) ELSE whole
      exponent == At(s, fraction) \in {"e", "E"}
      digits   == IF At(s, fraction + 1) \in {"+", "-"} THEN fraction + 2 ELSE fraction + 1
  IN  CASE Prefixed({"x", "X"}) -> Token("INT", "INT", SpanEnd(s, p + 2, HexDigit), FALSE)
        [] Prefixed({"b", "B"}) -> Token("INT", "INT", SpanEnd(s, p + 2, {"0", "1"}), FALSE)
        [] Prefixed(Digit) ->
             Token("INT", "INT", whole, \E q \in p .. whole - 1 : s[q] \in {"8", "9"})
        [] OTHER ->
             IF exponent
             THEN Token("FLOAT", "FLOAT", SpanEnd(s, digits, Digit), At(s, digits) \notin Digit)
             ELSE IF fraction > whole THEN Token("FLOAT", "FLOAT", fraction, FALSE)
             ELSE Token("INT", "INT", whole, FALSE)

RECURSIVE StringEnd(_, _)
StringEnd(s, p) ==
  CASE p > Len(s) -> Token("ILLEGAL", "STRING", Len(s) + 1, TRUE)
    [] p <= Len(s) /\ At(s, p) = "\"" -> Token("STRING", "STRING", p + 1, FALSE)
    [] OTHER -> StringEnd(s, IF At(s, p) = "\\" THEN p + 2 ELSE p + 1)

RawStringEnd(s, p) ==
  LET close == {q \in p .. Len(s) : s[q] = "raw"}
  IN  IF close = {} THEN Token("ILLEGAL", "STRING", Len(s) + 1, TRUE)
      ELSE Token("STRING", "STRING", 1 + CHOOSE q \in close : \A r \in close : q <= r, FALSE)

Character(s, p) ==
  LET after == IF At(s, p + 1) = "\\" THEN p + 3 ELSE p + 2
      close == CHOOSE q \in after .. Len(s) + 1 :
                 At(s, q) \in {"'", ""} /\ \A r \in after .. q - 1 : s[r] # "'"
  IN  IF after > Len(s) + 1 THEN Token("ILLEGAL", "CHAR", Len(s) + 1, TRUE)
      ELSE Token("CHAR", "CHAR", IF close > Len(s) THEN close ELSE close + 1,
                 At(s, after) # "'")

\* `*` and `&` are prefixes when what follows could be an operand.
Operator(s, p) ==
  LET c == At(s, p)  cc == c \o At(s, p + 1)
      prefix == LET n == NonSpace(s, p + 1)
                IN  IsIdentStart(n) \/ n \in {"*", "&", "(", "["}
  IN  CASE c = "." /\ At(s, p + 1) = "." /\ At(s, p + 2) = "." ->
             Token("...", "...", p + 3, FALSE)
        [] cc \in Double -> Token(IF cc = ":=" THEN "ASSIGN" ELSE cc, cc, p + 2, FALSE)
        [] c = "=" /\ cc \notin Double -> Token("ASSIGN", c, p + 1, FALSE)
        [] c = "*" /\ cc \notin Double ->
             Token(IF prefix THEN "DEREF" ELSE "STAR", c, p + 1, FALSE)
        [] c = "&" /\ cc \notin Double ->
             Token(IF prefix THEN "ADDRESS_OF" ELSE "BIT_AND", c, p + 1, FALSE)
        [] OTHER -> Token(c, c, p + 1, FALSE)

\* identifier_or_keyword
Identifier(s, p) == Token(IF s[p] \in Keyword THEN s[p] ELSE "IDENT", s[p], p + 1, FALSE)

Scanned(s, p) ==
  LET c == At(s, p)
  IN  CASE c \in Single -> Operator(s, p)
        [] c \in Digit -> Number(s, p)
        [] c = "\"" -> StringEnd(s, p + 1)
        [] c = "raw" -> RawStringEnd(s, p + 1)
        [] c = "'" -> Character(s, p)
        [] IsIdentStart(c) -> Identifier(s, p)
        [] OTHER -> Token("ILLEGAL", c, p + 1, TRUE)

\* All the blank lines before a token make one NEWLINE.
NextToken(s, p) ==
  LET gap == Skipped(s, p, FALSE)
      t   == IF gap.newline THEN Token("NEWLINE", "", gap.at, FALSE)
             ELSE IF gap.at > Len(s) THEN Token("EOF", "", gap.at, FALSE)
             ELSE Scanned(s, gap.at)
  IN  [t EXCEPT !.bad = @ \/ gap.bad]

TokenizeAll(s) ==
  LET from[p \in 1 .. Len(s) + 1] ==
        LET t == NextToken(s, p) IN IF t.type = "EOF" THEN <<t>> ELSE <<t>> \o from[t.next]
  IN  from[1]
=============================================================================
