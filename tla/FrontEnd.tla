------------------------------ MODULE FrontEnd ------------------------------
(***************************************************************************)
(* The lexer and parser of the C++ bootstrap compiler reading one file     *)
(* (Lexer.tla, Parser.tla), and what they owe the source.  The files they  *)
(* read are written here from trees: a phrase is the words of a piece of   *)
(* source with the entries it means, so a file comes with the tree a       *)
(* reader of the language expects of it.  Other files are such files with  *)
(* a word lost or replaced.                                                *)
(***************************************************************************)
EXTENDS Parser, SequencesExt, FiniteSetsExt

CONSTANTS
  Written,   \* phrases the files are written from
  Damaged,   \* phrases whose damaged versions are read too
  Junk,      \* words that replace one of theirs
  Forms,     \* the symbols of literals and other words of several
  Gaps,      \* what stands between two words: nothing, a blank, a comment
  None,      \* no tree in particular is intended
  Error      \* nor may there be one

VARIABLES intended

-----------------------------------------------------------------------------
(* Phrases. *)

Phrase(s, o) == [s |-> s, o |-> o, n |-> 12]
W(label, w) == Phrase(<<w>>, <<<<label, w>>>>)
T(w)        == Phrase(<<w>>, <<>>)
Mark(label, w) == Phrase(<<>>, <<<<label, w>>>>)
Cat(ps)     == Phrase(FlattenSeq([i \in DOMAIN ps |-> ps[i].s]),
                      FlattenSeq([i \in DOMAIN ps |-> ps[i].o]))

Spelling == <<<<"||">>, <<"&&">>, <<"|">>, <<"^">>, <<"&">>, <<"==", "!=">>, <<"<", ">", "<=">>,
              <<"<<", ">>">>, <<"+", "-">>, <<"*", "/">>>>
Operands(n, e) == IF e.n >= n THEN e ELSE Cat(<<T("("), e, T(")")>>)
Bin(n, k, l, r) ==
  [Cat(<<Operands(n, l), T(Spelling[n][k]), Operands(n + 1, r), Mark("binary", Spelling[n][k])>>)
     EXCEPT !.n = n]
Un(op, e) == [Cat(<<T(op), Operands(11, e), Mark("unary", op)>>) EXCEPT !.n = 11]
Of(e)     == Operands(12, e)

\* The symbols of a phrase: words keep apart where they would read as one.
Pairs == [w \in Double |-> CHOOSE p \in Single \X Single : p[1] \o p[2] = w]
Symbols(w) == IF w \in Double THEN Pairs[w]
              ELSE IF w \in DOMAIN Forms THEN Forms[w] ELSE <<w>>
Fused(a, b) ==
  LET c == Symbols(a)[Len(Symbols(a))] d == Symbols(b)[1]
  IN  \/ c \o d \in Double \cup {"//", "/*"} /\ ~(a = ">" /\ b = ">")
      \/ (IsIdentStart(c) \/ c \in Digit) /\ (IsIdentStart(d) \/ d \in Digit)
Spelled(ws, gap) ==
  FlattenSeq([i \in DOMAIN ws |->
    IF i = 1 THEN Symbols(ws[1])
    ELSE (IF gap # <<>> THEN gap ELSE IF Fused(ws[i - 1], ws[i]) THEN <<" ">> ELSE <<>>)
         \o Symbols(ws[i])])

\* A prefix `*` or `&` is not one when a comment stands between it and its operand.
Readable(ws, gap) ==
  gap \in {<<>>, <<" ">>} \/ \A i \in DOMAIN ws : ws[i] \notin {"*", "&"}

Damages(ws) ==
  {[ws EXCEPT ![i] = w] : i \in DOMAIN ws, w \in Junk} \cup {RemoveAt(ws, i) : i \in DOMAIN ws}

-----------------------------------------------------------------------------
FrontEndInit ==
  \/ \E e \in Written, gap \in Gaps :
       /\ Readable(e.s, gap)
       /\ Init(Spelled(e.s, gap)) /\ intended = e.o
  \/ \E e \in Damaged : \E ws \in Damages(e.s) : Init(Spelled(ws, <<>>)) /\ intended = None

Next == Step /\ UNCHANGED intended

Spec == FrontEndInit /\ [][Next]_<<vars, intended>> /\ WF_<<vars, intended>>(Next)

-----------------------------------------------------------------------------
\* A file written from a tree is accepted and read back as that tree, however little
\* space stands between its words: precedence and grouping, the prefix and infix
\* readings of `*` and `&`, `>>` that closes two types, and which `{` begins a block; a
\* literal that is not closed or not well formed is an error.
ReadsBack ==
  Done => CASE intended = None -> TRUE
            [] intended = Error -> failed
            [] OTHER -> ~failed /\ tree = intended

Counted == {"IDENT", "INT", "FLOAT", "STRING", "CHAR", "!", "++", "--"}
           \cup UNION {Levels[n] : n \in DOMAIN Levels}
Uses(type, lex) == IF type = "IDENT" THEN lex # "owned" ELSE type \in Counted

\* The angle brackets of types are not operators: their number is that of the types.
Brackets == {"<", ">", ">>"}

\* What is accepted is kept: every name, literal and operator of a file that is compiled
\* stands in its tree as often as in the file.
NothingDropped ==
  Done /\ ~failed =>
    LET words  == {tokens[i].lex : i \in {j \in DOMAIN tokens : Uses(tokens[j].type,
                                                                    tokens[j].lex)}}
    IN  \A w \in words \ Brackets :
          Cardinality({i \in DOMAIN tokens : tokens[i].lex = w})
            = Cardinality({i \in DOMAIN tree : tree[i][2] = w})

\* The body of a struct or an enum stands at a token that nothing in its loop takes.
Stuck ==
  /\ stack # <<>>
  /\ \/ Head(stack)[1] \in {"fields", "inline"} /\ ~IsIn(TypeStart \cup {"struct"})
     \/ Head(stack)[1] = "variants" /\ ~IsIn({"IDENT", "ASSIGN", ","})
  /\ InBody

\* The parser comes to an end on every file, whatever its errors, but for the bodies of
\* structs and enums that hold a token no field or variant can begin with.
ParseEnds == <>(Done \/ Stuck)

\* The grammar's field_decl may be `pub`; the parser ends on every file all the same.
EveryParseEnds == <>Done
=============================================================================
