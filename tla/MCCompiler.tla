----------------------------- MODULE MCCompiler -----------------------------
(* The C++ bootstrap compiler for TLC: a behaviour is one file of           *)
(* MCFrontEnd read by lexer and parser, or commands of MCBuild given one   *)
(* after the other.  The two share no state.                               *)
EXTENDS MCBuild

CONSTANTS Written, Damaged, Junk, Forms, Gaps, None, Error
VARIABLES part, tokens, at, cur, stack, entries, last, suppress, rejected, intended

Reader    == INSTANCE MCFrontEnd WITH tree <- entries, failed <- rejected
parseVars == <<tokens, at, cur, stack, entries, last, suppress, rejected, intended>>
compiler  == <<part, vars, parseVars>>

\* The constants, from an instance of their module in which they are not used.
Phrases == INSTANCE MCFrontEnd WITH
  tree <- entries, failed <- rejected,
  Written <- {}, Damaged <- {}, Junk <- {}, Forms <- <<>>, Gaps <- {}
FrontWritten == Phrases!MCWritten
FrontDamaged == Phrases!MCDamaged
FrontJunk    == Phrases!MCJunk
FrontForms   == Phrases!MCForms
FrontGaps    == Phrases!MCGaps

NoFile ==
  /\ tokens = <<>> /\ at = 1 /\ cur = None /\ stack = <<>> /\ entries = <<>> /\ last = None
  /\ suppress = 0 /\ rejected = FALSE /\ intended = None
NoCommand ==
  /\ tree = Nothing /\ args = <<>> /\ stage = "off" /\ base = "merged" /\ out = <<>>
  /\ disk = <<>> /\ status = 0 /\ ran = 0 /\ builds = 0
  /\ world = Nothing /\ phase = "idle" /\ given = <<>> /\ modules = <<>> /\ owner = <<>>
  /\ failed = FALSE /\ changed = TRUE /\ sweep = {} /\ visit = NoVisit /\ bound = <<>>

CompilerInit ==
  \/ part = "parse" /\ Reader!FrontEndInit /\ NoCommand
  \/ part = "build" /\ DriverInit /\ NoFile

Parses    == part = "parse" /\ Reader!Next /\ UNCHANGED <<part, vars>>
Builds    == part = "build" /\ Working /\ UNCHANGED <<part, parseVars>>
Commanded == part = "build" /\ NextCommand /\ UNCHANGED <<part, parseVars>>
CompilerNext == Parses \/ Builds \/ Commanded

CompilerSpec ==
  /\ CompilerInit /\ [][CompilerNext]_compiler
  /\ WF_compiler(Parses) /\ WF_compiler(Builds)

\* A file written from a tree is read back as that tree, whatever the space between its words
\* (FrontEnd: parse_expression with its levels, the readings of `*`, `&`, `>>` and `{`).
ReadsBack == Reader!ReadsBack

\* A file that is accepted, damaged or not, keeps all its names, literals and operators in the
\* tree (FrontEnd: the parser's recovery).
NothingDropped == Reader!NothingDropped

\* The parser ends on every file but those whose struct or enum holds a token that nothing
\* takes (FrontEnd: its loops).
ParseEnds == Reader!ParseEnds
=============================================================================
