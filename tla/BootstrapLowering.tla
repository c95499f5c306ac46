------------------------- MODULE BootstrapLowering -------------------------
(***************************************************************************)
(* How the C++ bootstrap compiler lowers the same statements (bootstrap/   *)
(* cpp/src/codegen: scope.cpp, dispatch.cpp, branches, loops, functions,   *)
(* assignment) for the machine of ScopeLowering.  Its picture is a stack   *)
(* of scopes (deferred_scopes), the runtime depth, and for break and       *)
(* continue the scopes to keep and the depth to unwind to.  A return ends  *)
(* the block it is in; after a break or continue the lowering goes on in a *)
(* block nothing reaches.                                                  *)
(***************************************************************************)
EXTENDS ScopeLowering

CONSTANT Bodies  \* function bodies given to the bootstrap compiler

Here(g)  == [frames |-> g.depth + 1, defers |-> Len(FlattenSeq(g.scopes))]
Picture  == [scopes |-> <<<<>>>>, depth |-> 0, breakKeep |-> 0, continueKeep |-> 0,
             breakDepth |-> 0, continueDepth |-> 0, onBreak |-> Outside, onContinue |-> Outside]

\* emit_deferred_scopes_to_depth: innermost scope first, latest statement first.
EmitTo(g, keep) ==
  LET ds == Reverse(FlattenSeq(SubSeq(g.scopes, keep + 1, Len(g.scopes))))
  IN  [i \in DOMAIN ds |-> [op |-> "run", d |-> ds[i]]]

\* emit_runtime_scope_unwind and emit_runtime_function_exit
PopTo(g, depth) == Times(g.depth - depth, Op("pop"))
Exit(g)         == PopTo(g, 0) \o <<Op("pop"), [op |-> "ret", to |-> Outside]>>
Returned(code)  == code # <<>> /\ Last(code).op = "ret"
Emits(g, code)  == [code |-> code, g |-> g]

\* The value is made first and escapes after the deferred statements.
GenReturn(g, s) ==
  LET up == [op |-> "escape", slot |-> "result", levels |-> g.depth + 1]
  IN  (IF s.kind = "none" THEN <<>> ELSE <<[op |-> "new", slot |-> "result"]>>)
      \o EmitTo(g, 0)
      \o (CASE s.kind = "none" -> <<>> [] s.kind = "pointer" -> <<up>>
            [] s.kind = "struct" -> <<up, Op("moveFrame")>>)
      \o Exit(g)

\* escape_rhs_to_target_scope, to a variable of the function's scope.
GenAssign(g) ==
  <<[op |-> "new", slot |-> "outer"]>>
  \o (IF g.depth > 0 THEN <<[op |-> "escape", slot |-> "outer", levels |-> g.depth]>> ELSE <<>>)

\* A slip: the deferred statements emitted before the jump stay emitted for the code after it.
GenBreakForgets(g) ==
  [code |-> EmitTo(g, g.breakKeep) \o PopTo(g, g.breakDepth)
            \o <<[op |-> "jump", kind |-> "break", to |-> g.onBreak]>>,
   g    |-> [g EXCEPT !.scopes = [i \in DOMAIN @ |-> IF i > g.breakKeep THEN <<>> ELSE @[i]]]]

\* deferred_scopes is put back after the jump.
GenBreak(g) ==
  Emits(g, EmitTo(g, g.breakKeep) \o PopTo(g, g.breakDepth)
           \o <<[op |-> "jump", kind |-> "break", to |-> g.onBreak]>>)

GenContinue(g) ==
  Emits(g, EmitTo(g, g.continueKeep) \o PopTo(g, g.continueDepth)
           \o <<[op |-> "jump", kind |-> "continue", to |-> g.onContinue]>>)

\* codegen_switchstmt: a case has no scope of its own.
SwitchPicture(g) == [g EXCEPT !.breakKeep = Len(g.scopes), !.breakDepth = g.depth, !.onBreak = Here(g)]

LoopPicture(g) ==
  [SwitchPicture(g) EXCEPT !.continueKeep = Len(g.scopes), !.continueDepth = g.depth,
                           !.onContinue = Here(g)]

RECURSIVE Gen(_, _), GenStmts(_, _)

GenStmts(g, body) ==
  IF body = <<>> THEN Emits(g, <<>>)
  ELSE LET first == Gen(g, Head(body))
       IN  IF Returned(first.code) THEN first
           ELSE LET rest == GenStmts(first.g, Tail(body))
                IN  Emits(rest.g, first.code \o rest.code)

\* push_scope, a body, pop_scope; the frame of a standalone block around them.
Scoped(g, body, owns) ==
  LET inner == [g EXCEPT !.scopes = Append(@, <<>>), !.depth = IF owns THEN @ + 1 ELSE @]
      block == GenStmts(inner, body)
      after == [g EXCEPT !.scopes = SubSeq(block.g.scopes, 1, Len(@))]
  IN  Emits(after,
            (IF owns THEN <<Op("push")>> ELSE <<>>) \o block.code
            \o (IF Returned(block.code) THEN <<>>
                ELSE EmitTo(block.g, Len(g.scopes)) \o (IF owns THEN <<Op("pop")>> ELSE <<>>)
                     \o <<[op |-> "leave", to |-> Here(g)]>>))

GenDefer(g, s) ==
  Emits([g EXCEPT !.scopes = Append(Front(@), Append(Last(@), s.d))], <<[op |-> "note", d |-> s.d]>>)

GenIf(g, s) ==
  LET arm == Scoped(g, s.body, FALSE)
  IN  Emits(arm.g, <<[op |-> "if", yes |-> arm.code]>>)

\* A loop of any kind: its body has a scope, its variables and conditions have none.
Loop(g, body, ends) ==
  LET loop == Scoped(LoopPicture(g), body, FALSE)
  IN  Emits([g EXCEPT !.scopes = loop.g.scopes],
            <<[op |-> "for", ends |-> ends, body |-> loop.code]>>)

\* for { }: only a break or return leaves it.
GenForever(g, s) == Loop(g, s.body, FALSE)
\* for x in e, until the characters, elements or numbers of e are exhausted
GenForIn(g, s) == Loop(g, s.body, TRUE)
\* for (init; condition; post)
GenFor(g, s) == Loop(g, s.body, TRUE)

GenSwitch(g, s) ==
  LET case == GenStmts(SwitchPicture(g), s.body)
  IN  Emits([g EXCEPT !.scopes = case.g.scopes], <<[op |-> "switch", case |-> case.code]>>)

Gen(g, s) ==
  CASE s.op = "defer"    -> GenDefer(g, s)
    [] s.op = "block"    -> Scoped(g, s.body, TRUE)
    [] s.op = "if"       -> GenIf(g, s)
    [] s.op = "for"      -> GenFor(g, s)
    [] s.op = "for in"   -> GenForIn(g, s)
    [] s.op = "forever"  -> GenForever(g, s)
    [] s.op = "switch"   -> GenSwitch(g, s)
    [] s.op = "break"    -> GenBreak(g)
    [] s.op = "continue" -> GenContinue(g)
    [] s.op = "return"   -> Emits(g, GenReturn(g, s))
    [] s.op = "assign"   -> Emits(g, GenAssign(g))

\* codegen_function_decl
GenFunction(body) ==
  LET block == GenStmts(Picture, body)
  IN  <<Op("push")>> \o block.code
      \o (IF Returned(block.code) THEN <<>> ELSE EmitTo(block.g, 0) \o Exit(block.g))

BothInit ==
  \/ Init
  \/ /\ \E body \in Bodies : work = GenFunction(body)
     /\ frames = 0 /\ pending = <<>> /\ turns = 0
     /\ store = [outer |-> Absent, result |-> Absent]

BothSpec == BothInit /\ [][Next]_vars
=============================================================================
