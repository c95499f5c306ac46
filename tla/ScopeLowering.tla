--------------------------- MODULE ScopeLowering ---------------------------
(***************************************************************************)
(* How the self-hosted compiler lowers blocks, loops, switch, break,       *)
(* continue, return and defer (compiler/ycpl/src/codegen/backend.yc), and  *)
(* what the lowered function does when it runs.  The backend keeps a       *)
(* static picture of the scopes at the point it emits: the deferred        *)
(* statements, the depth of runtime frames and where a break or continue   *)
(* would land.  Every exit unrolls that picture into the code before the   *)
(* jump.  Whether the unrolled code does at run time what the source       *)
(* promises, on every path, is the question here.                          *)
(*                                                                         *)
(* A program is a tree of statements, lowered code a sequence of           *)
(* instructions.  The instructions "note" and "leave" emit nothing: they   *)
(* mark in the code where the source registers a deferred statement and    *)
(* where it leaves a block.                                                *)
(***************************************************************************)
EXTENDS Integers, Sequences, SequencesExt

CONSTANTS
  Programs,  \* function bodies: the sequences of statements to lower
  MaxTurns   \* bound: iterations a run may start, over all its loops

VARIABLES
  work,     \* the instructions still to execute, nearest first
  frames,   \* runtime frames this function has pushed
  pending,  \* deferred statements reached and not yet run, oldest first
  store,    \* frame of the value in an outer binding and of the result
  turns     \* iterations started

vars == <<work, frames, pending, store, turns>>

\* A value is absent, freed, or linked into a frame: 0 is the caller's.
Absent == -1
Freed  == -2

-----------------------------------------------------------------------------
(* Lowering.  b is the backend's picture: depth (runtime_depth), defers    *)
(* (the first defer_len slots), mark (loop_defer_mark), breakDepth and     *)
(* continueDepth.  onBreak and onContinue are the source's: how many       *)
(* frames are open and how many statements deferred where the jump lands.  *)

Place(b) == [frames |-> b.depth + 1, defers |-> Len(b.defers)]
Outside  == [frames |-> 0, defers |-> 0]

Backend == [depth |-> 0, defers |-> <<>>, mark |-> 0, breakDepth |-> 0, continueDepth |-> 0,
            onBreak |-> Outside, onContinue |-> Outside]

Op(op)      == [op |-> op]
Times(n, i) == [k \in 1 .. n |-> i]

\* llvm.block_has_terminator: nothing more is emitted after a jump.
Terminated(code) == code # <<>> /\ Last(code).op \in {"jump", "ret"}

\* A slip: the deferred statements in the order they were written.
EmitDefersForward(b, mark) ==
  [i \in 1 .. Len(b.defers) - mark |-> [op |-> "run", d |-> b.defers[mark + i]]]

\* emit_defers: the deferred statements above a mark, latest first.
EmitDefers(b, mark) ==
  [i \in 1 .. Len(b.defers) - mark |->
     [op |-> "run", d |-> b.defers[Len(b.defers) + 1 - i]]]

\* emit_scope_unwind
Unwind(b, target) == Times(b.depth - target, Op("pop"))

\* emit_function_cleanup: the frames of the open blocks and the function's.
Cleanup(b) == Times(b.depth + 1, Op("pop"))

\* A slip: the levels of the open blocks only, not the function's own.
EscapeReturnShort(b, kind) ==
  IF kind = "pointer" THEN <<[op |-> "escape", slot |-> "result", levels |-> b.depth]>>
  ELSE IF kind = "struct" THEN Times(b.depth + 1, Op("moveFrame")) ELSE <<>>

\* escape_return_value
EscapeReturn(b, kind) ==
  CASE kind = "none"    -> <<>>
    [] kind = "pointer" -> <<[op |-> "escape", slot |-> "result", levels |-> b.depth + 1]>>
    [] kind = "struct"  -> Times(b.depth + 1, Op("moveFrame"))

LowerReturn(b, s) ==
  EmitDefers(b, 0)
  \o (IF s.kind = "none" THEN <<>> ELSE <<[op |-> "new", slot |-> "result"]>>)
  \o EscapeReturn(b, s.kind) \o Cleanup(b) \o <<[op |-> "ret", to |-> Outside]>>

\* Assignment of a fresh managed value to a variable of the function's scope.
LowerAssign(b, s) ==
  <<[op |-> "new", slot |-> "outer"]>>
  \o (IF s.kind = "pointer" /\ b.depth > 0
      THEN <<[op |-> "escape", slot |-> "outer", levels |-> b.depth]>> ELSE <<>>)

LowerBreak(b) ==
  EmitDefers(b, b.mark) \o Unwind(b, b.breakDepth)
  \o <<[op |-> "jump", kind |-> "break", to |-> b.onBreak]>>

LowerContinue(b) ==
  EmitDefers(b, b.mark) \o Unwind(b, b.continueDepth)
  \o <<[op |-> "jump", kind |-> "continue", to |-> b.onContinue]>>

InLoop(b) ==
  [b EXCEPT !.mark = Len(b.defers), !.breakDepth = b.depth, !.continueDepth = b.depth,
            !.onBreak = Place(b), !.onContinue = Place(b)]

\* A switch takes over the breaks of the loop around it, but not its mark.
InSwitch(b) == [b EXCEPT !.breakDepth = b.depth, !.onBreak = Place(b)]

RECURSIVE LowerBlock(_, _, _), LowerStmts(_, _), Lower(_, _)

\* A block, with a frame of its own when it stands alone.
LowerBlock(b, body, owns) ==
  LET inner == IF owns THEN [b EXCEPT !.depth = @ + 1] ELSE b
      code  == LowerStmts(inner, body)
  IN  (IF owns THEN <<Op("push")>> ELSE <<>>) \o code.code
      \o (IF Terminated(code.code) THEN <<>>
          ELSE EmitDefers(code.b, Len(b.defers))
               \o (IF owns THEN <<Op("pop")>> ELSE <<>>)
               \o <<[op |-> "leave", to |-> Place(b)]>>)

\* Statements in order; a deferred statement only changes the picture.
LowerStmts(b, body) ==
  IF body = <<>> THEN [code |-> <<>>, b |-> b]
  ELSE LET s     == Head(body)
           first == Lower(b, s)
           next  == IF s.op = "defer" THEN [b EXCEPT !.defers = Append(@, s.d)] ELSE b
       IN  IF Terminated(first) THEN [code |-> first, b |-> b]
           ELSE LET rest == LowerStmts(next, Tail(body))
                IN  [code |-> first \o rest.code, b |-> rest.b]

Lower(b, s) ==
  CASE s.op = "defer"    -> <<[op |-> "note", d |-> s.d]>>
    [] s.op = "block"    -> LowerBlock(b, s.body, TRUE)
    [] s.op = "if"       -> <<[op |-> "if", yes |-> LowerBlock(b, s.body, FALSE)]>>
    [] s.op = "for"      -> <<[op |-> "for", ends |-> TRUE,
                              body |-> LowerBlock(InLoop(b), s.body, FALSE)]>>
    [] s.op = "switch"   -> <<[op |-> "switch", case |-> LowerBlock(InSwitch(b), s.body, FALSE)]>>
    [] s.op = "break"    -> LowerBreak(b)
    [] s.op = "continue" -> LowerContinue(b)
    [] s.op = "return"   -> LowerReturn(b, s)
    [] s.op = "assign"   -> LowerAssign(b, s)

\* emit_functions: the frame of the function, its body, its cleanup.
LowerFunction(body) ==
  LET code == <<Op("push")>> \o LowerBlock(Backend, body, FALSE)
  IN  IF Terminated(code) THEN code
      ELSE code \o Cleanup(Backend) \o <<[op |-> "ret", to |-> Outside]>>

-----------------------------------------------------------------------------
(* Running the lowered function.                                           *)

Init ==
  /\ \E p \in Programs : work = LowerFunction(p)
  /\ frames = 0 /\ pending = <<>> /\ turns = 0
  /\ store = [outer |-> Absent, result |-> Absent]

Ready(op) == work # <<>> /\ Head(work).op = op

FramePush ==
  /\ Ready("push")
  /\ frames' = frames + 1 /\ work' = Tail(work)
  /\ UNCHANGED <<pending, store, turns>>

FramePop ==
  /\ Ready("pop")
  /\ frames' = frames - 1 /\ work' = Tail(work)
  /\ store' = [x \in DOMAIN store |-> IF store[x] = frames THEN Freed ELSE store[x]]
  /\ UNCHANGED <<pending, turns>>

New ==
  /\ Ready("new")
  /\ store' = [store EXCEPT ![Head(work).slot] = frames] /\ work' = Tail(work)
  /\ UNCHANGED <<frames, pending, turns>>

\* yc_move_to_ancestor; the caller's frame is the furthest this model sees.
Escape ==
  /\ Ready("escape")
  /\ LET target == IF Head(work).levels >= frames THEN 0 ELSE frames - Head(work).levels
     IN  store' = [store EXCEPT ![Head(work).slot] = IF @ > target THEN target ELSE @]
  /\ work' = Tail(work)
  /\ UNCHANGED <<frames, pending, turns>>

\* yc_move_frame_to_parent
MoveFrame ==
  /\ Ready("moveFrame")
  /\ store' = [x \in DOMAIN store |-> IF store[x] = frames THEN frames - 1 ELSE store[x]]
  /\ work' = Tail(work)
  /\ UNCHANGED <<frames, pending, turns>>

\* The source reaches a defer statement.
Note ==
  /\ Ready("note")
  /\ pending' = Append(pending, Head(work).d) /\ work' = Tail(work)
  /\ UNCHANGED <<frames, store, turns>>

Run ==
  /\ Ready("run")
  /\ pending' = IF pending = <<>> THEN <<>> ELSE Front(pending)
  /\ work' = Tail(work)
  /\ UNCHANGED <<frames, store, turns>>

Leave ==
  /\ Ready("leave")
  /\ work' = Tail(work)
  /\ UNCHANGED <<frames, pending, store, turns>>

\* Either way; the arms of an if or the cases of a switch lower alike.
If ==
  /\ Ready("if")
  /\ work' \in {Head(work).yes \o Tail(work), Tail(work)}
  /\ UNCHANGED <<frames, pending, store, turns>>

Switch ==
  /\ Ready("switch")
  /\ work' \in {Head(work).case \o <<Op("done")>> \o Tail(work), Tail(work)}
  /\ UNCHANGED <<frames, pending, store, turns>>

For ==
  /\ Ready("for")
  /\ work' = <<[Head(work) EXCEPT !.op = "again"]>> \o Tail(work)
  /\ UNCHANGED <<frames, pending, store, turns>>

Done ==
  /\ Ready("done")
  /\ work' = Tail(work)
  /\ UNCHANGED <<frames, pending, store, turns>>

\* The loop's condition, if it has one: another turn, or on to what follows.
Again ==
  /\ Ready("again")
  /\ \/ Head(work).ends /\ work' = Tail(work) /\ turns' = turns
     \/ turns < MaxTurns /\ turns' = turns + 1 /\ work' = Head(work).body \o work
  /\ UNCHANGED <<frames, pending, store>>

\* A break lands behind the nearest loop or switch, a continue at its loop.
Jump ==
  /\ Ready("jump")
  /\ work' = IF Head(work).kind = "break"
             THEN SubSeq(work, SelectInSeq(work, LAMBDA i : i.op \in {"again", "done"}) + 1, Len(work))
             ELSE SubSeq(work, SelectInSeq(work, LAMBDA i : i.op = "again"), Len(work))
  /\ UNCHANGED <<frames, pending, store, turns>>

Return ==
  /\ Ready("ret")
  /\ work' = <<>>
  /\ UNCHANGED <<frames, pending, store, turns>>

\* The function has returned, or the bound keeps a loop from another turn.
Stop == (work = <<>> \/ (Ready("again") /\ turns = MaxTurns)) /\ UNCHANGED vars

Next ==
  \/ FramePush \/ FramePop \/ New \/ Escape \/ MoveFrame
  \/ Note \/ Run \/ Leave \/ If \/ Switch \/ For \/ Done \/ Again \/ Jump \/ Return
  \/ Stop

Spec == Init /\ [][Next]_vars

-----------------------------------------------------------------------------
Exits == {"leave", "jump", "ret"}

\* A deferred statement runs only if it was reached and has not run yet, the
\* latest first (emit_defers against the marks of break, continue and return).
DefersInOrder == Ready("run") => pending # <<>> /\ Last(pending) = Head(work).d

\* Whichever way a block, a loop or the function is left, every statement
\* deferred inside it has run, and none deferred outside it.
DefersAllRun == work # <<>> /\ Head(work).op \in Exits => Len(pending) = Head(work).to.defers

\* Every exit has popped the frames of the blocks it leaves and no others.
FramesBalanced == work # <<>> /\ Head(work).op \in Exits => frames = Head(work).to.frames

\* Both: an exit leaves the deferred statements and the frames of the blocks
\* it leaves behind, and touches no others.
ExitsExact == DefersAllRun /\ FramesBalanced

\* While the function's frame is there, the value of one of its variables is:
\* an assignment inside a standalone block escapes to the variable's frame.
OuterValueLives == frames > 0 => store.outer # Freed

\* A returned value outlives the frames the return pops.
ResultLives == store.result # Freed

\* Both: no value that somebody can still reach is freed with a block.
ValuesLive == OuterValueLives /\ ResultLives
=============================================================================
