------------------------------ MODULE Vectors ------------------------------
(***************************************************************************)
(* What the two compilers make of the operations on Vec<T>: the calls of   *)
(* the managed-memory runtime in the generated code, in their order        *)
(* (bootstrap/cpp/src/codegen/arrays and assignment, and the self-hosted   *)
(* backend.yc), over the blocks of Ownership.  A vector is a header block  *)
(* that owns its data block and the managed elements in it.                *)
(*                                                                         *)
(* A statement is lowered to steps: one call of the runtime each, or a few *)
(* loads and stores.  "pushed", "assigned" and "cleared" emit nothing: they *)
(* mark where the source means the contents to have changed.  No block is  *)
(* allocated twice, so that a pointer to a freed one is known by its name. *)
(***************************************************************************)
EXTENDS Ownership, Integers, Sequences, FiniteSets

CONSTANTS
  Var,         \* the variables of vector type
  Constant,    \* a value the runtime does not manage: no block, and not None
  Literals,    \* the capacities of literals
  Reserves,    \* the capacities reserve is called with
  MaxIndex,    \* the largest index a push may return
  MaxOps       \* bound: vector statements in a run

VARIABLES
  compiler,  \* whose code runs: "bootstrap" or "selfhosted"
  binding,   \* the header a variable holds, or None
  depth,     \* the frame of the scope that declares it
  vec,       \* the fields of a header: data, len, cap
  slots,     \* what a data block holds
  todo,      \* the steps left of the running statement
  reg,       \* its registers
  meant,     \* what the source means a vector to hold
  shared,    \* the values that were in two places at once
  astray,    \* the vectors a store to which went into freed memory
  used,      \* the blocks allocated so far
  ops        \* vector statements begun

memory == <<live, registered, owner, frame, current_frame>>
ghosts == <<meant, shared, astray>>
vvars  == <<memory, compiler, binding, depth, vec, slots, todo, reg, ghosts, used, ops>>

NoVec == [data |-> None, len |-> 0, cap |-> 0]
Blank == [value |-> None, new |-> None, old |-> None, index |-> 0,
          addr |-> [data |-> None, at |-> 0]]

Bootstrap == compiler = "bootstrap"

-----------------------------------------------------------------------------
(* Lowering.                                                               *)

Op(op)    == [op |-> op]
On(op, v) == [op |-> op, var |-> v]

VecLiteral(c) == <<[op |-> "header", cap |-> c], [op |-> "data", cap |-> c], Op("own data")>>

\* A push and what it leaves in the registers.
AppendValue(v) == <<On("room", v), On("append", v), On("own", v), On("pushed", v)>>

\* The expressions: a string that is allocated, one that is a constant, an
\* element, or the call of a function that pushes a string to a vector and
\* returns another (its own frame is left out: nothing of it stays there).
Expr(e) ==
  CASE e.kind = "fresh"    -> <<Op("text")>>
    [] e.kind = "constant" -> <<Op("constant")>>
    [] e.kind = "element"  -> <<[op |-> "element", var |-> e.var, at |-> e.at]>>
    [] e.kind = "growing"  -> <<Op("text")>> \o AppendValue(e.var) \o <<Op("text")>>

\* A slip: a value assigned in a block stays there.
EscapeNever(v) == <<>>

\* escape_rhs_to_target_scope: out of the blocks inside the variable's.
Escape(v) == IF current_frame > depth[v]
             THEN <<[op |-> "escape", levels |-> current_frame - depth[v]]>> ELSE <<>>

\* The self-hosted compiler escapes what is assigned to a name, the other one
\* also what is assigned to an element.
AssignElement(v, i, e) ==
  <<[op |-> "address", var |-> v, at |-> i]>> \o Expr(e) \o <<On("overwrite", v)>>
  \o (IF Bootstrap THEN Escape(v) ELSE <<>>)
  \o <<On("store", v), [op |-> "assigned", var |-> v, at |-> i]>>

-----------------------------------------------------------------------------
VecInit ==
  /\ live = {} /\ registered = {}
  /\ owner = [b \in Block |-> None] /\ frame = [b \in Block |-> 0]
  /\ current_frame = 1
  /\ compiler \in {"bootstrap", "selfhosted"}
  /\ binding = [v \in Var |-> None] /\ depth = [v \in Var |-> 0]
  /\ vec = [b \in Block |-> NoVec] /\ slots = [b \in Block |-> <<>>]
  /\ todo = <<>> /\ reg = Blank
  /\ meant = [b \in Block |-> <<>>] /\ shared = {} /\ astray = {}
  /\ used = {} /\ ops = 0

-----------------------------------------------------------------------------
(* Steps.                                                                  *)

Ready(op) == todo # <<>> /\ Head(todo).op = op

\* The code goes on with these steps; registers last as long as a statement.
Goes(code, r) == todo' = code /\ reg' = IF code = <<>> THEN Blank ELSE r
Proceeds(r)      == Goes(Tail(todo), r)

\* The header, its fields, and the block of the step's variable.
Header == binding[Head(todo).var]
Fields == vec[Header]

\* abort() in the generated code.
Abort ==
  /\ todo' = <<Op("abort")>> /\ reg' = Blank
  /\ UNCHANGED <<memory, compiler, binding, depth, vec, slots, ghosts, used, ops>>

Fresh == CHOOSE b \in Block : b \notin used

New == used # Block /\ Alloc(Fresh, TRUE) /\ used' = used \cup {Fresh}

\* yc_attach_child, yc_release and yc_replace_child: nothing happens when
\* their tests refuse.
Attach(p, c)  == IF MayAttach(owner, p, c) THEN AttachChild(p, c) ELSE UNCHANGED memory
Drop(b)       == IF b \in registered THEN Release(b) ELSE UNCHANGED memory
Adopted(p, o, n) == IF {p, n} \subseteq registered THEN ReplaceChild(p, o, n) ELSE UNCHANGED memory

NewHeader ==
  /\ Ready("header")
  /\ IF Head(todo).cap < 0 THEN Abort
     ELSE /\ New /\ Proceeds([reg EXCEPT !.value = Fresh])
          /\ UNCHANGED <<compiler, binding, depth, vec, slots, ghosts, ops>>

\* A vector without capacity gets room for one element from the bootstrap
\* compiler, and an empty block from the other.
NewData ==
  /\ Ready("data")
  /\ New
  /\ LET cap == Head(todo).cap
     IN  /\ slots' = [slots EXCEPT ![Fresh] =
                        [i \in 1 .. (IF Bootstrap /\ cap = 0 THEN 1 ELSE cap) |-> None]]
         /\ vec' = [vec EXCEPT ![reg.value] = [data |-> Fresh, len |-> 0, cap |-> cap]]
  /\ Proceeds([reg EXCEPT !.new = Fresh])
  /\ UNCHANGED <<compiler, binding, depth, ghosts, ops>>

OwnData ==
  /\ Ready("own data")
  /\ Attach(reg.value, reg.new) /\ Proceeds(reg)
  /\ UNCHANGED <<compiler, binding, depth, vec, slots, ghosts, used, ops>>

Text ==
  /\ Ready("text")
  /\ New /\ Proceeds([reg EXCEPT !.value = Fresh])
  /\ UNCHANGED <<compiler, binding, depth, vec, slots, ghosts, ops>>

TakeConstant ==
  /\ Ready("constant")
  /\ Proceeds([reg EXCEPT !.value = Constant])
  /\ UNCHANGED <<memory, compiler, binding, depth, vec, slots, ghosts, used, ops>>

\* A bounds-checked read.
Element ==
  /\ Ready("element")
  /\ IF Head(todo).at < Fields.len
     THEN /\ Proceeds([reg EXCEPT !.value = slots[Fields.data][Head(todo).at + 1]])
          /\ UNCHANGED <<memory, compiler, binding, depth, vec, slots, ghosts, used, ops>>
     ELSE Abort

\* The address of an element, bounds-checked when it is computed.
Address ==
  /\ Ready("address")
  /\ IF Head(todo).at < Fields.len
     THEN /\ Proceeds([reg EXCEPT !.addr = [data |-> Fields.data, at |-> Head(todo).at + 1]])
          /\ UNCHANGED <<memory, compiler, binding, depth, vec, slots, ghosts, used, ops>>
     ELSE Abort

\* Either compiler's way to a longer data block: the one allocates, copies,
\* and releases the old block; the other calls yc_realloc at every push.
Growth(cap) ==
  IF Bootstrap
  THEN <<[op |-> "grow", var |-> Head(todo).var, cap |-> cap], On("adopt", Head(todo).var), Op("drop")>>
  ELSE <<[op |-> "regrow", var |-> Head(todo).var, cap |-> cap], On("adopt", Head(todo).var)>>

\* A slip: a full vector is taken to have room for one more.
HasSpaceAtEnd(r) == r.len <= r.cap

HasSpace(r) == r.len < r.cap

Room ==
  /\ Ready("room")
  /\ IF Bootstrap /\ Fields.len > MaxIndex THEN Abort
     ELSE /\ LET growth == CASE ~Bootstrap                    -> Growth(Fields.len + 1)
                             [] Bootstrap /\ HasSpace(Fields) -> <<>>
                             [] OTHER                         -> Growth(IF Fields.cap = 0 THEN 1 ELSE 2 * Fields.cap)
             IN  Goes(growth \o Tail(todo), reg)
          /\ UNCHANGED <<memory, compiler, binding, depth, vec, slots, ghosts, used, ops>>

\* A block of cap slots that begins with the elements of an old one.
Copied(old, cap) == [i \in 1 .. cap |-> IF i <= Fields.len THEN slots[old][i] ELSE None]

Moved(cap) ==
  /\ used' = used \cup {Fresh}
  /\ slots' = [slots EXCEPT ![Fresh] = Copied(Fields.data, cap)]
  /\ vec' = [vec EXCEPT ![Header].data = Fresh, ![Header].cap = cap]
  /\ Proceeds([reg EXCEPT !.old = Fields.data, !.new = Fresh])
  /\ UNCHANGED <<compiler, binding, depth, ghosts, ops>>

Grow ==
  /\ Ready("grow")
  /\ used # Block /\ Alloc(Fresh, TRUE)
  /\ Moved(Head(todo).cap)

Regrow ==
  /\ Ready("regrow")
  /\ used # Block /\ Realloc(Fields.data, Fresh, TRUE)
  /\ Moved(Head(todo).cap)

\* The size is too large or the allocation refused: the bootstrap compiler's
\* literals and reserve abort.
OutOfMemory ==
  /\ Bootstrap
  /\ Ready("header") \/ Ready("data") \/ (Ready("reserve") /\ Head(todo).cap > Fields.cap)
  /\ Abort

Adopt ==
  /\ Ready("adopt")
  /\ Adopted(Header, reg.old, reg.new) /\ Proceeds(reg)
  /\ UNCHANGED <<compiler, binding, depth, vec, slots, ghosts, used, ops>>

DropOld ==
  /\ Ready("drop")
  /\ Drop(reg.old) /\ Proceeds(reg)
  /\ UNCHANGED <<compiler, binding, depth, vec, slots, ghosts, used, ops>>

AppendElement ==
  /\ Ready("append")
  /\ slots' = [slots EXCEPT ![Fields.data][Fields.len + 1] = reg.value]
  /\ vec' = [vec EXCEPT ![Header].len = @ + 1]
  /\ Proceeds([reg EXCEPT !.index = Fields.len])
  /\ UNCHANGED <<memory, compiler, binding, depth, ghosts, used, ops>>

Own ==
  /\ Ready("own")
  /\ Attach(Header, reg.value) /\ Proceeds(reg)
  /\ UNCHANGED <<compiler, binding, depth, vec, slots, ghosts, used, ops>>

\* What was stored at a freed address may still be there, or not.
StoredAt(a) ==
  IF a.data \in live THEN {slots[a.data][a.at]} ELSE {slots[a.data][a.at], None}

\* The old element is released and the new one attached, unless they are one.
Overwrite ==
  /\ Ready("overwrite")
  /\ \E old \in StoredAt(reg.addr) :
       Goes((IF old = reg.value THEN <<>> ELSE <<Op("drop"), On("own", Head(todo).var)>>)
            \o Tail(todo), [reg EXCEPT !.old = old])
  /\ UNCHANGED <<memory, compiler, binding, depth, vec, slots, ghosts, used, ops>>

EscapeValue ==
  /\ Ready("escape")
  /\ LET levels == Head(todo).levels
     IN  IF \E r \in live : IsRootOf(r, reg.value) /\ frame[r] > Target(levels)
         THEN MoveToAncestor(reg.value, levels) ELSE UNCHANGED memory
  /\ Proceeds(reg)
  /\ UNCHANGED <<compiler, binding, depth, vec, slots, ghosts, used, ops>>

Store ==
  /\ Ready("store")
  /\ IF reg.addr.data \in live
     THEN slots' = [slots EXCEPT ![reg.addr.data][reg.addr.at] = reg.value] /\ UNCHANGED astray
     ELSE astray' = astray \cup {Header} /\ UNCHANGED slots
  /\ Proceeds(reg)
  /\ UNCHANGED <<memory, compiler, binding, depth, vec, meant, shared, used, ops>>

\* A variable is declared in the scope it is first bound in.
Bind ==
  /\ Ready("bind")
  /\ LET v == Head(todo).var
     IN  /\ binding' = [binding EXCEPT ![v] = reg.value]
         /\ depth' = [depth EXCEPT ![v] = IF binding[v] = None THEN current_frame ELSE @]
  /\ Proceeds(reg)
  /\ UNCHANGED <<memory, compiler, vec, slots, ghosts, used, ops>>

Handle ==
  /\ Ready("handle")
  /\ Proceeds([reg EXCEPT !.value = Header])
  /\ UNCHANGED <<memory, compiler, binding, depth, vec, slots, ghosts, used, ops>>

Reserve ==
  /\ Ready("reserve")
  /\ LET cap == Head(todo).cap
     IN  IF cap < 0 THEN Abort
         ELSE /\ Goes((IF cap > Fields.cap THEN Growth(cap) ELSE <<>>) \o Tail(todo), reg)
              /\ UNCHANGED <<memory, compiler, binding, depth, vec, slots, ghosts, used, ops>>

\* One turn of the loop of clear.
ClearSlot ==
  /\ Ready("clear slot")
  /\ LET at == Head(todo).at + 1
     IN  /\ Drop(slots[Fields.data][at])
         /\ slots' = [slots EXCEPT ![Fields.data][at] = None]
  /\ Proceeds(reg)
  /\ UNCHANGED <<compiler, binding, depth, vec, ghosts, used, ops>>

ClearLength ==
  /\ Ready("clear length")
  /\ vec' = [vec EXCEPT ![Header].len = 0]
  /\ Proceeds(reg)
  /\ UNCHANGED <<memory, compiler, binding, depth, slots, ghosts, used, ops>>

-----------------------------------------------------------------------------
(* What the source says of a statement that is done.                       *)

\* Where a value is now: the vector and the position in it.
Places(x) == UNION {{<<h, i>> : i \in {k \in 1 .. vec[h].len : slots[vec[h].data][k] = x}} : h \in live}

Means(contents) ==
  /\ meant' = [meant EXCEPT ![Header] = contents]
  /\ shared' = IF Cardinality(Places(reg.value)) > 1 THEN shared \cup {reg.value} ELSE shared
  /\ Proceeds(reg)
  /\ UNCHANGED <<memory, compiler, binding, depth, vec, slots, astray, used, ops>>

Pushed   == Ready("pushed")   /\ Means(Append(meant[Header], reg.value))
Assigned == Ready("assigned") /\ Means([meant[Header] EXCEPT ![Head(todo).at + 1] = reg.value])
Cleared  == Ready("cleared")  /\ Means(<<>>)

-----------------------------------------------------------------------------
(* Statements.                                                             *)

Idle == todo = <<>>

Begin(code) ==
  /\ Idle /\ current_frame > 0 /\ ops < MaxOps
  /\ Goes(code, Blank) /\ ops' = ops + 1
  /\ UNCHANGED <<memory, compiler, binding, depth, vec, slots, ghosts, used>>

Bound == {v \in Var : binding[v] # None}

Exprs == {[kind |-> "fresh"], [kind |-> "constant"]}
         \cup [kind : {"element"}, var : Bound, at : 0 .. 1]

Declare == \E v \in Var \ Bound, c \in Literals : Begin(VecLiteral(c) \o <<On("bind", v)>>)
Share   == \E v \in Var \ Bound, u \in Bound : Begin(<<On("handle", u), On("bind", v)>>)
Assign  ==
  \E v \in Bound : \/ Begin(VecLiteral(0) \o Escape(v) \o <<On("bind", v)>>)
                   \/ \E u \in Bound \ {v} : Begin(<<On("handle", u)>> \o Escape(v) \o <<On("bind", v)>>)
PushStatement == \E v \in Bound, e \in Exprs : Begin(Expr(e) \o AppendValue(v))
AssignStatement ==
  \E v \in Bound, i \in 0 .. 1 :
    \E e \in Exprs \cup {[kind |-> "growing", var |-> v]} : Begin(AssignElement(v, i, e))
ReserveStatement == \E v \in Bound, c \in Reserves : Begin(<<[op |-> "reserve", var |-> v, cap |-> c]>>)
ClearStatement ==
  \E v \in Bound :
    Begin([i \in 1 .. vec[binding[v]].len |-> [op |-> "clear slot", var |-> v, at |-> i - 1]]
          \o <<On("clear length", v), On("cleared", v)>>)

\* A standalone block is entered or left.
Enter ==
  /\ Idle /\ FramePush
  /\ UNCHANGED <<compiler, binding, depth, vec, slots, todo, reg, ghosts, used, ops>>

Leave ==
  /\ Idle /\ FramePop
  /\ binding' = [v \in Var |-> IF depth[v] = current_frame THEN None ELSE binding[v]]
  /\ depth' = [v \in Var |-> IF depth[v] = current_frame THEN 0 ELSE depth[v]]
  /\ UNCHANGED <<compiler, vec, slots, todo, reg, ghosts, used, ops>>

\* The program has aborted, or left its outermost scope.
Stop == (Ready("abort") \/ (Idle /\ current_frame = 0)) /\ UNCHANGED vvars

VecNext ==
  \/ Declare \/ Share \/ Assign \/ PushStatement \/ AssignStatement \/ ReserveStatement
  \/ ClearStatement \/ Enter \/ Leave
  \/ NewHeader \/ NewData \/ OwnData \/ Text \/ TakeConstant \/ Element \/ Address
  \/ Room \/ Grow \/ Regrow \/ OutOfMemory \/ Adopt \/ DropOld \/ AppendElement \/ Own
  \/ Overwrite \/ EscapeValue \/ Store \/ Bind \/ Handle \/ Reserve \/ ClearSlot \/ ClearLength
  \/ Pushed \/ Assigned \/ Cleared
  \/ Stop

VecSpec == VecInit /\ [][VecNext]_vvars

-----------------------------------------------------------------------------
(* Correctness.                                                            *)

\* Between statements, the vector of every variable in scope is there: its
\* header, the data block it owns, no more elements than room, and the
\* elements the source means it to have, in their order (append_value,
\* reserve, clear and assignment against the growth of the data block).
ContentsExact ==
  Idle => \A v \in Bound :
    LET h == binding[v] IN LET r == vec[h]
    IN  /\ h \in live /\ r.data \in live /\ owner[r.data] = h
        /\ r.len <= r.cap /\ r.cap <= Len(slots[r.data])
        /\ h \notin astray => SubSeq(slots[r.data], 1, r.len) = meant[h]

\* A push returns the index its value has from then on.
IndexExact == Ready("pushed") => reg.index = Len(meant[Header])

\* Between statements a vector owns its data block and its elements, and
\* nothing else: no element dies before its vector or is overwritten or
\* cleared without being freed.  Not so for a value that was put into two
\* places, which belongs to the last of them.
ElementsOwned ==
  Idle => \A h \in live \ astray :
    vec[h].data # None =>
      {c \in live : owner[c] = h} \ shared
        = ({vec[h].data} \cup {x \in Block : \E i \in 1 .. vec[h].len : slots[vec[h].data][i] = x})
          \ shared

\* A vector in scope has the contents the source gives it, tells where a value
\* went, and its managed elements live exactly as long as they are in it.
VecsExact == ContentsExact /\ IndexExact /\ ElementsOwned
=============================================================================
