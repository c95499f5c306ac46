---------------------------- MODULE RuntimeHeap ----------------------------
(***************************************************************************)
(* The managed-memory runtime as bootstrap/cpp/runtime/yc_runtime.c builds *)
(* it: every block sits on three intrusive doubly linked lists (all        *)
(* allocations, the blocks of its frame, the children of its owner) and    *)
(* each entry point rewrites them link by link.  The owner forest and the  *)
(* frames of module Ownership are what these lists are meant to implement. *)
(***************************************************************************)
EXTENDS Naturals, Sequences, FiniteSets

CONSTANTS
  Block,      \* the allocations a program can make
  Nil,        \* the null pointer
  MaxFrame    \* bound: how deep frames are pushed

ASSUME NilAssumption == Nil \notin Block
ASSUME MaxFrameAssumption == MaxFrame \in Nat
ASSUME FiniteAssumption == IsFiniteSet(Block)   \* memory is

VARIABLES
  heap,          \* the headers and the list heads, see Empty
  current_frame  \* yc_current_frame

vars == <<heap, current_frame>>

Frame == 0 .. MaxFrame
List  == {"all", "frame", "sibling"}

\* Where each list starts: yc_head, yc_frame_heads[f], b->first_child.
All         == <<"all", 0>>
InFrame(f)  == <<"frame", f>>
Children(b) == <<"children", b>>
Heads == {All} \cup {InFrame(f) : f \in Frame} \cup {Children(b) : b \in Block}

Empty ==
  [live       |-> {},      \* blocks whose header carries YC_ALLOC_MAGIC
   registered |-> {},      \* blocks yc_header_from_ptr finds
   frame |-> [b \in Block |-> 0],
   owner |-> [b \in Block |-> Nil],
   prev  |-> [k \in List |-> [b \in Block |-> Nil]],
   next  |-> [k \in List |-> [b \in Block |-> Nil]],
   head  |-> [hd \in Heads |-> Nil]]

-----------------------------------------------------------------------------
(* Links.  H is the heap so far: an entry point is a chain of rewrites.    *)

\* Take h off a list: the three unlink routines share this shape.
Unlink(H, k, hd, h) ==
  LET p == H.prev[k][h]
      n == H.next[k][h]
  IN  [H EXCEPT
        !.head[hd] = IF p = Nil /\ @ = h THEN n ELSE @,
        !.next[k]  = [b \in Block |-> IF b = h THEN Nil ELSE IF b = p THEN n ELSE @[b]],
        !.prev[k]  = [b \in Block |-> IF b = h THEN Nil ELSE IF b = n THEN p ELSE @[b]]]

\* Put h in front of a list.
Push(H, k, hd, h) ==
  LET n == H.head[hd]
  IN  [H EXCEPT
        !.head[hd] = h,
        !.next[k][h] = n,
        !.prev[k] = [b \in Block |-> IF b = h THEN Nil ELSE IF b = n THEN h ELSE @[b]]]

FrameLink(H, h, f) == Push([H EXCEPT !.frame[h] = f], "frame", InFrame(f), h)

FrameUnlink(H, h) == Unlink(H, "frame", InFrame(H.frame[h]), h)

DetachOwner(H, h) ==
  IF H.owner[h] = Nil THEN H
  ELSE [Unlink(H, "sibling", Children(H.owner[h]), h) EXCEPT !.owner[h] = Nil]

-----------------------------------------------------------------------------
(* Loops and recursion.  A walk enters each block at most once and leaves  *)
(* it at most once, so that it is over after as many steps as this.        *)

Steps == 2 * Cardinality(Block)

\* A slip: the block is linked into the new frame's list and left in the old.
MovedLinked(H, h, f) == IF H.frame[h] = f THEN H ELSE FrameLink(H, h, f)

Moved(H, h, f) == IF H.frame[h] = f THEN H ELSE FrameLink(FrameUnlink(H, h), h, f)

\* Calls of yc_move_graph_to_frame, the innermost first: the child each is at.
MoveOn(s, f) ==
  LET c    == Head(s.at)
      rest == Tail(s.at)
  IN  IF s.at = <<>> THEN s
      ELSE IF c # Nil
      THEN LET M == Moved(s.heap, c, f)
           IN  [heap |-> M, at |-> <<M.head[Children(c)]>> \o s.at]
      ELSE IF rest = <<>> THEN [s EXCEPT !.at = rest]
      ELSE [s EXCEPT !.at = <<s.heap.next["sibling"][Head(rest)]>> \o Tail(rest)]

MoveGraph(H, h, f) ==
  LET M == Moved(H, h, f)
      run[i \in Nat] == IF i = 0 THEN [heap |-> M, at |-> <<M.head[Children(h)]>>]
                        ELSE MoveOn(run[i - 1], f)
  IN  run[Steps].heap

LinkOwner(H, o, c) ==
  LET D == DetachOwner(H, c)
  IN  MoveGraph(Push([D EXCEPT !.owner[c] = o], "sibling", Children(o), c), c, D.frame[o])

\* The blocks on the way from h up to its root.
Above(H, h) ==
  {b \in Block : \A S \in SUBSET Block :
     h \in S /\ (\A x \in S : H.owner[x] \in S \cup {Nil}) => b \in S}

OwnerRoot(H, h) == CHOOSE r \in Above(H, h) : H.owner[r] = Nil

IsOwnerAncestor(H, a, h) == a \in Above(H, h)

\* yc_unlink and what follows: the block is on no list and forgotten.
Freed(H, h) ==
  [Unlink(FrameUnlink(H, h), "all", All, h) EXCEPT
     !.live = @ \ {h}, !.registered = @ \ {h}, !.frame[h] = 0]

\* Calls of yc_release_header, the innermost first: a block leaves its owner,
\* then its children go, first child first, and only then is it freed.
ReleaseOn(s) ==
  LET h == Head(s.calls)
      c == s.heap.head[Children(h)]
  IN  IF s.calls = <<>> THEN s
      ELSE IF c # Nil THEN [heap |-> DetachOwner(s.heap, c), calls |-> <<c>> \o s.calls]
      ELSE [heap |-> Freed(s.heap, h), calls |-> Tail(s.calls)]

ReleaseHeader(H, h) ==
  LET run[i \in Nat] == IF i = 0 THEN [heap |-> DetachOwner(H, h), calls |-> <<h>>]
                        ELSE ReleaseOn(run[i - 1])
  IN  run[Steps].heap

\* yc_alloc; known: the registry had room for the block.
NewBlock(H, b, known) ==
  LET N == FrameLink(Push([H EXCEPT !.live = @ \cup {b}], "all", All, b), b, current_frame)
  IN  IF known THEN [N EXCEPT !.registered = @ \cup {b}] ELSE N

Attach(H, p, c) ==
  IF \/ p = c \/ ~({p, c} \subseteq H.registered)
     \/ H.owner[c] = p \/ IsOwnerAncestor(H, c, p)
  THEN H ELSE LinkOwner(H, p, c)

\* The loop of yc_frame_pop.
ReleaseFirst(H, f) ==
  LET h == H.head[InFrame(f)] IN IF h = Nil THEN H ELSE ReleaseHeader(H, h)
ReleaseFrame(H, f) ==
  LET run[i \in Nat] == IF i = 0 THEN H ELSE ReleaseFirst(run[i - 1], f)
  IN  run[Steps]

\* The loop of yc_move_frame_to_parent.
MoveFirst(H, f) ==
  LET h == H.head[InFrame(f)] IN IF h = Nil THEN H ELSE MoveGraph(H, OwnerRoot(H, h), f - 1)
EmptyFrame(H, f) ==
  LET run[i \in Nat] == IF i = 0 THEN H ELSE MoveFirst(run[i - 1], f)
  IN  run[Steps]

-----------------------------------------------------------------------------
Init == heap = Empty /\ current_frame = 0

FramePush ==
  /\ current_frame < MaxFrame
  /\ current_frame' = current_frame + 1
  /\ UNCHANGED heap

FramePop ==
  /\ current_frame > 0
  /\ heap' = ReleaseFrame(heap, current_frame)
  /\ current_frame' = current_frame - 1

Alloc(b, known) ==
  /\ b \notin heap.live
  /\ heap' = NewBlock(heap, b, known)
  /\ UNCHANGED current_frame

KeepString(b, known) ==
  /\ b \notin heap.live
  /\ LET N == NewBlock(heap, b, known)
     IN  heap' = IF N.frame[b] <= 1 THEN N ELSE MoveGraph(N, b, 1)
  /\ UNCHANGED current_frame

Release(b) ==
  /\ b \in heap.registered
  /\ heap' = ReleaseHeader(heap, b)
  /\ UNCHANGED current_frame

Realloc(old, new, known) ==
  /\ old \in heap.registered /\ new \notin heap.live
  /\ heap' = ReleaseHeader(NewBlock(heap, new, known), old)
  /\ UNCHANGED current_frame

AttachChild(p, c) ==
  /\ heap' = Attach(heap, p, c)
  /\ UNCHANGED current_frame

AttachChildToOwner(p, c) ==
  /\ p \in heap.live
  /\ heap' = Attach(heap, OwnerRoot(heap, p), c)
  /\ UNCHANGED current_frame

\* A slip: the old child is released instead of detached.
ReplaceChildReleases(p, old, new) ==
  /\ p # new /\ {p, new} \subseteq heap.registered
  /\ LET D == IF old \in heap.registered /\ heap.owner[old] = p
              THEN ReleaseHeader(heap, old) ELSE heap
     IN  heap' = Attach(D, p, new)
  /\ UNCHANGED current_frame

ReplaceChild(p, old, new) ==
  /\ p # new /\ {p, new} \subseteq heap.registered
  /\ LET D == IF old \in heap.registered /\ heap.owner[old] = p
              THEN DetachOwner(heap, old) ELSE heap
     IN  heap' = Attach(D, p, new)
  /\ UNCHANGED current_frame

MoveToAncestor(b, levels) ==
  /\ b \in heap.live /\ current_frame > 0
  /\ LET target == IF levels >= current_frame THEN 0 ELSE current_frame - levels
         root   == OwnerRoot(heap, b)
     IN  heap' = IF heap.frame[root] > target THEN MoveGraph(heap, root, target) ELSE heap
  /\ UNCHANGED current_frame

MoveToRoot(b) ==
  /\ b \in heap.live
  /\ LET root == OwnerRoot(heap, b)
     IN  heap' = IF heap.frame[root] <= 1 THEN heap ELSE MoveGraph(heap, root, 1)
  /\ UNCHANGED current_frame

MoveFrameToParent ==
  /\ current_frame > 0
  /\ heap' = EmptyFrame(heap, current_frame)
  /\ UNCHANGED current_frame

\* The walk along yc_head frees the blocks; the tables go with them.
RuntimeShutdown == heap' = Empty /\ current_frame' = 0

Next ==
  \/ FramePush
  \/ FramePop
  \/ \E b \in Block, known \in BOOLEAN : Alloc(b, known) \/ KeepString(b, known)
  \/ \E b \in Block : Release(b)
  \/ \E old, new \in Block, known \in BOOLEAN : Realloc(old, new, known)
  \/ \E p, c \in Block : AttachChild(p, c) \/ AttachChildToOwner(p, c)
  \/ \E p, new \in Block, old \in Block \cup {Nil} : ReplaceChild(p, old, new)
  \/ \E b \in Block, levels \in 1 .. MaxFrame : MoveToAncestor(b, levels)
  \/ \E b \in Block : MoveToRoot(b)
  \/ MoveFrameToParent
  \/ RuntimeShutdown

Spec == Init /\ [][Next]_vars

-----------------------------------------------------------------------------
\* A list of heap H holds exactly these blocks: it starts at its head, every
\* link back undoes the link forward, and the walk back from any member ends.
Holds(H, k, hd, members) ==
  LET first == H.head[hd]
      next  == H.next[k]
      prev  == H.prev[k]
  IN  /\ first \in members \cup {Nil}
      /\ \A b \in members :
           /\ next[b] \in members \cup {Nil} /\ prev[b] \in members \cup {Nil}
           /\ (prev[b] = Nil) <=> (b = first)
           /\ next[b] # Nil => prev[next[b]] = b
           /\ prev[b] # Nil => next[prev[b]] = b
      /\ \A S \in SUBSET members : S # {} => \E b \in S : prev[b] \notin S

\* The list of all allocations holds the live blocks and a frame's list those
\* of that frame: the shutdown and a pop reach each of them and free nothing
\* twice (yc_link, yc_frame_link, their opposites, the moves between frames).
BlockListsExact ==
  /\ Holds(heap, "all", All, heap.live)
  /\ \A f \in Frame : Holds(heap, "frame", InFrame(f), {b \in heap.live : heap.frame[b] = f})

\* A child list holds the blocks that name the owner, and a freed block has
\* neither owner nor children (yc_link_owner, yc_detach_owner).
ChildListsExact ==
  /\ \A o \in Block : Holds(heap, "sibling", Children(o), {c \in heap.live : heap.owner[c] = o})
  /\ \A c \in heap.live : heap.owner[c] \in heap.live \cup {Nil}

\* The three intrusive lists agree with the fields they are lists of.
ListsExact == BlockListsExact /\ ChildListsExact

\* The lists implement the owner forest of module Ownership: every entry
\* point has there the effect it has on the links here.
Forest == INSTANCE Ownership WITH
  None <- Nil, live <- heap.live, registered <- heap.registered,
  owner <- heap.owner, frame <- heap.frame

ImplementsOwnership == Forest!Spec
=============================================================================
