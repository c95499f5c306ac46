----------------------------- MODULE Ownership -----------------------------
(***************************************************************************)
(* What the managed-memory runtime (bootstrap/cpp/runtime/yc_runtime.c)    *)
(* promises to generated code: a forest of owned blocks, each linked into  *)
(* one frame of a stack of frames.  Lists, the hash registry and the range *)
(* treap are abstracted away here; RuntimeHeap, Registry and RangeTreap    *)
(* model them and are shown to implement what this module assumes.         *)
(*                                                                         *)
(* A call whose early return leaves the runtime untouched (a null or       *)
(* unregistered argument) is a stuttering step and has no action.          *)
(***************************************************************************)
EXTENDS Naturals

CONSTANTS
  Block,      \* the allocations a program can make
  None,       \* the null owner
  MaxFrame    \* bound: how deep frames are pushed

ASSUME NoneAssumption == None \notin Block
ASSUME MaxFrameAssumption == MaxFrame \in Nat

VARIABLES
  live,           \* the blocks on the list of all allocations
  registered,     \* those of them the registry knows: insertion may fail
  owner,          \* the owning block, or None
  frame,          \* the frame a block is linked into
  current_frame   \* yc_current_frame

vars == <<live, registered, owner, frame, current_frame>>

Frame == 0 .. MaxFrame

-----------------------------------------------------------------------------
(* The owner forest.  own is an owner function and L a set of blocks: the  *)
(* operations below also ask about a forest they are half-way through      *)
(* rewriting.                                                              *)

\* S contains the children of its members.
ChildClosed(L, own, S) == \A c \in L : own[c] \in S => c \in S

\* The graph of h: h, its children, their children, and so on.
Graph(L, own, h) ==
  {b \in L : \A S \in SUBSET L : h \in S /\ ChildClosed(L, own, S) => b \in S}

IsRootOf(r, b) == r \in live /\ owner[r] = None /\ b \in Graph(live, owner, r)

\* A slip: only the block itself moves, its children stay behind.
MoveGraphShallow(own, h, f) == [frame EXCEPT ![h] = f]

\* yc_move_graph_to_frame
MoveGraph(own, h, f) ==
  [b \in Block |-> IF b \in Graph(live, own, h) THEN f ELSE frame[b]]

\* A slip: the ancestor test is forgotten.
MayAttachAnywhere(own, p, c) ==
  p # c /\ p \in registered /\ c \in registered /\ own[c] # p

\* The tests yc_attach_child makes before it links.
MayAttach(own, p, c) ==
  /\ p # c
  /\ p \in registered /\ c \in registered
  /\ own[c] # p
  /\ p \notin Graph(live, own, c)

\* A slip: the child changes owner and keeps its frame.
LinkOwnerInPlace(own, p, c) == owner' = [own EXCEPT ![c] = p] /\ UNCHANGED frame

\* yc_link_owner: the child leaves its old owner and its graph joins the
\* frame of the new one.
LinkOwner(own, p, c) ==
  /\ owner' = [own EXCEPT ![c] = p]
  /\ frame' = MoveGraph(own, c, frame[p])

-----------------------------------------------------------------------------
Init ==
  /\ live = {}
  /\ registered = {}
  /\ owner = [b \in Block |-> None]
  /\ frame = [b \in Block |-> 0]
  /\ current_frame = 0

FramePush ==
  /\ current_frame < MaxFrame
  /\ current_frame' = current_frame + 1
  /\ UNCHANGED <<live, registered, owner, frame>>

\* Blocks D are freed: nothing about them is remembered.
Free(D) ==
  /\ live' = live \ D
  /\ owner' = [b \in Block |-> IF b \in D THEN None ELSE owner[b]]
  /\ frame' = [b \in Block |-> IF b \in D THEN 0 ELSE frame[b]]

\* Every block of the current frame is released, and with it what it owns.
FramePop ==
  /\ current_frame > 0
  /\ LET D == UNION {Graph(live, owner, h) :
                       h \in {b \in live : frame[b] = current_frame}}
     IN  Free(D) /\ registered' = registered \ D
  /\ current_frame' = current_frame - 1

\* known says whether the registry had room for the new block.
AllocIn(b, f, known) ==
  /\ b \notin live
  /\ live' = live \cup {b}
  /\ registered' = IF known THEN registered \cup {b} ELSE registered
  /\ owner' = owner
  /\ frame' = [frame EXCEPT ![b] = f]
  /\ UNCHANGED current_frame

Alloc(b, known) == AllocIn(b, current_frame, known)

\* An allocation that yc_move_to_root then lifts to the program's frame.
KeepString(b, known) ==
  AllocIn(b, IF current_frame <= 1 THEN current_frame ELSE 1, known)

\* A slip: the freed blocks stay in the registry.
ReleaseUnregisteredLate(b) ==
  /\ b \in registered
  /\ Free(Graph(live, owner, b))
  /\ UNCHANGED <<registered, current_frame>>

Release(b) ==
  /\ b \in registered
  /\ Free(Graph(live, owner, b))
  /\ registered' = registered \ Graph(live, owner, b)
  /\ UNCHANGED current_frame

\* The replacement is a fresh block of the current frame, owned by nobody;
\* the old block is released together with everything it owned.
Realloc(old, new, known) ==
  /\ old \in registered
  /\ new \notin live
  /\ LET D == Graph(live, owner, old)
     IN  /\ live' = (live \ D) \cup {new}
         /\ registered' = (registered \ D) \cup (IF known THEN {new} ELSE {})
         /\ owner' = [b \in Block |-> IF b \in D THEN None ELSE owner[b]]
         /\ frame' = [b \in Block |-> IF b = new THEN current_frame
                                      ELSE IF b \in D THEN 0 ELSE frame[b]]
  /\ UNCHANGED current_frame

AttachChild(p, c) ==
  /\ MayAttach(owner, p, c)
  /\ LinkOwner(owner, p, c)
  /\ UNCHANGED <<live, registered, current_frame>>

\* p is any pointer into a live block: the child joins that block's root.
AttachChildToOwner(p, c) ==
  /\ \E r \in live : IsRootOf(r, p) /\ MayAttach(owner, r, c) /\ LinkOwner(owner, r, c)
  /\ UNCHANGED <<live, registered, current_frame>>

\* The old child loses its owner before the tests of yc_attach_child are
\* made, and stays detached when they refuse the new one.
ReplaceChild(p, old, new) ==
  /\ p # new /\ p \in registered /\ new \in registered
  /\ LET own == IF old \in registered /\ owner[old] = p
                THEN [owner EXCEPT ![old] = None] ELSE owner
     IN  \/ MayAttach(own, p, new) /\ LinkOwner(own, p, new)
         \/ ~MayAttach(own, p, new) /\ owner' = own /\ UNCHANGED frame
  /\ UNCHANGED <<live, registered, current_frame>>

\* The frame an escape of that many levels aims at.
Target(levels) == IF levels >= current_frame THEN 0 ELSE current_frame - levels

\* A slip: the block escapes without the rest of its owner's graph.
MoveToAncestorAlone(b, levels) ==
  /\ current_frame > 0
  /\ b \in live /\ frame[b] > Target(levels)
  /\ frame' = MoveGraph(owner, b, Target(levels))
  /\ UNCHANGED <<live, registered, owner, current_frame>>

MoveToAncestor(b, levels) ==
  /\ current_frame > 0
  /\ \E r \in live : /\ IsRootOf(r, b)
                     /\ frame[r] > Target(levels)
                     /\ frame' = MoveGraph(owner, r, Target(levels))
  /\ UNCHANGED <<live, registered, owner, current_frame>>

MoveToRoot(b) ==
  /\ \E r \in live : /\ IsRootOf(r, b)
                     /\ frame[r] > 1
                     /\ frame' = MoveGraph(owner, r, 1)
  /\ UNCHANGED <<live, registered, owner, current_frame>>

\* Every graph with a block in the current frame moves, unrelated locals
\* included.
MoveFrameToParent ==
  /\ current_frame > 0
  /\ LET roots == {r \in live : \E b \in live : frame[b] = current_frame /\ IsRootOf(r, b)}
     IN  frame' = [b \in Block |-> IF \E r \in roots : b \in Graph(live, owner, r)
                                   THEN current_frame - 1 ELSE frame[b]]
  /\ UNCHANGED <<live, registered, owner, current_frame>>

RuntimeShutdown ==
  /\ live' = {}
  /\ registered' = {}
  /\ owner' = [b \in Block |-> None]
  /\ frame' = [b \in Block |-> 0]
  /\ current_frame' = 0

Next ==
  \/ FramePush
  \/ FramePop
  \/ \E b \in Block, known \in BOOLEAN : Alloc(b, known) \/ KeepString(b, known)
  \/ \E b \in Block : Release(b)
  \/ \E old, new \in Block, known \in BOOLEAN : Realloc(old, new, known)
  \/ \E p, c \in Block : AttachChild(p, c) \/ AttachChildToOwner(p, c)
  \/ \E p, new \in Block, old \in Block \cup {None} : ReplaceChild(p, old, new)
  \/ \E b \in Block, levels \in 1 .. MaxFrame : MoveToAncestor(b, levels)
  \/ \E b \in Block : MoveToRoot(b)
  \/ MoveFrameToParent
  \/ RuntimeShutdown

Spec == Init /\ [][Next]_vars

-----------------------------------------------------------------------------
(* Correctness.                                                            *)

\* Freed blocks leave nothing behind; the registry only knows live blocks.
TypeOK ==
  /\ live \in SUBSET Block
  /\ registered \in SUBSET live
  /\ owner \in [Block -> Block \cup {None}]
  /\ frame \in [Block -> Frame]
  /\ current_frame \in Frame
  /\ \A b \in Block \ live : owner[b] = None

\* An owned block lives exactly as long as its owner: the owner is live and
\* both are linked into the same frame, so that no pop can take one and
\* leave the other (yc_link_owner, yc_release_header, the moves).
OwnerFrames ==
  \A c \in live : owner[c] # None => owner[c] \in live /\ frame[c] = frame[owner[c]]

\* The owner relation has no cycle: the walks of yc_owner_root and
\* yc_release_header end.  A cycle would be a set of blocks each of which is
\* owned inside the set.
Acyclic ==
  \A S \in SUBSET live : S # {} => \E b \in S : owner[b] \notin S

\* No block is linked into a frame that has already been popped: every block
\* is still reached by a pop to come (or by the shutdown of the program).
FramesOpen == \A b \in live : frame[b] <= current_frame

\* A pop frees the blocks of the innermost frame and not one more: no graph
\* straddles two frames (yc_frame_pop releases whole graphs).
PopFreesTheFrame ==
  [][FramePop => live' = {b \in live : frame[b] < current_frame}]_vars

\* After a pointer has escaped by so many levels, everything in the graph it
\* points into outlives that many pops (yc_move_to_ancestor).
EscapeReachesTarget ==
  [][\A b \in live, levels \in 1 .. MaxFrame :
       MoveToAncestor(b, levels) =>
         \A r \in live : IsRootOf(r, b) =>
           \A x \in Graph(live, owner, r) : frame'[x] <= Target(levels)]_vars
=============================================================================
