-------------------------- MODULE OwnershipProofs --------------------------
(***************************************************************************)
(* Proofs about Ownership, for every set of blocks and every bound on the  *)
(* frames.  IInv is the inductive invariant: the typing, the shape of the  *)
(* owner forest and the frame discipline hold together or not at all.      *)
(***************************************************************************)
EXTENDS Ownership, TLAPS

IInv == TypeOK /\ OwnerFrames /\ Acyclic /\ FramesOpen

-----------------------------------------------------------------------------
(* Facts about graphs.                                                     *)

\* The graph of a block of L contains the block and only blocks of L.
LEMMA GraphSelf ==
  ASSUME NEW L, NEW own, NEW h \in L
  PROVE  h \in Graph(L, own, h) /\ Graph(L, own, h) \subseteq L
BY DEF Graph

\* A graph contains the children of its members.
LEMMA GraphClosed ==
  ASSUME NEW L, NEW own, NEW h
  PROVE  ChildClosed(L, own, Graph(L, own, h))
BY DEF Graph, ChildClosed

\* A graph is within every child-closed set that contains its top.
LEMMA GraphLeast ==
  ASSUME NEW L, NEW own, NEW h, NEW S \in SUBSET L, h \in S, ChildClosed(L, own, S)
  PROVE  Graph(L, own, h) \subseteq S
BY DEF Graph

\* Every block of a graph but its top is owned inside the graph.
LEMMA GraphOwner ==
  ASSUME NEW L, NEW own, NEW h \in L, NEW b \in Graph(L, own, h), b # h
  PROVE  own[b] \in Graph(L, own, h)
<1> DEFINE G == Graph(L, own, h)
<1> SUFFICES ASSUME own[b] \notin G PROVE FALSE
  OBVIOUS
<1>1. G \ {b} \in SUBSET L /\ h \in G \ {b}
  BY GraphSelf
<1>2. ChildClosed(L, own, G \ {b})
  BY GraphClosed DEF ChildClosed
<1>3. G \subseteq G \ {b}
  <2> HIDE DEF G
  <2>1. Graph(L, own, h) \subseteq G \ {b}
    BY <1>1, <1>2, GraphLeast
  <2> QED  BY <2>1 DEF G
<1> QED  BY <1>3

\* The graph of a member lies inside the graph.
LEMMA GraphNested ==
  ASSUME NEW L, NEW own, NEW h \in L, NEW b \in Graph(L, own, h)
  PROVE  Graph(L, own, b) \subseteq Graph(L, own, h)
BY GraphSelf, GraphClosed, GraphLeast

-----------------------------------------------------------------------------
(* Freeing and moving whole graphs.                                        *)

\* A set of blocks that contains the children of its members can be freed.
LEMMA FreeStep ==
  ASSUME IInv, NEW D \in SUBSET live, ChildClosed(live, owner, D),
         live' = live \ D,
         owner' = [b \in Block |-> IF b \in D THEN None ELSE owner[b]],
         frame' = [b \in Block |-> IF b \in D THEN 0 ELSE frame[b]]
  PROVE  /\ owner' \in [Block -> Block \cup {None}]
         /\ frame' \in [Block -> Frame]
         /\ \A b \in Block \ live' : owner'[b] = None
         /\ OwnerFrames' /\ Acyclic'
         /\ \A b \in live' : b \in live /\ b \notin D /\ frame'[b] = frame[b]
<1> USE NoneAssumption, MaxFrameAssumption DEF IInv, TypeOK, Frame
<1>1. \A b \in live' : /\ b \in live /\ b \notin D
                       /\ frame'[b] = frame[b] /\ owner'[b] = owner[b]
  OBVIOUS
<1>2. owner' \in [Block -> Block \cup {None}] /\ frame' \in [Block -> Frame]
  OBVIOUS
<1>3. \A b \in Block \ live' : owner'[b] = None
  OBVIOUS
<1>4. OwnerFrames'
  BY <1>1 DEF OwnerFrames, ChildClosed
<1>5. Acyclic'
  BY <1>1 DEF Acyclic
<1> QED  BY <1>1, <1>2, <1>3, <1>4, <1>5

\* Moving the graph of a root to another frame keeps owners and children
\* together.
LEMMA MoveRootStep ==
  ASSUME IInv, NEW r \in live, owner[r] = None, NEW f \in Frame,
         frame' = MoveGraph(owner, r, f), live' = live, owner' = owner
  PROVE  /\ frame' \in [Block -> Frame]
         /\ OwnerFrames'
         /\ \A b \in live : frame'[b] = IF b \in Graph(live, owner, r) THEN f ELSE frame[b]
<1> USE DEF IInv, TypeOK
<1>1. \A b \in Block : frame'[b] = IF b \in Graph(live, owner, r) THEN f ELSE frame[b]
  BY DEF MoveGraph
<1>2. frame' \in [Block -> Frame]
  BY DEF MoveGraph
<1>3. ASSUME NEW c \in live, owner[c] # None
      PROVE  owner[c] \in live /\ frame'[c] = frame'[owner[c]]
  <2>1. owner[c] \in live /\ frame[c] = frame[owner[c]]
    BY <1>3 DEF OwnerFrames
  <2>2. c \in Graph(live, owner, r) <=> owner[c] \in Graph(live, owner, r)
    BY <1>3, GraphOwner, GraphClosed DEF ChildClosed
  <2> QED  BY <1>1, <2>1, <2>2
<1> QED  BY <1>1, <1>2, <1>3 DEF OwnerFrames

-----------------------------------------------------------------------------
(* Rewriting the forest.  own is the forest yc_attach_child sees: the one  *)
(* of the state, or that forest after yc_replace_child detached a child.   *)

FramesAgree(own) ==
  \A c \in live : own[c] # None => own[c] \in live /\ frame[c] = frame[own[c]]

NoCycle(own) == \A S \in SUBSET live : S # {} => \E b \in S : own[b] \notin S

Forest(own) ==
  /\ own \in [Block -> Block \cup {None}]
  /\ \A b \in Block \ live : own[b] = None
  /\ FramesAgree(own) /\ NoCycle(own)

\* Detaching a block leaves a forest a forest.
LEMMA DetachForest ==
  ASSUME IInv, NEW c \in Block
  PROVE  Forest(owner) /\ Forest([owner EXCEPT ![c] = None])
<1> USE NoneAssumption DEF IInv, TypeOK
<1>1. Forest(owner)
  BY DEF Forest, FramesAgree, NoCycle, OwnerFrames, Acyclic
<1> DEFINE own == [owner EXCEPT ![c] = None]
<1>2. own \in [Block -> Block \cup {None}] /\ \A b \in Block \ live : own[b] = None
  OBVIOUS
<1>3. FramesAgree(own)
  BY DEF FramesAgree, OwnerFrames
<1>4. ASSUME NEW S \in SUBSET live, S # {}
      PROVE  \E b \in S : own[b] \notin S
  <2>1. CASE c \in S
    BY <2>1
  <2>2. CASE c \notin S
    BY <1>4, <2>2 DEF Acyclic
  <2> QED  BY <2>1, <2>2
<1> QED  BY <1>1, <1>2, <1>3, <1>4 DEF Forest, NoCycle

\* Linking a child below an owner outside its graph gives a forest again, and
\* the child's graph joins the frame of that owner.
LEMMA LinkStep ==
  ASSUME IInv, NEW own, Forest(own), NEW p \in Block, NEW c \in Block,
         MayAttach(own, p, c), LinkOwner(own, p, c), live' = live
  PROVE  /\ owner' \in [Block -> Block \cup {None}]
         /\ frame' \in [Block -> Frame]
         /\ \A b \in Block \ live' : owner'[b] = None
         /\ OwnerFrames' /\ Acyclic'
         /\ \A b \in live : frame'[b] \in {frame[b], frame[p]}
<1> USE NoneAssumption DEF IInv, TypeOK
<1> DEFINE G == Graph(live, own, c)
<1>1. p \in live /\ c \in live /\ p # c /\ p \notin G
  BY DEF MayAttach
<1>2. c \in G /\ G \subseteq live
  BY <1>1, GraphSelf
<1>3. own \in [Block -> Block \cup {None}]
  BY DEF Forest
<1>4. \A b \in Block : owner'[b] = IF b = c THEN p ELSE own[b]
  BY <1>3 DEF LinkOwner
<1>5. \A b \in Block : frame'[b] = IF b \in G THEN frame[p] ELSE frame[b]
  BY DEF LinkOwner, MoveGraph
<1>6. owner' \in [Block -> Block \cup {None}]
  BY <1>3 DEF LinkOwner
<1>7. frame' \in [Block -> Frame]
  BY <1>1 DEF LinkOwner, MoveGraph
<1>8. \A b \in Block \ live' : owner'[b] = None
  BY <1>1, <1>4 DEF Forest
<1>9. ASSUME NEW b \in live, owner'[b] # None
      PROVE  owner'[b] \in live /\ frame'[b] = frame'[owner'[b]]
  <2>1. CASE b = c
    BY <1>1, <1>2, <1>4, <1>5, <2>1
  <2>2. CASE b # c
    <3>1. owner'[b] = own[b] /\ own[b] \in live /\ frame[b] = frame[own[b]]
      BY <1>4, <1>9, <2>2 DEF Forest, FramesAgree
    <3>2. b \in G <=> own[b] \in G
      BY <1>1, <2>2, GraphOwner, GraphClosed DEF ChildClosed
    <3> QED  BY <1>5, <3>1, <3>2
  <2> QED  BY <2>1, <2>2
<1>10. ASSUME NEW S \in SUBSET live, S # {}, \A b \in S : owner'[b] \in S
       PROVE  FALSE
  <2>1. CASE c \notin S
    BY <1>4, <1>10, <2>1 DEF Forest, NoCycle
  <2>2. CASE c \in S
    <3>1. p \in S \ G
      BY <1>1, <1>4, <1>10, <2>2
    <3>2. ASSUME NEW b \in S \ G
          PROVE  own[b] \in S \ G
      <4>1. own[b] \in S
        BY <1>2, <1>4, <1>10
      <4>2. own[b] \notin G
        BY GraphClosed DEF ChildClosed
      <4> QED  BY <4>1, <4>2
    <3> QED  BY <3>1, <3>2 DEF Forest, NoCycle
  <2> QED  BY <2>1, <2>2
<1>11. OwnerFrames'
  BY <1>9 DEF OwnerFrames
<1>12. Acyclic'
  BY <1>10 DEF Acyclic
<1> QED  BY <1>5, <1>6, <1>7, <1>8, <1>11, <1>12

-----------------------------------------------------------------------------
(* The inductive invariant.                                                *)

\* The empty runtime satisfies the invariant.
LEMMA InitInv == Init => IInv
BY NoneAssumption, MaxFrameAssumption
   DEF Init, IInv, TypeOK, OwnerFrames, Acyclic, FramesOpen, Frame

\* A new block of an open frame, owned by nobody, keeps the invariant.
LEMMA AllocStep ==
  ASSUME IInv, NEW b \in Block, NEW f \in Frame, f <= current_frame,
         NEW known \in BOOLEAN, AllocIn(b, f, known)
  PROVE  IInv'
<1> USE NoneAssumption, MaxFrameAssumption DEF IInv, TypeOK, AllocIn
<1>1. TypeOK'
  OBVIOUS
<1>2. owner[b] = None /\ live' = live \cup {b} /\ frame' = [frame EXCEPT ![b] = f]
  OBVIOUS
<1>3. OwnerFrames'
  BY <1>2 DEF OwnerFrames
<1>4. ASSUME NEW S \in SUBSET live', S # {}
      PROVE  \E x \in S : owner'[x] \notin S
  <2>1. CASE b \in S
    BY <1>2, <2>1
  <2>2. CASE b \notin S
    BY <1>2, <1>4, <2>2 DEF Acyclic
  <2> QED  BY <2>1, <2>2
<1>5. FramesOpen'
  BY <1>2 DEF FramesOpen
<1> QED  BY <1>1, <1>3, <1>4, <1>5 DEF Acyclic

\* Releasing a block with its graph keeps the invariant.
LEMMA ReleaseStep ==
  ASSUME IInv, NEW b \in Block, Release(b)
  PROVE  IInv'
<1> DEFINE D == Graph(live, owner, b)
<1>1. b \in live
  BY DEF Release, IInv, TypeOK
<1>2. D \in SUBSET live /\ ChildClosed(live, owner, D)
  BY <1>1, GraphSelf, GraphClosed
<1>3. /\ owner' \in [Block -> Block \cup {None}]
      /\ frame' \in [Block -> Frame]
      /\ \A x \in Block \ live' : owner'[x] = None
      /\ OwnerFrames' /\ Acyclic'
      /\ \A x \in live' : x \in live /\ x \notin D /\ frame'[x] = frame[x]
  <2> HIDE DEF D
  <2>1. /\ live' = live \ D
        /\ owner' = [x \in Block |-> IF x \in D THEN None ELSE owner[x]]
        /\ frame' = [x \in Block |-> IF x \in D THEN 0 ELSE frame[x]]
    BY DEF Release, Free, D
  <2> QED  BY <1>2, <2>1, FreeStep
<1>4. live' = live \ D /\ registered' = registered \ D /\ current_frame' = current_frame
  BY DEF Release, Free
<1>5. TypeOK'
  BY <1>3, <1>4 DEF IInv, TypeOK
<1>6. FramesOpen'
  BY <1>3, <1>4 DEF IInv, FramesOpen
<1> QED  BY <1>3, <1>5, <1>6 DEF IInv

\* A pop frees exactly the blocks of its frame: the frames of a graph agree,
\* so the graphs hanging below that frame's blocks hold no others.
LEMMA PopFrees ==
  ASSUME IInv,
         NEW h \in live, NEW b \in Graph(live, owner, h)
  PROVE  frame[b] = frame[h]
<1> DEFINE S == {x \in live : frame[x] = frame[h]}
<1>1. h \in S /\ S \in SUBSET live
  OBVIOUS
<1>2. ChildClosed(live, owner, S)
  BY NoneAssumption DEF ChildClosed, IInv, OwnerFrames, TypeOK
<1>3. Graph(live, owner, h) \subseteq S
  <2> HIDE DEF S
  <2> QED  BY <1>1, <1>2, GraphLeast
<1> QED  BY <1>3

\* A pop keeps the invariant: what it leaves are the outer frames' graphs.
LEMMA PopStep ==
  ASSUME IInv, FramePop
  PROVE  IInv' /\ live' = {b \in live : frame[b] < current_frame}
<1> USE MaxFrameAssumption DEF IInv, TypeOK, Frame
<1> DEFINE top == {b \in live : frame[b] = current_frame}
           D   == UNION {Graph(live, owner, h) : h \in top}
<1>1. D = top
  <2>1. top \subseteq D
    BY GraphSelf
  <2>2. D \subseteq top
    BY PopFrees, GraphSelf
  <2> QED  BY <2>1, <2>2
<1>2. /\ live' = live \ top
      /\ owner' = [x \in Block |-> IF x \in top THEN None ELSE owner[x]]
      /\ frame' = [x \in Block |-> IF x \in top THEN 0 ELSE frame[x]]
      /\ registered' = registered \ top
      /\ current_frame > 0 /\ current_frame' = current_frame - 1
  <2> HIDE DEF top
  <2> QED  BY <1>1 DEF FramePop, Free, top
<1>3. ChildClosed(live, owner, top)
  BY NoneAssumption DEF ChildClosed, OwnerFrames
<1>4. /\ owner' \in [Block -> Block \cup {None}]
      /\ frame' \in [Block -> Frame]
      /\ \A x \in Block \ live' : owner'[x] = None
      /\ OwnerFrames' /\ Acyclic'
      /\ \A x \in live' : x \in live /\ x \notin top /\ frame'[x] = frame[x]
  <2>1. top \in SUBSET live
    OBVIOUS
  <2> HIDE DEF top, D
  <2> QED  BY <1>2, <1>3, <2>1, FreeStep
<1>5. \A b \in live : frame[b] \in 0 .. MaxFrame /\ frame[b] <= current_frame
  BY DEF FramesOpen
<1>6. TypeOK'
  BY <1>2, <1>4, <1>5
<1>7. FramesOpen'
  BY <1>2, <1>4, <1>5 DEF FramesOpen
<1>8. live' = {b \in live : frame[b] < current_frame}
  BY <1>2, <1>5
<1> QED  BY <1>4, <1>6, <1>7, <1>8

\* A reallocation frees the old graph and adds one block nobody owns.
LEMMA ReallocStep ==
  ASSUME IInv, NEW old \in Block, NEW new \in Block, NEW known \in BOOLEAN,
         Realloc(old, new, known)
  PROVE  IInv'
<1> USE NoneAssumption, MaxFrameAssumption DEF IInv, TypeOK
<1> DEFINE D == Graph(live, owner, old)
<1>1. old \in live /\ new \notin live
  BY DEF Realloc
<1>2. D \in SUBSET live /\ ChildClosed(live, owner, D)
  BY <1>1, GraphSelf, GraphClosed
<1>3. /\ live' = (live \ D) \cup {new}
      /\ registered' = (registered \ D) \cup (IF known THEN {new} ELSE {})
      /\ owner' = [b \in Block |-> IF b \in D THEN None ELSE owner[b]]
      /\ frame' = [b \in Block |-> IF b = new THEN current_frame
                                   ELSE IF b \in D THEN 0 ELSE frame[b]]
      /\ current_frame' = current_frame
  BY DEF Realloc
<1> HIDE DEF D
<1>4. owner'[new] = None /\ frame'[new] = current_frame
  BY <1>1, <1>3
<1>5. \A b \in live' \ {new} : /\ b \in live /\ b \notin D
                               /\ owner'[b] = owner[b] /\ frame'[b] = frame[b]
  BY <1>3
<1>6. TypeOK'
  BY <1>1, <1>2, <1>3 DEF Frame
<1>7. OwnerFrames'
  <2> SUFFICES ASSUME NEW c \in live', owner'[c] # None
               PROVE  owner'[c] \in live' /\ frame'[c] = frame'[owner'[c]]
    BY DEF OwnerFrames
  <2>1. c # new /\ owner[c] \in live /\ owner[c] \notin D /\ owner[c] # new
    BY <1>1, <1>2, <1>4, <1>5 DEF OwnerFrames, ChildClosed
  <2> QED  BY <1>3, <1>5, <2>1 DEF OwnerFrames
<1>8. ASSUME NEW S \in SUBSET live', S # {}
      PROVE  \E b \in S : owner'[b] \notin S
  <2>1. CASE new \in S
    <3>1. None \notin S
      BY <1>6
    <3> QED  BY <1>4, <2>1, <3>1
  <2>2. CASE new \notin S
    BY <1>5, <1>8, <2>2 DEF Acyclic
  <2> QED  BY <2>1, <2>2
<1>9. FramesOpen'
  <2>1. current_frame <= current_frame
    BY DEF Frame
  <2> QED  BY <1>3, <1>4, <1>5, <2>1 DEF FramesOpen
<1> QED  BY <1>6, <1>7, <1>8, <1>9 DEF Acyclic

\* What remains of the invariant once LinkStep has dealt with the forest: a
\* graph is only ever linked into a frame some live block is already in.
LEMMA AttachStep ==
  ASSUME IInv, NEW own, Forest(own), NEW p \in Block, NEW c \in Block,
         MayAttach(own, p, c), LinkOwner(own, p, c),
         UNCHANGED <<live, registered, current_frame>>
  PROVE  IInv'
<1>1. /\ owner' \in [Block -> Block \cup {None}]
      /\ frame' \in [Block -> Frame]
      /\ \A b \in Block \ live' : owner'[b] = None
      /\ OwnerFrames' /\ Acyclic'
      /\ \A b \in live : frame'[b] \in {frame[b], frame[p]}
  BY LinkStep
<1>2. p \in live
  BY DEF MayAttach, IInv, TypeOK
<1>3. TypeOK'
  BY <1>1 DEF IInv, TypeOK
<1>4. FramesOpen'
  BY <1>1, <1>2 DEF IInv, FramesOpen
<1> QED  BY <1>1, <1>3, <1>4 DEF IInv

\* yc_replace_child detaches before it attaches; both forests are sound.
LEMMA ReplaceStep ==
  ASSUME IInv, NEW p \in Block, NEW new \in Block, NEW old \in Block \cup {None},
         ReplaceChild(p, old, new)
  PROVE  IInv'
<1> DEFINE own == IF old \in registered /\ owner[old] = p
                  THEN [owner EXCEPT ![old] = None] ELSE owner
<1>1. Forest(own)
  BY DetachForest DEF IInv, TypeOK
<1>2. UNCHANGED <<live, registered, current_frame>>
  BY DEF ReplaceChild
<1>3. \/ MayAttach(own, p, new) /\ LinkOwner(own, p, new)
      \/ owner' = own /\ UNCHANGED frame
  BY DEF ReplaceChild
<1> HIDE DEF own
<1>4. CASE MayAttach(own, p, new) /\ LinkOwner(own, p, new)
  BY <1>1, <1>2, <1>4, AttachStep
<1>5. CASE owner' = own /\ UNCHANGED frame
  BY <1>1, <1>2, <1>5
     DEF IInv, TypeOK, Forest, FramesAgree, NoCycle, OwnerFrames, Acyclic, FramesOpen
<1> QED  BY <1>3, <1>4, <1>5

\* A root's graph only ever escapes outwards.
LEMMA EscapeStep ==
  ASSUME IInv, NEW r \in live, owner[r] = None, NEW f \in Frame, f < frame[r],
         frame' = MoveGraph(owner, r, f),
         UNCHANGED <<live, registered, owner, current_frame>>
  PROVE  IInv'
<1>1. /\ frame' \in [Block -> Frame]
      /\ OwnerFrames'
      /\ \A b \in live : frame'[b] = IF b \in Graph(live, owner, r) THEN f ELSE frame[b]
  BY MoveRootStep
<1>2. TypeOK'
  BY <1>1 DEF IInv, TypeOK
<1>3. Acyclic'
  BY DEF IInv, Acyclic
<1>4. f <= current_frame
  BY MaxFrameAssumption DEF IInv, FramesOpen, TypeOK, Frame
<1>5. FramesOpen'
  BY <1>1, <1>4 DEF IInv, FramesOpen
<1> QED  BY <1>1, <1>2, <1>3, <1>5 DEF IInv

\* Moving a whole frame out moves whole graphs out.
LEMMA MoveFrameStep ==
  ASSUME IInv, MoveFrameToParent
  PROVE  IInv'
<1> USE NoneAssumption, MaxFrameAssumption DEF IInv, TypeOK
<1> DEFINE roots == {r \in live : \E b \in live : frame[b] = current_frame /\ IsRootOf(r, b)}
           Moved(b) == \E r \in roots : b \in Graph(live, owner, r)
<1>1. /\ current_frame > 0
      /\ frame' = [b \in Block |-> IF Moved(b) THEN current_frame - 1 ELSE frame[b]]
      /\ UNCHANGED <<live, registered, owner, current_frame>>
  BY DEF MoveFrameToParent
<1>2. ASSUME NEW c \in live, owner[c] # None
      PROVE  Moved(c) <=> Moved(owner[c])
  <2>1. \A r \in roots : r \in live /\ owner[r] = None
    BY DEF IsRootOf
  <2>2. \A r \in roots : c \in Graph(live, owner, r) <=> owner[c] \in Graph(live, owner, r)
    <3> HIDE DEF roots
    <3> QED  BY <1>2, <2>1, GraphOwner, GraphClosed DEF ChildClosed
  <2> QED  BY <2>2
<1> HIDE DEF Moved
<1>3. current_frame - 1 \in Frame /\ current_frame - 1 <= current_frame
  BY <1>1 DEF Frame
<1>4. TypeOK'
  BY <1>1, <1>3
<1>5. OwnerFrames'
  BY <1>1, <1>2 DEF OwnerFrames
<1>6. Acyclic'
  BY <1>1 DEF Acyclic
<1>7. FramesOpen'
  BY <1>1, <1>3 DEF FramesOpen
<1> QED  BY <1>4, <1>5, <1>6, <1>7

-----------------------------------------------------------------------------
\* Every step of the runtime keeps the invariant.
LEMMA NextInv == IInv /\ [Next]_vars => IInv'
<1> SUFFICES ASSUME IInv, [Next]_vars PROVE IInv'
  OBVIOUS
<1> USE MaxFrameAssumption
<1>0. current_frame \in Frame /\ live \in SUBSET Block /\ registered \in SUBSET live
  BY DEF IInv, TypeOK
<1>1. CASE FramePush
  <2>1. TypeOK'
    BY <1>1 DEF IInv, TypeOK, FramePush, Frame
  <2>2. FramesOpen'
    BY <1>1 DEF IInv, TypeOK, FramesOpen, FramePush, Frame
  <2> QED  BY <1>1, <2>1, <2>2 DEF IInv, OwnerFrames, Acyclic, FramePush
<1>2. CASE FramePop
  BY <1>2, PopStep
<1>3. ASSUME NEW b \in Block, NEW known \in BOOLEAN, Alloc(b, known)
      PROVE  IInv'
  <2>1. current_frame <= current_frame
    BY <1>0 DEF Frame
  <2> QED  BY <1>0, <1>3, <2>1, AllocStep DEF Alloc
<1>4. ASSUME NEW b \in Block, NEW known \in BOOLEAN, KeepString(b, known)
      PROVE  IInv'
  <2> DEFINE f == IF current_frame <= 1 THEN current_frame ELSE 1
  <2>1. f \in Frame /\ f <= current_frame
    BY <1>0 DEF Frame
  <2>2. AllocIn(b, f, known)
    BY <1>4 DEF KeepString
  <2> HIDE DEF f
  <2> QED  BY <2>1, <2>2, AllocStep
<1>5. ASSUME NEW b \in Block, Release(b)
      PROVE  IInv'
  BY <1>5, ReleaseStep
<1>6. ASSUME NEW old \in Block, NEW new \in Block, NEW known \in BOOLEAN,
             Realloc(old, new, known)
      PROVE  IInv'
  BY <1>6, ReallocStep
<1>7. ASSUME NEW p \in Block, NEW c \in Block, AttachChild(p, c)
      PROVE  IInv'
  <2>1. Forest(owner)
    BY DetachForest
  <2> QED  BY <1>7, <2>1, AttachStep DEF AttachChild
<1>8. ASSUME NEW p \in Block, NEW c \in Block, AttachChildToOwner(p, c)
      PROVE  IInv'
  <2>1. Forest(owner)
    BY DetachForest
  <2>2. PICK r \in live : MayAttach(owner, r, c) /\ LinkOwner(owner, r, c)
    BY <1>8 DEF AttachChildToOwner
  <2> QED  BY <1>0, <1>8, <2>1, <2>2, AttachStep DEF AttachChildToOwner
<1>9. ASSUME NEW p \in Block, NEW new \in Block, NEW old \in Block \cup {None},
             ReplaceChild(p, old, new)
      PROVE  IInv'
  BY <1>9, ReplaceStep
<1>10. ASSUME NEW b \in Block, NEW levels \in 1 .. MaxFrame, MoveToAncestor(b, levels)
       PROVE  IInv'
  <2>1. PICK r \in live : /\ owner[r] = None /\ frame[r] > Target(levels)
                          /\ frame' = MoveGraph(owner, r, Target(levels))
    BY <1>10 DEF MoveToAncestor, IsRootOf
  <2>2. Target(levels) \in Frame /\ Target(levels) < frame[r]
    BY <1>0, <2>1 DEF Target, Frame, IInv, TypeOK
  <2> QED  BY <1>10, <2>1, <2>2, EscapeStep DEF MoveToAncestor
<1>11. ASSUME NEW b \in Block, MoveToRoot(b)
       PROVE  IInv'
  <2>1. PICK r \in live : owner[r] = None /\ frame[r] > 1 /\ frame' = MoveGraph(owner, r, 1)
    BY <1>11 DEF MoveToRoot, IsRootOf
  <2>2. 1 \in Frame /\ 1 < frame[r]
    BY <2>1 DEF Frame, IInv, TypeOK
  <2> QED  BY <1>11, <2>1, <2>2, EscapeStep DEF MoveToRoot
<1>12. CASE MoveFrameToParent
  BY <1>12, MoveFrameStep
<1>13. CASE RuntimeShutdown
  BY <1>13, NoneAssumption
     DEF RuntimeShutdown, IInv, TypeOK, OwnerFrames, Acyclic, FramesOpen, Frame
<1>14. CASE UNCHANGED vars
  BY <1>14 DEF vars, IInv, TypeOK, OwnerFrames, Acyclic, FramesOpen
<1> QED
  BY <1>1, <1>2, <1>3, <1>4, <1>5, <1>6, <1>7, <1>8, <1>9, <1>10, <1>11,
     <1>12, <1>13, <1>14 DEF Next

\* The invariant holds in every reachable state of every instance.
THEOREM Invariance == Spec => []IInv
BY InitInv, NextInv, PTL DEF Spec

\* Types: freed blocks are unowned and the registry knows only live blocks.
THEOREM TypeCorrect == Spec => []TypeOK
<1>1. IInv => TypeOK
  BY DEF IInv
<1> QED  BY <1>1, Invariance, PTL

\* Owner and child share a lifetime: both are live, in one frame.
THEOREM OwnerFramesHold == Spec => []OwnerFrames
<1>1. IInv => OwnerFrames
  BY DEF IInv
<1> QED  BY <1>1, Invariance, PTL

\* No sequence of attach and replace calls closes an owner cycle.
THEOREM OwnersAcyclic == Spec => []Acyclic
<1>1. IInv => Acyclic
  BY DEF IInv
<1> QED  BY <1>1, Invariance, PTL

\* No block is ever linked into a frame that no pop will reach.
THEOREM NoBlockBeyondTheFrames == Spec => []FramesOpen
<1>1. IInv => FramesOpen
  BY DEF IInv
<1> QED  BY <1>1, Invariance, PTL

\* A pop frees the innermost frame's blocks and no others.
THEOREM PopIsExact == Spec => PopFreesTheFrame
<1>1. IInv /\ [Next]_vars => [FramePop => live' = {b \in live : frame[b] < current_frame}]_vars
  BY PopStep
<1> QED  BY <1>1, Invariance, PTL DEF Spec, PopFreesTheFrame

-----------------------------------------------------------------------------
(* Roots.                                                                  *)

\* The walk up the owners of a live block ends in a root (yc_owner_root).
LEMMA RootExists ==
  ASSUME IInv, NEW b \in live
  PROVE  \E r \in live : IsRootOf(r, b)
<1> USE DEF IInv, TypeOK
<1> DEFINE above == {a \in live : b \in Graph(live, owner, a)}
<1>1. b \in above /\ above \in SUBSET live
  BY GraphSelf
<1>2. PICK r \in above : owner[r] \notin above
  BY <1>1 DEF Acyclic
<1>3. owner[r] = None
  <2> SUFFICES ASSUME owner[r] # None PROVE FALSE
    OBVIOUS
  <2>1. owner[r] \in live
    BY DEF OwnerFrames
  <2>2. r \in Graph(live, owner, owner[r])
    BY <2>1, GraphSelf, GraphClosed DEF ChildClosed
  <2>3. b \in Graph(live, owner, owner[r])
    BY <2>1, <2>2, GraphNested
  <2> QED  BY <1>2, <2>1, <2>3
<1> QED  BY <1>3 DEF IsRootOf

\* A block lies in the graph of one root only.
LEMMA RootUnique ==
  ASSUME IInv, NEW b \in live, NEW r \in live, NEW q \in live,
         IsRootOf(r, b), IsRootOf(q, b)
  PROVE  r = q
<1> SUFFICES ASSUME r # q PROVE FALSE
  OBVIOUS
<1> USE NoneAssumption DEF IInv, TypeOK, IsRootOf
<1> DEFINE both == Graph(live, owner, r) \cap Graph(live, owner, q)
<1>1. None \notin both /\ both \in SUBSET live /\ b \in both
  BY GraphSelf
<1>2. ASSUME NEW x \in both PROVE owner[x] \in both
  <2>1. x # r /\ x # q
    BY <1>1, GraphOwner, GraphSelf
  <2> QED  BY <2>1, GraphOwner
<1> QED  BY <1>1, <1>2 DEF Acyclic

\* After an escape by so many levels the whole graph outlives as many pops.
THEOREM EscapeIsWhole == Spec => EscapeReachesTarget
<1> DEFINE Reached == \A b \in live, levels \in 1 .. MaxFrame :
       MoveToAncestor(b, levels) =>
         \A r \in live : IsRootOf(r, b) =>
           \A x \in Graph(live, owner, r) : frame'[x] <= Target(levels)
<1>1. IInv /\ [Next]_vars => [Reached]_vars
  <2> SUFFICES ASSUME IInv, NEW b \in live, NEW levels \in 1 .. MaxFrame,
                      MoveToAncestor(b, levels), NEW r \in live, IsRootOf(r, b),
                      NEW x \in Graph(live, owner, r)
               PROVE  frame'[x] <= Target(levels)
    OBVIOUS
  <2>1. PICK q \in live : IsRootOf(q, b) /\ frame' = MoveGraph(owner, q, Target(levels))
    BY DEF MoveToAncestor
  <2>2. q = r
    BY <2>1, RootUnique
  <2>3. x \in Block
    BY GraphSelf DEF IInv, TypeOK
  <2>4. frame'[x] = Target(levels)
    BY <2>1, <2>2, <2>3 DEF MoveGraph
  <2>5. Target(levels) <= Target(levels)
    BY MaxFrameAssumption DEF Target, IInv, TypeOK, Frame
  <2> QED  BY <2>4, <2>5
<1> QED  BY <1>1, Invariance, PTL DEF Spec, EscapeReachesTarget

=============================================================================
