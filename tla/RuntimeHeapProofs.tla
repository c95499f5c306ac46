-------------------------- MODULE RuntimeHeapProofs --------------------------
(***************************************************************************)
(* Proofs about RuntimeHeap, for every finite set of blocks and every      *)
(* bound on the frames.  HeapInv is the inductive invariant: the lists are *)
(* exact (Shape) and the frames agree along the edges of the forest they   *)
(* stand for (Agree).  Every entry point keeps it and has on the lists the *)
(* effect that module Ownership gives it on the forest.                    *)
(***************************************************************************)
EXTENDS RuntimeHeap, FiniteSetTheorems, WellFoundedInduction, TLAPS

-----------------------------------------------------------------------------
(* Facts about graphs.                                                     *)

\* The graph of a block of L contains the block and only blocks of L.
LEMMA GraphSelf ==
  ASSUME NEW L, NEW own, NEW h \in L
  PROVE  h \in Forest!Graph(L, own, h) /\ Forest!Graph(L, own, h) \subseteq L
BY DEF Forest!Graph

\* A graph contains the children of its members.
LEMMA GraphClosed ==
  ASSUME NEW L, NEW own, NEW h
  PROVE  Forest!ChildClosed(L, own, Forest!Graph(L, own, h))
BY DEF Forest!Graph, Forest!ChildClosed

\* A graph is within every child-closed set that contains its top.
LEMMA GraphLeast ==
  ASSUME NEW L, NEW own, NEW h, NEW S \in SUBSET L, h \in S, Forest!ChildClosed(L, own, S)
  PROVE  Forest!Graph(L, own, h) \subseteq S
BY DEF Forest!Graph

\* Every block of a graph but its top is owned inside the graph.
LEMMA GraphOwner ==
  ASSUME NEW L, NEW own, NEW h \in L, NEW b \in Forest!Graph(L, own, h), b # h
  PROVE  own[b] \in Forest!Graph(L, own, h)
<1> DEFINE G == Forest!Graph(L, own, h)
<1> SUFFICES ASSUME own[b] \notin G PROVE FALSE
  OBVIOUS
<1>1. G \ {b} \in SUBSET L /\ h \in G \ {b}
  BY GraphSelf
<1>2. Forest!ChildClosed(L, own, G \ {b})
  BY GraphClosed DEF Forest!ChildClosed
<1>3. G \subseteq G \ {b}
  <2> HIDE DEF G
  <2>1. Forest!Graph(L, own, h) \subseteq G \ {b}
    BY <1>1, <1>2, GraphLeast
  <2> QED  BY <2>1 DEF G
<1> QED  BY <1>3

\* The graph of a member lies inside the graph.
LEMMA GraphNested ==
  ASSUME NEW L, NEW own, NEW h \in L, NEW b \in Forest!Graph(L, own, h)
  PROVE  Forest!Graph(L, own, b) \subseteq Forest!Graph(L, own, h)
BY GraphSelf, GraphClosed, GraphLeast


-----------------------------------------------------------------------------
(* Numbers and loops.                                                      *)

\* Induction over the natural numbers, for a set.
LEMMA Induction ==
  ASSUME NEW S, 0 \in S, \A n \in Nat : n \in S => n + 1 \in S
  PROVE  Nat \subseteq S
<1> SUFFICES ASSUME NEW m \in Nat, m \notin S PROVE FALSE
  OBVIOUS
<1> DEFINE T == {n \in Nat : n \notin S}
<1>1. PICK x \in T : \A y \in T : ~ (<<y, x>> \in OpToRel(<, Nat))
  <2>1. T \subseteq Nat /\ T # {}
    OBVIOUS
  <2> HIDE DEF T
  <2> QED
    BY <2>1, NatLessThanWellFounded, WFMin, Zenon
<1>2. \A y \in T : ~ (y < x)
  BY <1>1 DEF OpToRel
<1>3. x - 1 \in Nat /\ x - 1 \notin T
  BY <1>2
<1> QED
  BY <1>3

\* The first n rounds of a loop.
Rounds(X, step, x, n, r) ==
  r \in [0 .. n -> X] /\ r[0] = x /\ \A i \in 0 .. n - 1 : r[i + 1] = step[r[i]]

\* They are the same however they are written down,
LEMMA RoundsUnique ==
  ASSUME NEW X, NEW step \in [X -> X], NEW x \in X, NEW n \in Nat, NEW k \in Nat, n <= k,
         NEW r, NEW q, Rounds(X, step, x, n, r), Rounds(X, step, x, k, q)
  PROVE  \A i \in 0 .. n : r[i] = q[i]
<1> DEFINE S == {i \in Nat : i <= n => r[i] = q[i]}
<1>1. 0 \in S
  BY DEF Rounds
<1>2. ASSUME NEW i \in Nat, i \in S PROVE i + 1 \in S
  <2>1. CASE i + 1 <= n
    <3>1. i \in 0 .. n - 1 /\ i \in 0 .. k - 1 /\ r[i] = q[i]
      BY <1>2, <2>1
    <3> QED
      BY <3>1 DEF Rounds
  <2> QED
    BY <2>1
<1>3. Nat \subseteq S
  <2> HIDE DEF S
  <2> QED
    BY <1>1, <1>2, Induction
<1> QED
  BY <1>3

\* and there are as many as one likes.
LEMMA RoundsExist ==
  ASSUME NEW X, NEW step \in [X -> X], NEW x \in X, NEW n \in Nat
  PROVE  \E r : Rounds(X, step, x, n, r)
<1> DEFINE S == {i \in Nat : \E r : Rounds(X, step, x, i, r)}
<1>1. 0 \in S
  <2>1. Rounds(X, step, x, 0, [i \in 0 .. 0 |-> x])
    BY DEF Rounds
  <2> QED
    BY <2>1
<1>2. ASSUME NEW i \in Nat, i \in S PROVE i + 1 \in S
  <2>1. PICK r : Rounds(X, step, x, i, r)
    BY <1>2
  <2> DEFINE q == [j \in 0 .. i + 1 |-> IF j <= i THEN r[j] ELSE step[r[i]]]
  <2>2. Rounds(X, step, x, i + 1, q)
    BY <2>1 DEF Rounds
  <2> QED
    BY <2>2
<1>3. Nat \subseteq S
  <2> HIDE DEF S
  <2> QED
    BY <1>1, <1>2, Induction
<1> QED
  BY <1>3

\* A loop that stays in X and makes a number smaller until it is zero
Descends(X, step, m) ==
  \A s \in X : IF m[s] = 0 THEN m[step[s]] = 0 ELSE m[step[s]] < m[s]
AllRounds(X, step, x, r) ==
  r \in [Nat -> X] /\ r[0] = x /\ \A i \in Nat : r[i + 1] = step[r[i]]

\* is done after at least as many rounds.
LEMMA Loop ==
  ASSUME NEW X, NEW step \in [X -> X], NEW x \in X, NEW m \in [X -> Nat],
         Descends(X, step, m), NEW n \in Nat, m[x] <= n
  PROVE  \E r : AllRounds(X, step, x, r) /\ m[r[n]] = 0
<1> DEFINE q(k) == CHOOSE r : Rounds(X, step, x, k, r)
<1>1. \A k \in Nat : Rounds(X, step, x, k, q(k))
  BY RoundsExist
<1> HIDE DEF q
<1> DEFINE r == [k \in Nat |-> q(k)[k]]
<1>2. r \in [Nat -> X] /\ r[0] = x
  BY <1>1 DEF Rounds
<1>3. ASSUME NEW i \in Nat PROVE r[i + 1] = step[r[i]]
  <2>1. q(i)[i] = q(i + 1)[i]
    BY <1>1, RoundsUnique
  <2>2. q(i + 1)[i + 1] = step[q(i + 1)[i]]
    BY <1>1 DEF Rounds
  <2> QED
    BY <2>1, <2>2
<1> HIDE DEF r
<1> DEFINE S == {i \in Nat : m[r[i]] = 0 \/ m[r[i]] + i <= n}
<1>4. 0 \in S
  BY <1>2
<1>5. ASSUME NEW i \in Nat, i \in S PROVE i + 1 \in S
  <2>1. m[r[i]] \in Nat /\ m[r[i + 1]] \in Nat /\ r[i] \in X
    BY <1>2
  <2>2. IF m[r[i]] = 0 THEN m[r[i + 1]] = 0 ELSE m[r[i + 1]] < m[r[i]]
    BY <1>3, <2>1 DEF Descends
  <2> QED
    BY <1>5, <2>1, <2>2
<1>6. Nat \subseteq S
  <2> HIDE DEF S
  <2> QED
    BY <1>4, <1>5, Induction
<1>7. m[r[n]] = 0
  <2>1. m[r[n]] \in Nat
    BY <1>2
  <2> QED
    BY <1>6, <2>1
<1> QED
  BY <1>2, <1>3, <1>7 DEF AllRounds

-----------------------------------------------------------------------------
(* Forests and lists.                                                      *)

NoCycleIn(L, own) == \A S \in SUBSET L : S # {} => \E b \in S : own[b] \notin S

\* The owner of a block is not in its graph.
LEMMA OwnerOutside ==
  ASSUME NEW L, NEW own, NoCycleIn(L, own), NEW h \in L
  PROVE  own[h] \notin Forest!Graph(L, own, h)
<1> SUFFICES ASSUME own[h] \in Forest!Graph(L, own, h) PROVE FALSE
  OBVIOUS
<1>1. Forest!Graph(L, own, h) \in SUBSET L /\ h \in Forest!Graph(L, own, h)
  BY GraphSelf
<1>2. \A b \in Forest!Graph(L, own, h) : own[b] \in Forest!Graph(L, own, h)
  BY GraphOwner
<1> QED
  BY <1>1, <1>2 DEF NoCycleIn

\* Two children of one block have nothing in common below them.
LEMMA ChildrenDisjoint ==
  ASSUME NEW L, NEW own, NoCycleIn(L, own), NEW y \in L, NEW z \in L, y # z, own[y] = own[z]
  PROVE  Forest!Graph(L, own, y) \cap Forest!Graph(L, own, z) = {}
<1> DEFINE I == Forest!Graph(L, own, y) \cap Forest!Graph(L, own, z)
<1>1. I \in SUBSET L
  BY GraphSelf
<1>2. y \notin I /\ z \notin I
  BY OwnerOutside, GraphOwner
<1>3. \A b \in I : own[b] \in I
  BY <1>2, GraphOwner
<1> HIDE DEF I
<1>4. I = {}
  BY <1>1, <1>3 DEF NoCycleIn
<1> QED
  BY <1>4 DEF I

Links == Block \cup {Nil}

\* The list of these members, by its links.
ListOf(first, nx, pv, members) ==
  /\ first \in members \cup {Nil}
  /\ \A b \in members :
       /\ nx[b] \in members \cup {Nil} /\ pv[b] \in members \cup {Nil}
       /\ (pv[b] = Nil) <=> (b = first)
       /\ nx[b] # Nil => pv[nx[b]] = b
       /\ pv[b] # Nil => nx[pv[b]] = b
  /\ NoCycleIn(members, pv)

\* It has a first member if it has any.
LEMMA ListFirst ==
  ASSUME NEW m \in SUBSET Block, NEW first, NEW nx, NEW pv, ListOf(first, nx, pv, m)
  PROVE  first = Nil <=> m = {}
<1>1. ASSUME m # {} PROVE first # Nil
  <2>1. PICK b \in m : pv[b] \notin m
    BY <1>1 DEF ListOf, NoCycleIn
  <2> QED
    BY <2>1, NilAssumption DEF ListOf
<1> QED
  BY <1>1 DEF ListOf

\* It depends on the links of its members alone.
LEMMA ListSame ==
  ASSUME NEW m \in SUBSET Block, NEW first, NEW nx, NEW pv, NEW nx2, NEW pv2,
         ListOf(first, nx, pv, m), \A b \in m : nx2[b] = nx[b] /\ pv2[b] = pv[b]
  PROVE  ListOf(first, nx2, pv2, m)
<1>1. NoCycleIn(m, pv2)
  BY DEF ListOf, NoCycleIn
<1>2. \A b \in m :
       /\ nx2[b] \in m \cup {Nil} /\ pv2[b] \in m \cup {Nil}
       /\ (pv2[b] = Nil) <=> (b = first)
       /\ nx2[b] # Nil => pv2[nx2[b]] = b
       /\ pv2[b] # Nil => nx2[pv2[b]] = b
  BY NilAssumption DEF ListOf
<1> QED
  BY <1>1, <1>2 DEF ListOf

\* h in front of it,
NextPushed(nx, first, h) == [nx EXCEPT ![h] = first]
PrevPushed(pv, first, h) ==
  [b \in Block |-> IF b = h THEN Nil ELSE IF b = first THEN h ELSE pv[b]]

\* A list stays one when h is put in front of it.
LEMMA ListPush ==
  ASSUME NEW m \in SUBSET Block, NEW first, NEW nx \in [Block -> Links], NEW pv,
         ListOf(first, nx, pv, m), NEW h \in Block \ m
  PROVE  ListOf(h, NextPushed(nx, first, h), PrevPushed(pv, first, h), m \cup {h})
<1> DEFINE nx2 == NextPushed(nx, first, h)
           pv2 == PrevPushed(pv, first, h)
<1>1. /\ nx2[h] = first /\ \A b \in m : nx2[b] = nx[b]
      /\ pv2[h] = Nil /\ \A b \in m : pv2[b] = IF b = first THEN h ELSE pv[b]
  BY DEF NextPushed, PrevPushed
<1>2. h # Nil /\ h \notin m /\ Nil \notin m
  BY NilAssumption
<1> HIDE DEF nx2, pv2
<1>3. NoCycleIn(m \cup {h}, pv2)
  <2> SUFFICES ASSUME NEW S \in SUBSET (m \cup {h}), S # {} PROVE \E b \in S : pv2[b] \notin S
    BY DEF NoCycleIn
  <2>1. CASE h \in S
    BY <1>1, <1>2, <2>1
  <2>2. CASE h \notin S
    <3>1. PICK b \in S : pv[b] \notin S
      BY <2>2 DEF ListOf, NoCycleIn
    <3> QED
      BY <1>1, <2>2, <3>1
  <2> QED
    BY <2>1, <2>2
<1>4. ASSUME NEW b \in m \cup {h}
      PROVE  /\ nx2[b] \in m \cup {h} \cup {Nil} /\ pv2[b] \in m \cup {h} \cup {Nil}
             /\ (pv2[b] = Nil) <=> (b = h)
             /\ nx2[b] # Nil => pv2[nx2[b]] = b
             /\ pv2[b] # Nil => nx2[pv2[b]] = b
  <2>1. CASE b = h
    BY <1>1, <1>2, <2>1 DEF ListOf
  <2>2. CASE b # h /\ b = first
    BY <1>1, <1>2, <2>2 DEF ListOf
  <2>3. CASE b # h /\ b # first
    BY <1>1, <1>2, <2>3 DEF ListOf
  <2> QED
    BY <2>1, <2>2, <2>3
<1> QED
  BY <1>3, <1>4 DEF ListOf, nx2, pv2

\* and h taken off it.
FirstWithout(first, nx, pv, h) == IF pv[h] = Nil /\ first = h THEN nx[h] ELSE first
NextWithout(nx, pv, h) ==
  [b \in Block |-> IF b = h THEN Nil ELSE IF b = pv[h] THEN nx[h] ELSE nx[b]]
PrevWithout(nx, pv, h) ==
  [b \in Block |-> IF b = h THEN Nil ELSE IF b = nx[h] THEN pv[h] ELSE pv[b]]

\* A list stays one when a member is taken off it.
LEMMA ListUnlink ==
  ASSUME NEW m \in SUBSET Block, NEW first, NEW nx, NEW pv, ListOf(first, nx, pv, m), NEW h \in m
  PROVE  ListOf(FirstWithout(first, nx, pv, h), NextWithout(nx, pv, h), PrevWithout(nx, pv, h),
                m \ {h})
<1> DEFINE nx2 == NextWithout(nx, pv, h)
           pv2 == PrevWithout(nx, pv, h)
           first2 == FirstWithout(first, nx, pv, h)
           p == pv[h]
           n == nx[h]
<1>1. \A b \in m \ {h} : /\ nx2[b] = IF b = p THEN n ELSE nx[b]
                         /\ pv2[b] = IF b = n THEN p ELSE pv[b]
  BY DEF NextWithout, PrevWithout
<1>2. Nil \notin m
  BY NilAssumption
<1>3. first2 = IF h = first THEN n ELSE first
  BY DEF FirstWithout, ListOf
<1>4. p # h /\ n # h
  <2>1. \E b \in {h} : pv[b] \notin {h}
    <3>1. {h} \in SUBSET m /\ {h} # {}
      OBVIOUS
    <3> QED
      BY <3>1 DEF ListOf, NoCycleIn
  <2> QED
    BY <1>2, <2>1 DEF ListOf
<1> HIDE DEF nx2, pv2, first2
<1>5. NoCycleIn(m \ {h}, pv2)
  <2> SUFFICES ASSUME NEW S \in SUBSET (m \ {h}), S # {} PROVE \E b \in S : pv2[b] \notin S
    BY DEF NoCycleIn
  <2>1. CASE p \in S
    <3>3. S \cup {h} \in SUBSET m /\ S \cup {h} # {}
      OBVIOUS
    <3>1. PICK b \in S \cup {h} : pv[b] \notin S \cup {h}
      BY <3>3 DEF ListOf, NoCycleIn
    <3>2. b \in S /\ b # n
      BY <1>2, <2>1, <3>1 DEF ListOf
    <3> QED
      BY <1>1, <3>1, <3>2
  <2>2. CASE p \notin S
    <3>1. PICK b \in S : pv[b] \notin S
      BY DEF ListOf, NoCycleIn
    <3> QED
      BY <1>1, <2>2, <3>1
  <2> QED
    BY <2>1, <2>2
<1>6. first2 \in (m \ {h}) \cup {Nil}
  BY <1>3, <1>4 DEF ListOf
<1>7. ASSUME NEW b \in m \ {h}
      PROVE  /\ nx2[b] \in (m \ {h}) \cup {Nil} /\ pv2[b] \in (m \ {h}) \cup {Nil}
             /\ (pv2[b] = Nil) <=> (b = first2)
             /\ nx2[b] # Nil => pv2[nx2[b]] = b
             /\ pv2[b] # Nil => nx2[pv2[b]] = b
  <2>1. /\ nx[b] \in m \cup {Nil} /\ pv[b] \in m \cup {Nil} /\ p \in m \cup {Nil}
        /\ n \in m \cup {Nil}
        /\ (pv[b] = Nil) <=> (b = first)
        /\ (p = Nil) <=> (h = first)
        /\ nx[b] # Nil => pv[nx[b]] = b
        /\ pv[b] # Nil => nx[pv[b]] = b
        /\ n # Nil => pv[n] = h
        /\ p # Nil => nx[p] = h
    <3>1. \A c \in m :
            /\ nx[c] \in m \cup {Nil} /\ pv[c] \in m \cup {Nil}
            /\ (pv[c] = Nil) <=> (c = first)
            /\ nx[c] # Nil => pv[nx[c]] = c
            /\ pv[c] # Nil => nx[pv[c]] = c
      BY DEF ListOf
    <3>2. b \in m
      OBVIOUS
    <3> QED
      BY <3>1, <3>2
  <2>2. nx2[b] \in (m \ {h}) \cup {Nil} /\ (nx2[b] # Nil => pv2[nx2[b]] = b)
    BY <1>1, <1>2, <1>4, <2>1
  <2>3. pv2[b] \in (m \ {h}) \cup {Nil} /\ (pv2[b] # Nil => nx2[pv2[b]] = b)
    BY <1>1, <1>2, <1>4, <2>1
  <2>4. (pv2[b] = Nil) <=> (b = first2)
    BY <1>1, <1>2, <1>3, <1>4, <2>1 DEF ListOf
  <2> QED
    BY <2>2, <2>3, <2>4
<1> QED
  BY <1>5, <1>6, <1>7 DEF ListOf, nx2, pv2, first2

\* What heap can be.
Heaps ==
  [live : SUBSET Block, registered : SUBSET Block,
   frame : [Block -> Frame], owner : [Block -> Links],
   prev : [List -> [Block -> Links]], next : [List -> [Block -> Links]],
   head : [Heads -> Links]]

\* A list of M holds these members.
HeapList(M, k, hd, members) == ListOf(M.head[hd], M.next[k], M.prev[k], members)

\* M has left this list as it was in H.
SameLinks(M, H, k) == M.next[k] = H.next[k] /\ M.prev[k] = H.prev[k]

\* The heads.
LEMMA HeadsApart ==
  /\ All \in Heads
  /\ \A f \in Frame : InFrame(f) \in Heads /\ InFrame(f) # All
  /\ \A b \in Block : Children(b) \in Heads /\ Children(b) # All
  /\ \A f \in Frame, b \in Block : InFrame(f) # Children(b)
  /\ \A f, g \in Frame : InFrame(f) = InFrame(g) => f = g
  /\ \A b, c \in Block : Children(b) = Children(c) => b = c
BY DEF Heads, All, InFrame, Children

\* What putting h in front of a list of heap H changes, field by field.
LEMMA PushFields ==
  ASSUME NEW H \in Heaps, NEW k \in List, NEW hd \in Heads, NEW h \in Block
  PROVE  LET M == Push(H, k, hd, h)
         IN  /\ M \in Heaps
             /\ M.live = H.live /\ M.registered = H.registered
             /\ M.frame = H.frame /\ M.owner = H.owner
             /\ \A x \in Heads : M.head[x] = IF x = hd THEN h ELSE H.head[x]
             /\ M.next[k] = NextPushed(H.next[k], H.head[hd], h)
             /\ M.prev[k] = PrevPushed(H.prev[k], H.head[hd], h)
             /\ \A j \in List \ {k} : SameLinks(M, H, j)
<1> DEFINE M == Push(H, k, hd, h)
           n == H.head[hd]
<1>1. M = [H EXCEPT !.head[hd] = h, !.next[k][h] = n, !.prev[k] = PrevPushed(H.prev[k], n, h)]
  BY DEF Push, Heaps, PrevPushed
<1>2. /\ M.live = H.live /\ M.registered = H.registered
      /\ M.frame = H.frame /\ M.owner = H.owner
      /\ M.head = [H.head EXCEPT ![hd] = h]
      /\ M.next = [H.next EXCEPT ![k] = NextPushed(H.next[k], n, h)]
      /\ M.prev = [H.prev EXCEPT ![k] = PrevPushed(H.prev[k], n, h)]
  BY <1>1 DEF Heaps, NextPushed
<1>3. n \in Links /\ h \in Links
  BY DEF Heaps, Links
<1>4. /\ NextPushed(H.next[k], n, h) \in [Block -> Links]
      /\ PrevPushed(H.prev[k], n, h) \in [Block -> Links]
  BY <1>3 DEF Heaps, NextPushed, PrevPushed, Links
<1>5. M \in Heaps
  <2>1. M = [live |-> H.live, registered |-> H.registered, frame |-> H.frame,
             owner |-> H.owner, prev |-> M.prev, next |-> M.next, head |-> M.head]
    BY <1>1 DEF Heaps
  <2>2. /\ M.prev \in [List -> [Block -> Links]]
        /\ M.next \in [List -> [Block -> Links]]
        /\ M.head \in [Heads -> Links]
    BY <1>2, <1>3, <1>4 DEF Heaps
  <2>3. /\ H.live \in SUBSET Block /\ H.registered \in SUBSET Block
        /\ H.frame \in [Block -> Frame] /\ H.owner \in [Block -> Links]
    BY DEF Heaps
  <2> HIDE DEF M
  <2> QED
    BY <2>1, <2>2, <2>3 DEF Heaps
<1> HIDE DEF M
<1> QED
  BY <1>2, <1>3, <1>4, <1>5 DEF Heaps, SameLinks, M

\* What taking h off a list of heap H changes, field by field.
LEMMA UnlinkFields ==
  ASSUME NEW H \in Heaps, NEW k \in List, NEW hd \in Heads, NEW h \in Block
  PROVE  LET M == Unlink(H, k, hd, h)
         IN  /\ M \in Heaps
             /\ M.live = H.live /\ M.registered = H.registered
             /\ M.frame = H.frame /\ M.owner = H.owner
             /\ \A x \in Heads :
                  M.head[x] = IF x = hd THEN FirstWithout(H.head[hd], H.next[k], H.prev[k], h)
                              ELSE H.head[x]
             /\ M.next[k] = NextWithout(H.next[k], H.prev[k], h)
             /\ M.prev[k] = PrevWithout(H.next[k], H.prev[k], h)
             /\ \A j \in List \ {k} : SameLinks(M, H, j)
<1> DEFINE M == Unlink(H, k, hd, h)
           first == FirstWithout(H.head[hd], H.next[k], H.prev[k], h)
           nx == NextWithout(H.next[k], H.prev[k], h)
           pv == PrevWithout(H.next[k], H.prev[k], h)
<1>1. M = [H EXCEPT !.head[hd] = first, !.next[k] = nx, !.prev[k] = pv]
  BY DEF Unlink, Heaps, FirstWithout, NextWithout, PrevWithout
<1>2. /\ first \in Links
      /\ nx \in [Block -> Links] /\ pv \in [Block -> Links]
  BY NilAssumption DEF Heaps, FirstWithout, NextWithout, PrevWithout, Links
<1> HIDE DEF first, nx, pv
<1>3. /\ M.live = H.live /\ M.registered = H.registered
      /\ M.frame = H.frame /\ M.owner = H.owner
      /\ M.head = [H.head EXCEPT ![hd] = first]
      /\ M.next = [H.next EXCEPT ![k] = nx]
      /\ M.prev = [H.prev EXCEPT ![k] = pv]
  BY <1>1 DEF Heaps
<1>4. M \in Heaps
  <2>1. M = [live |-> H.live, registered |-> H.registered, frame |-> H.frame,
             owner |-> H.owner, prev |-> M.prev, next |-> M.next, head |-> M.head]
    BY <1>1 DEF Heaps
  <2>2. /\ M.prev \in [List -> [Block -> Links]]
        /\ M.next \in [List -> [Block -> Links]]
        /\ M.head \in [Heads -> Links]
    BY <1>2, <1>3 DEF Heaps
  <2>3. /\ H.live \in SUBSET Block /\ H.registered \in SUBSET Block
        /\ H.frame \in [Block -> Frame] /\ H.owner \in [Block -> Links]
    BY DEF Heaps
  <2> HIDE DEF M
  <2> QED
    BY <2>1, <2>2, <2>3 DEF Heaps
<1> HIDE DEF M
<1>5. /\ \A x \in Heads : M.head[x] = IF x = hd THEN first ELSE H.head[x]
      /\ M.next[k] = nx /\ M.prev[k] = pv
      /\ \A j \in List \ {k} : SameLinks(M, H, j)
  BY <1>2, <1>3 DEF Heaps, SameLinks
<1> QED
  BY <1>3, <1>4, <1>5 DEF M, first, nx, pv

\* Neither disturbs a list with other members.
LEMMA ListsBeside ==
  ASSUME NEW m \in SUBSET Block, NEW first, NEW nx \in [Block -> Links], NEW pv,
         ListOf(first, nx, pv, m), NEW h \in Block,
         NEW m2 \in SUBSET Block, NEW first2, ListOf(first2, nx, pv, m2),
         m2 \cap (m \cup {h}) = {}
  PROVE  /\ ListOf(first2, NextPushed(nx, first, h), PrevPushed(pv, first, h), m2)
         /\ h \in m => ListOf(first2, NextWithout(nx, pv, h), PrevWithout(nx, pv, h), m2)
<1>1. \A b \in m2 : b # h /\ b # first
  BY NilAssumption DEF ListOf
<1>2. \A b \in m2 : /\ NextPushed(nx, first, h)[b] = nx[b]
                    /\ PrevPushed(pv, first, h)[b] = pv[b]
  BY <1>1 DEF NextPushed, PrevPushed
<1>3. ASSUME h \in m
      PROVE  \A b \in m2 : /\ NextWithout(nx, pv, h)[b] = nx[b]
                           /\ PrevWithout(nx, pv, h)[b] = pv[b]
  <2>1. \A b \in m2 : b # pv[h] /\ b # nx[h]
    BY <1>3, NilAssumption DEF ListOf
  <2> QED
    BY <1>1, <2>1 DEF NextWithout, PrevWithout
<1> QED
  BY <1>2, <1>3, ListSame

-----------------------------------------------------------------------------
(* The lists of a heap.                                                    *)

FrameLists(M, F) ==
  \A f \in Frame : HeapList(M, "frame", InFrame(f), {b \in F : M.frame[b] = f})

ChildrenOf(M, o) == {c \in M.live : M.owner[c] = o}

ChildLists(M) ==
  \A o \in Block : HeapList(M, "sibling", Children(o), ChildrenOf(M, o))

Owners(M) ==
  /\ NoCycleIn(M.live, M.owner)
  /\ \A b \in M.live : M.owner[b] \in M.live \cup {Nil}
  /\ \A b \in Block \ M.live : M.owner[b] = Nil

\* All lists are exact and owners form no cycle.
Shape(M) ==
  /\ M \in Heaps /\ M.registered \subseteq M.live
  /\ Owners(M)
  /\ HeapList(M, "all", All, M.live)
  /\ FrameLists(M, M.live) /\ ChildLists(M)

\* What M has left as it was in H.
SameAll(M, H) == SameLinks(M, H, "all") /\ M.head[All] = H.head[All]
SameFrames(M, H) ==
  /\ SameLinks(M, H, "frame") /\ M.frame = H.frame
  /\ \A f \in Frame : M.head[InFrame(f)] = H.head[InFrame(f)]
SameChildren(M, H) ==
  /\ SameLinks(M, H, "sibling") /\ M.owner = H.owner
  /\ \A o \in Block : M.head[Children(o)] = H.head[Children(o)]
SameBlocks(M, H) == M.live = H.live /\ M.registered = H.registered

\* The three kinds of list are different.
LEMMA KindsApart ==
  /\ "all" \in List /\ "frame" \in List /\ "sibling" \in List
  /\ "all" # "frame" /\ "all" # "sibling" /\ "frame" # "sibling"
BY DEF List

\* Setting a block's frame number leaves the links alone.
LEMMA FrameSet ==
  ASSUME NEW H \in Heaps, NEW h \in Block, NEW f \in Frame
  PROVE  LET M == [H EXCEPT !.frame[h] = f]
         IN  /\ M \in Heaps /\ M.frame = [H.frame EXCEPT ![h] = f] /\ M.owner = H.owner
             /\ M.live = H.live /\ M.registered = H.registered
             /\ M.head = H.head /\ M.next = H.next /\ M.prev = H.prev
<1> DEFINE M == [H EXCEPT !.frame[h] = f]
<1>1. /\ M.frame = [H.frame EXCEPT ![h] = f] /\ M.owner = H.owner
      /\ M.live = H.live /\ M.registered = H.registered
      /\ M.head = H.head /\ M.next = H.next /\ M.prev = H.prev
  BY DEF Heaps
<1>2. M.frame \in [Block -> Frame]
  BY <1>1 DEF Heaps
<1> DEFINE g == [H.frame EXCEPT ![h] = f]
<1>3. M = [H EXCEPT !.frame = g]
  OBVIOUS
<1>4. M \in Heaps
  <2>1. g \in [Block -> Frame]
    BY <1>1, <1>2
  <2> HIDE DEF g, M
  <2> QED
    BY <1>3, <2>1 DEF Heaps
<1> QED
  BY <1>1, <1>4 DEF M

\* Setting a block's owner leaves the links alone.
LEMMA OwnerSet ==
  ASSUME NEW H \in Heaps, NEW h \in Block, NEW o \in Links
  PROVE  LET M == [H EXCEPT !.owner[h] = o]
         IN  /\ M \in Heaps /\ M.owner = [H.owner EXCEPT ![h] = o] /\ M.frame = H.frame
             /\ M.live = H.live /\ M.registered = H.registered
             /\ M.head = H.head /\ M.next = H.next /\ M.prev = H.prev
<1> DEFINE M == [H EXCEPT !.owner[h] = o]
<1>1. /\ M.owner = [H.owner EXCEPT ![h] = o] /\ M.frame = H.frame
      /\ M.live = H.live /\ M.registered = H.registered
      /\ M.head = H.head /\ M.next = H.next /\ M.prev = H.prev
  BY DEF Heaps
<1>2. M.owner \in [Block -> Links]
  BY <1>1 DEF Heaps
<1> DEFINE g == [H.owner EXCEPT ![h] = o]
<1>3. M = [H EXCEPT !.owner = g]
  OBVIOUS
<1>4. M \in Heaps
  <2>1. g \in [Block -> Links]
    BY <1>1, <1>2
  <2> HIDE DEF g, M
  <2> QED
    BY <1>3, <2>1 DEF Heaps
<1> QED
  BY <1>1, <1>4 DEF M

\* yc_frame_link
LEMMA FrameLinkRight ==
  ASSUME NEW H \in Heaps, NEW F \in SUBSET Block, FrameLists(H, F),
         NEW h \in Block \ F, NEW f \in Frame
  PROVE  LET M == FrameLink(H, h, f)
         IN  /\ M \in Heaps /\ FrameLists(M, F \cup {h})
             /\ M.frame = [H.frame EXCEPT ![h] = f]
             /\ SameBlocks(M, H) /\ SameAll(M, H) /\ SameChildren(M, H)
<1> DEFINE N == [H EXCEPT !.frame[h] = f]
           M == Push(N, "frame", InFrame(f), h)
<1>1. /\ N \in Heaps /\ N.frame = [H.frame EXCEPT ![h] = f] /\ N.owner = H.owner
      /\ N.live = H.live /\ N.registered = H.registered
      /\ N.head = H.head /\ N.next = H.next /\ N.prev = H.prev
  BY FrameSet
<1>2. InFrame(f) \in Heads
  BY HeadsApart
<1> HIDE DEF N
<1>3. /\ M \in Heaps
      /\ M.live = N.live /\ M.registered = N.registered
      /\ M.frame = N.frame /\ M.owner = N.owner
      /\ \A x \in Heads : M.head[x] = IF x = InFrame(f) THEN h ELSE N.head[x]
      /\ M.next["frame"] = NextPushed(N.next["frame"], N.head[InFrame(f)], h)
      /\ M.prev["frame"] = PrevPushed(N.prev["frame"], N.head[InFrame(f)], h)
      /\ \A j \in List \ {"frame"} : SameLinks(M, N, j)
  BY <1>1, <1>2, KindsApart, PushFields
<1> HIDE DEF M
<1>4. SameBlocks(M, H) /\ SameAll(M, H) /\ SameChildren(M, H)
  BY <1>1, <1>3, HeadsApart, KindsApart DEF SameBlocks, SameAll, SameChildren, SameLinks
<1>5. M.frame = [H.frame EXCEPT ![h] = f]
  BY <1>1, <1>3
<1>6. ASSUME NEW g \in Frame
      PROVE  HeapList(M, "frame", InFrame(g), {b \in F \cup {h} : M.frame[b] = g})
  <2> DEFINE m == {b \in F : H.frame[b] = f}
             nx == H.next["frame"]
             pv == H.prev["frame"]
             first == H.head[InFrame(f)]
  <2>1. H.frame \in [Block -> Frame] /\ nx \in [Block -> Links]
    BY KindsApart DEF Heaps
  <2>2. ListOf(first, nx, pv, m) /\ m \in SUBSET Block /\ h \notin m
    BY DEF FrameLists, HeapList
  <2>3. /\ M.next["frame"] = NextPushed(nx, first, h)
        /\ M.prev["frame"] = PrevPushed(pv, first, h)
    BY <1>1, <1>3
  <2>4. CASE g = f
    <3>1. {b \in F \cup {h} : M.frame[b] = g} = m \cup {h}
      BY <1>5, <2>1, <2>4
    <3>2. M.head[InFrame(g)] = h
      BY <1>2, <1>3, <2>4
    <3> HIDE DEF m, nx, pv, first
    <3>3. ListOf(h, NextPushed(nx, first, h), PrevPushed(pv, first, h), m \cup {h})
      BY <2>1, <2>2, ListPush
    <3> QED
      BY <2>3, <3>1, <3>2, <3>3 DEF HeapList
  <2>5. CASE g # f
    <3> DEFINE m2 == {b \in F : H.frame[b] = g}
    <3>1. {b \in F \cup {h} : M.frame[b] = g} = m2
      BY <1>5, <2>1, <2>5
    <3>2. M.head[InFrame(g)] = H.head[InFrame(g)]
      BY <1>1, <1>3, <2>5, HeadsApart
    <3>3. ListOf(H.head[InFrame(g)], nx, pv, m2)
      BY DEF FrameLists, HeapList
    <3>4. m2 \cap (m \cup {h}) = {} /\ m2 \in SUBSET Block
      BY <2>5
    <3> HIDE DEF m, m2, nx, pv, first
    <3>5. ListOf(H.head[InFrame(g)], NextPushed(nx, first, h), PrevPushed(pv, first, h), m2)
      BY <2>1, <2>2, <3>3, <3>4, ListsBeside
    <3> QED
      BY <2>3, <3>1, <3>2, <3>5 DEF HeapList
  <2> QED
    BY <2>4, <2>5
<1>7. FrameLists(M, F \cup {h})
  BY <1>6 DEF FrameLists
<1>8. FrameLink(H, h, f) = M
  BY DEF FrameLink, M, N
<1> QED
  BY <1>3, <1>4, <1>5, <1>7, <1>8

\* yc_frame_unlink
LEMMA FrameUnlinkRight ==
  ASSUME NEW H \in Heaps, NEW F \in SUBSET Block, FrameLists(H, F), NEW h \in F
  PROVE  LET M == FrameUnlink(H, h)
         IN  /\ M \in Heaps /\ FrameLists(M, F \ {h}) /\ M.frame = H.frame
             /\ SameBlocks(M, H) /\ SameAll(M, H) /\ SameChildren(M, H)
<1> DEFINE f == H.frame[h]
           M == Unlink(H, "frame", InFrame(f), h)
           nx == H.next["frame"]
           pv == H.prev["frame"]
           first == H.head[InFrame(f)]
<1>1. f \in Frame /\ InFrame(f) \in Heads
  BY HeadsApart DEF Heaps
<1>2. /\ M \in Heaps
      /\ M.live = H.live /\ M.registered = H.registered
      /\ M.frame = H.frame /\ M.owner = H.owner
      /\ \A x \in Heads : M.head[x] = IF x = InFrame(f)
                                            THEN FirstWithout(first, nx, pv, h) ELSE H.head[x]
      /\ M.next["frame"] = NextWithout(nx, pv, h)
      /\ M.prev["frame"] = PrevWithout(nx, pv, h)
      /\ \A j \in List \ {"frame"} : SameLinks(M, H, j)
  BY <1>1, KindsApart, UnlinkFields
<1> HIDE DEF M
<1>3. SameBlocks(M, H) /\ SameAll(M, H) /\ SameChildren(M, H)
  BY <1>1, <1>2, HeadsApart, KindsApart DEF SameBlocks, SameAll, SameChildren, SameLinks
<1>4. ASSUME NEW g \in Frame
      PROVE  HeapList(M, "frame", InFrame(g), {b \in F \ {h} : M.frame[b] = g})
  <2> DEFINE m == {b \in F : H.frame[b] = f}
  <2>1. H.frame \in [Block -> Frame] /\ nx \in [Block -> Links]
    BY KindsApart DEF Heaps
  <2>2. ListOf(first, nx, pv, m) /\ m \in SUBSET Block /\ h \in m
    BY <1>1 DEF FrameLists, HeapList
  <2>3. CASE g = f
    <3>1. {b \in F \ {h} : M.frame[b] = g} = m \ {h}
      BY <1>2, <2>3
    <3>2. M.head[InFrame(g)] = FirstWithout(first, nx, pv, h)
      BY <1>1, <1>2, <2>3
    <3> HIDE DEF m, nx, pv, first
    <3>3. ListOf(FirstWithout(first, nx, pv, h), NextWithout(nx, pv, h),
                 PrevWithout(nx, pv, h), m \ {h})
      BY <2>2, ListUnlink
    <3> QED
      BY <1>2, <3>1, <3>2, <3>3 DEF HeapList
  <2>4. CASE g # f
    <3> DEFINE m2 == {b \in F : H.frame[b] = g}
    <3>1. {b \in F \ {h} : M.frame[b] = g} = m2
      BY <1>2, <2>4
    <3>2. M.head[InFrame(g)] = H.head[InFrame(g)]
      BY <1>1, <1>2, <2>4, HeadsApart
    <3>3. ListOf(H.head[InFrame(g)], nx, pv, m2)
      BY DEF FrameLists, HeapList
    <3>4. m2 \cap (m \cup {h}) = {} /\ m2 \in SUBSET Block
      BY <2>4
    <3> HIDE DEF m, m2, nx, pv, first
    <3>5. ListOf(H.head[InFrame(g)], NextWithout(nx, pv, h), PrevWithout(nx, pv, h), m2)
      BY <2>1, <2>2, <3>3, <3>4, ListsBeside
    <3> QED
      BY <1>2, <3>1, <3>2, <3>5 DEF HeapList
  <2> QED
    BY <2>3, <2>4
<1>5. FrameLists(M, F \ {h})
  BY <1>4 DEF FrameLists
<1>6. FrameUnlink(H, h) = M
  BY DEF FrameUnlink, M
<1> QED
  BY <1>2, <1>3, <1>5, <1>6

\* A block moves between frames.
LEMMA MovedRight ==
  ASSUME NEW H \in Heaps, FrameLists(H, H.live), NEW h \in H.live, NEW f \in Frame
  PROVE  LET M == Moved(H, h, f)
         IN  /\ M \in Heaps /\ FrameLists(M, M.live)
             /\ M.frame = [H.frame EXCEPT ![h] = f]
             /\ SameBlocks(M, H) /\ SameAll(M, H) /\ SameChildren(M, H)
<1> DEFINE U == FrameUnlink(H, h)
           M == FrameLink(U, h, f)
<1>1. H.live \in SUBSET Block /\ H.frame \in [Block -> Frame] /\ h \in Block
  BY DEF Heaps
<1>2. CASE H.frame[h] = f
  <2>1. Moved(H, h, f) = H
    BY <1>2 DEF Moved
  <2>2. H.frame = [H.frame EXCEPT ![h] = f]
    BY <1>1, <1>2
  <2> QED
    BY <2>1, <2>2 DEF SameBlocks, SameAll, SameChildren, SameLinks
<1>3. CASE H.frame[h] # f
  <2>1. Moved(H, h, f) = M
    BY <1>3 DEF Moved
  <2>2. /\ U \in Heaps /\ FrameLists(U, H.live \ {h}) /\ U.frame = H.frame
        /\ SameBlocks(U, H) /\ SameAll(U, H) /\ SameChildren(U, H)
    BY <1>1, FrameUnlinkRight
  <2> HIDE DEF U
  <2>3. /\ M \in Heaps /\ FrameLists(M, (H.live \ {h}) \cup {h})
        /\ M.frame = [U.frame EXCEPT ![h] = f]
        /\ SameBlocks(M, U) /\ SameAll(M, U) /\ SameChildren(M, U)
    BY <1>1, <2>2, FrameLinkRight
  <2> HIDE DEF M
  <2>4. (H.live \ {h}) \cup {h} = M.live
    BY <2>2, <2>3 DEF SameBlocks
  <2> QED
    BY <2>1, <2>2, <2>3, <2>4 DEF SameBlocks, SameAll, SameChildren, SameLinks
<1> QED
  BY <1>2, <1>3

\* Whatever leaves the other lists as they are leaves them exact.
LEMMA ShapeKept ==
  ASSUME NEW H, NEW M \in Heaps, Shape(H), SameBlocks(M, H)
  PROVE  /\ M.registered \subseteq M.live
         /\ SameAll(M, H) => HeapList(M, "all", All, M.live)
         /\ SameFrames(M, H) => FrameLists(M, M.live)
         /\ SameChildren(M, H) => ChildLists(M) /\ Owners(M)
<1>1. M.registered \subseteq M.live
  BY DEF Shape, SameBlocks
<1>2. ASSUME SameAll(M, H) PROVE HeapList(M, "all", All, M.live)
  BY <1>2 DEF Shape, SameBlocks, SameAll, SameLinks, HeapList
<1>3. ASSUME SameFrames(M, H) PROVE FrameLists(M, M.live)
  BY <1>3 DEF Shape, SameBlocks, SameFrames, SameLinks, HeapList, FrameLists
<1>4. ASSUME SameChildren(M, H) PROVE ChildLists(M) /\ Owners(M)
  <2>1. \A o \in Block : ChildrenOf(M, o) = ChildrenOf(H, o)
    BY <1>4 DEF SameBlocks, SameChildren, ChildrenOf
  <2>2. ChildLists(M)
    BY <1>4, <2>1 DEF Shape, SameChildren, SameLinks, HeapList, ChildLists
  <2>3. Owners(M)
    BY <1>4 DEF Shape, SameBlocks, SameChildren, Owners
  <2> QED
    BY <2>2, <2>3
<1> QED
  BY <1>1, <1>2, <1>3, <1>4

\* yc_detach_owner
LEMMA DetachRight ==
  ASSUME NEW H, Shape(H), NEW c \in H.live
  PROVE  LET M == DetachOwner(H, c)
         IN  /\ Shape(M) /\ M.owner = [H.owner EXCEPT ![c] = Nil]
             /\ SameBlocks(M, H) /\ SameAll(M, H) /\ SameFrames(M, H)
<1>1. H \in Heaps /\ c \in Block /\ H.owner \in [Block -> Links] /\ H.live \in SUBSET Block
  BY DEF Shape, Heaps
<1>2. CASE H.owner[c] = Nil
  <2>1. DetachOwner(H, c) = H
    BY <1>2 DEF DetachOwner
  <2>2. H.owner = [H.owner EXCEPT ![c] = Nil]
    BY <1>1, <1>2
  <2> QED
    BY <2>1, <2>2 DEF SameBlocks, SameAll, SameFrames, SameLinks
<1>3. CASE H.owner[c] # Nil
  <2> DEFINE o == H.owner[c]
             U == Unlink(H, "sibling", Children(o), c)
             M == [U EXCEPT !.owner[c] = Nil]
             nx == H.next["sibling"]
             pv == H.prev["sibling"]
             first == H.head[Children(o)]
  <2>1. DetachOwner(H, c) = M
    BY <1>3 DEF DetachOwner
  <2>2. o \in Block /\ Children(o) \in Heads
    BY <1>1, <1>3, HeadsApart DEF Links
  <2>3. /\ U \in Heaps
        /\ U.live = H.live /\ U.registered = H.registered
        /\ U.frame = H.frame /\ U.owner = H.owner
        /\ \A x \in Heads : U.head[x] = IF x = Children(o)
                                              THEN FirstWithout(first, nx, pv, c) ELSE H.head[x]
        /\ U.next["sibling"] = NextWithout(nx, pv, c)
        /\ U.prev["sibling"] = PrevWithout(nx, pv, c)
        /\ \A j \in List \ {"sibling"} : SameLinks(U, H, j)
    BY <1>1, <2>2, KindsApart, UnlinkFields
  <2> HIDE DEF U
  <2>4. /\ M \in Heaps /\ M.owner = [U.owner EXCEPT ![c] = Nil] /\ M.frame = U.frame
        /\ M.live = U.live /\ M.registered = U.registered
        /\ M.head = U.head /\ M.next = U.next /\ M.prev = U.prev
    BY <1>1, <2>3, OwnerSet DEF Links
  <2> HIDE DEF M
  <2>5. SameBlocks(M, H) /\ SameAll(M, H) /\ SameFrames(M, H)
    BY <2>2, <2>3, <2>4, HeadsApart, KindsApart DEF SameBlocks, SameAll, SameFrames, SameLinks
  <2>6. M.owner = [H.owner EXCEPT ![c] = Nil]
    BY <2>3, <2>4
  <2>7. ASSUME NEW p \in Block
        PROVE  HeapList(M, "sibling", Children(p), ChildrenOf(M, p))
    <3> DEFINE m == ChildrenOf(H, o)
    <3>1. nx \in [Block -> Links]
      BY <1>1, KindsApart DEF Heaps
    <3>2. ListOf(first, nx, pv, m) /\ m \in SUBSET Block /\ c \in m
      BY <1>1, <2>2 DEF Shape, ChildLists, HeapList, ChildrenOf
    <3>3. CASE p = o
      <4>1. ChildrenOf(M, p) = m \ {c}
        BY <1>1, <2>2, <2>3, <2>4, <3>3, NilAssumption DEF ChildrenOf
      <4>2. M.head[Children(p)] = FirstWithout(first, nx, pv, c)
        BY <2>2, <2>3, <2>4, <3>3
      <4> HIDE DEF m, nx, pv, first
      <4>3. ListOf(FirstWithout(first, nx, pv, c), NextWithout(nx, pv, c),
                   PrevWithout(nx, pv, c), m \ {c})
        BY <3>2, ListUnlink
      <4> QED
        BY <2>3, <2>4, <4>1, <4>2, <4>3 DEF HeapList
    <3>4. CASE p # o
      <4> DEFINE m2 == ChildrenOf(H, p)
      <4>1. ChildrenOf(M, p) = m2
        BY <1>1, <2>2, <2>3, <2>4, <3>4, NilAssumption DEF ChildrenOf
      <4>2. M.head[Children(p)] = H.head[Children(p)]
        BY <2>2, <2>3, <2>4, <3>4, HeadsApart
      <4>3. ListOf(H.head[Children(p)], nx, pv, m2)
        BY DEF Shape, ChildLists, HeapList
      <4>4. m2 \cap (m \cup {c}) = {} /\ m2 \in SUBSET Block
        BY <1>1, <3>4 DEF ChildrenOf
      <4> HIDE DEF m, m2, nx, pv, first
      <4>5. ListOf(H.head[Children(p)], NextWithout(nx, pv, c), PrevWithout(nx, pv, c), m2)
        BY <1>1, <3>1, <3>2, <4>3, <4>4, ListsBeside
      <4> QED
        BY <2>3, <2>4, <4>1, <4>2, <4>5 DEF HeapList
    <3> QED
      BY <3>3, <3>4
  <2>8. ChildLists(M)
    BY <2>7 DEF ChildLists
  <2>9. Owners(M)
    <3>1. M.live = H.live /\ \A b \in Block : M.owner[b] = IF b = c THEN Nil ELSE H.owner[b]
      BY <1>1, <2>3, <2>4, <2>6
    <3>2. Nil \notin M.live
      BY <1>1, <3>1, NilAssumption
    <3>3. ASSUME NEW S \in SUBSET M.live, S # {} PROVE \E b \in S : M.owner[b] \notin S
      <4>1. PICK b \in S : H.owner[b] \notin S
        BY <3>1, <3>3 DEF Shape, Owners, NoCycleIn
      <4> QED
        BY <1>1, <3>1, <3>2, <4>1
    <3>4. NoCycleIn(M.live, M.owner)
      BY <3>3 DEF NoCycleIn
    <3> QED
      BY <1>1, <3>1, <3>4 DEF Shape, Owners
  <2>10. Shape(M)
    BY <2>4, <2>5, <2>8, <2>9, ShapeKept DEF Shape
  <2> QED
    BY <2>1, <2>5, <2>6, <2>10
<1> QED
  BY <1>2, <1>3

\* A freed block leaves the two sets of blocks, and the links stay.
LEMMA Forgotten ==
  ASSUME NEW H \in Heaps, NEW h \in Block
  PROVE  LET M == [H EXCEPT !.live = @ \ {h}, !.registered = @ \ {h}, !.frame[h] = 0]
         IN  /\ M \in Heaps /\ M.frame = [H.frame EXCEPT ![h] = 0] /\ M.owner = H.owner
             /\ M.live = H.live \ {h} /\ M.registered = H.registered \ {h}
             /\ M.head = H.head /\ M.next = H.next /\ M.prev = H.prev
<1> DEFINE M == [H EXCEPT !.live = @ \ {h}, !.registered = @ \ {h}, !.frame[h] = 0]
           l == H.live \ {h}
           r == H.registered \ {h}
           g == [H.frame EXCEPT ![h] = 0]
<1>1. M = [H EXCEPT !.live = l, !.registered = r, !.frame = g]
  OBVIOUS
<1>2. 0 \in Frame
  BY MaxFrameAssumption DEF Frame
<1>3. l \in SUBSET Block /\ r \in SUBSET Block /\ g \in [Block -> Frame]
  BY <1>2 DEF Heaps
<1> HIDE DEF l, r, g, M
<1>4. /\ M \in Heaps /\ M.live = l /\ M.registered = r /\ M.frame = g /\ M.owner = H.owner
      /\ M.head = H.head /\ M.next = H.next /\ M.prev = H.prev
  BY <1>1, <1>3 DEF Heaps
<1> QED
  BY <1>4 DEF M, l, r, g

\* The end of yc_release_header, for a block nobody owns that owns nobody.
LEMMA FreedRight ==
  ASSUME NEW H, Shape(H), NEW h \in H.live, H.owner[h] = Nil,
         H.head[Children(h)] = Nil
  PROVE  LET M == Freed(H, h)
         IN  /\ Shape(M) /\ M.owner = H.owner /\ M.frame = [H.frame EXCEPT ![h] = 0]
             /\ M.live = H.live \ {h} /\ M.registered = H.registered \ {h}
<1> DEFINE U == FrameUnlink(H, h)
           V == Unlink(U, "all", All, h)
           M == [V EXCEPT !.live = @ \ {h}, !.registered = @ \ {h}, !.frame[h] = 0]
<1>1. H \in Heaps /\ h \in Block /\ H.owner \in [Block -> Links] /\ H.live \in SUBSET Block
  BY DEF Shape, Heaps
<1>2. /\ U \in Heaps /\ FrameLists(U, H.live \ {h}) /\ U.frame = H.frame
      /\ SameBlocks(U, H) /\ SameAll(U, H) /\ SameChildren(U, H)
  BY <1>1, FrameUnlinkRight DEF Shape
<1> HIDE DEF U
<1>3. /\ V \in Heaps
      /\ V.live = U.live /\ V.registered = U.registered
      /\ V.frame = U.frame /\ V.owner = U.owner
      /\ \A x \in Heads :
           V.head[x] = IF x = All
                       THEN FirstWithout(U.head[All], U.next["all"], U.prev["all"], h)
                       ELSE U.head[x]
      /\ V.next["all"] = NextWithout(U.next["all"], U.prev["all"], h)
      /\ V.prev["all"] = PrevWithout(U.next["all"], U.prev["all"], h)
      /\ \A j \in List \ {"all"} : SameLinks(V, U, j)
  BY <1>1, <1>2, HeadsApart, KindsApart, UnlinkFields
<1> HIDE DEF V
<1>4. /\ M \in Heaps /\ M.frame = [V.frame EXCEPT ![h] = 0] /\ M.owner = V.owner
      /\ M.live = V.live \ {h} /\ M.registered = V.registered \ {h}
      /\ M.head = V.head /\ M.next = V.next /\ M.prev = V.prev
  BY <1>1, <1>3, Forgotten
<1> HIDE DEF M
<1>5. /\ M.live = H.live \ {h} /\ M.registered = H.registered \ {h}
      /\ M.owner = H.owner /\ M.frame = [H.frame EXCEPT ![h] = 0]
  BY <1>2, <1>3, <1>4 DEF SameBlocks, SameChildren
<1>6. HeapList(M, "all", All, M.live)
  <2>1. ListOf(H.head[All], H.next["all"], H.prev["all"], H.live)
    BY DEF Shape, HeapList
  <2>2. ListOf(FirstWithout(H.head[All], H.next["all"], H.prev["all"], h),
               NextWithout(H.next["all"], H.prev["all"], h),
               PrevWithout(H.next["all"], H.prev["all"], h), H.live \ {h})
    BY <1>1, <2>1, ListUnlink
  <2>3. All \in Heads
    BY HeadsApart
  <2> QED
    BY <1>2, <1>3, <1>4, <1>5, <2>2, <2>3 DEF HeapList, SameAll, SameLinks
<1>7. FrameLists(M, M.live)
  <2> SUFFICES ASSUME NEW f \in Frame
               PROVE  HeapList(M, "frame", InFrame(f), {b \in M.live : M.frame[b] = f})
    BY DEF FrameLists
  <2>1. {b \in M.live : M.frame[b] = f} = {b \in H.live \ {h} : U.frame[b] = f}
    BY <1>1, <1>2, <1>5 DEF Heaps
  <2>2. HeapList(U, "frame", InFrame(f), {b \in H.live \ {h} : U.frame[b] = f})
    BY <1>2 DEF FrameLists
  <2>3. M.head[InFrame(f)] = U.head[InFrame(f)] /\ SameLinks(M, U, "frame")
    BY <1>3, <1>4, HeadsApart, KindsApart DEF SameLinks
  <2> QED
    BY <2>1, <2>2, <2>3 DEF HeapList, SameLinks
<1>8. ChildrenOf(H, h) = {}
  <2>1. ListOf(Nil, H.next["sibling"], H.prev["sibling"], ChildrenOf(H, h))
    BY <1>1 DEF Shape, ChildLists, HeapList
  <2>2. ChildrenOf(H, h) \in SUBSET Block
    BY <1>1 DEF ChildrenOf
  <2> QED
    BY <2>1, <2>2, ListFirst
<1>9. ChildLists(M)
  <2> SUFFICES ASSUME NEW o \in Block
               PROVE  HeapList(M, "sibling", Children(o), ChildrenOf(M, o))
    BY DEF ChildLists
  <2>1. ChildrenOf(M, o) = ChildrenOf(H, o)
    BY <1>5, NilAssumption DEF ChildrenOf
  <2>2. HeapList(H, "sibling", Children(o), ChildrenOf(H, o))
    BY DEF Shape, ChildLists
  <2>3. M.head[Children(o)] = H.head[Children(o)] /\ SameLinks(M, H, "sibling")
    BY <1>2, <1>3, <1>4, HeadsApart, KindsApart DEF SameLinks, SameChildren
  <2> QED
    BY <2>1, <2>2, <2>3 DEF HeapList, SameLinks
<1>10. Owners(M)
  <2>1. \A b \in H.live : H.owner[b] # h
    BY <1>8 DEF ChildrenOf
  <2>2. NoCycleIn(M.live, M.owner)
    BY <1>5 DEF Shape, Owners, NoCycleIn
  <2> QED
    BY <1>5, <2>1, <2>2 DEF Shape, Owners
<1>11. M.registered \subseteq M.live
  BY <1>5 DEF Shape
<1>12. Shape(M)
  BY <1>4, <1>6, <1>7, <1>9, <1>10, <1>11 DEF Shape
<1>13. Freed(H, h) = M
  BY DEF Freed, M, V, U
<1> QED
  BY <1>5, <1>12, <1>13

-----------------------------------------------------------------------------
(* First child and next sibling: the tree the walk over a graph follows.   *)

Kid(M, b) == M.head[Children(b)]
Sib(M, b) == M.next["sibling"][b]

\* The block from which the walk comes to b.
UpOf(M) ==
  [b \in Block |-> IF M.owner[b] = Nil THEN Nil
                   ELSE IF M.prev["sibling"][b] # Nil THEN M.prev["sibling"][b]
                   ELSE M.owner[b]]

\* What it comes to from x.
Under(M, x) == IF x = Nil THEN {} ELSE Forest!Graph(M.live, UpOf(M), x)

\* What a child list says of its members.
LEMMA Siblings ==
  ASSUME NEW M, Shape(M), NEW b \in M.live, M.owner[b] # Nil
  PROVE  LET pv == M.prev["sibling"]
             o == M.owner[b]
         IN  /\ b \in Block /\ o \in M.live /\ b \in ChildrenOf(M, o)
             /\ Kid(M, o) \in ChildrenOf(M, o) /\ (pv[b] = Nil <=> b = Kid(M, o))
             /\ Sib(M, b) \in ChildrenOf(M, o) \cup {Nil}
             /\ pv[b] \in ChildrenOf(M, o) \cup {Nil}
             /\ Sib(M, b) # Nil => pv[Sib(M, b)] = b
             /\ pv[b] # Nil => Sib(M, pv[b]) = b
             /\ NoCycleIn(ChildrenOf(M, o), pv)
<1> DEFINE pv == M.prev["sibling"]
           o == M.owner[b]
           m == ChildrenOf(M, o)
<1>1. M.live \in SUBSET Block /\ o \in M.live /\ b \in m /\ m \in SUBSET Block
  BY DEF Shape, Owners, Heaps, ChildrenOf
<1>2. ListOf(Kid(M, o), M.next["sibling"], pv, m)
  BY <1>1 DEF Shape, ChildLists, HeapList, Kid
<1> HIDE DEF m
<1>3. Kid(M, o) \in m
  <2>1. Kid(M, o) # Nil
    BY <1>1, <1>2, ListFirst
  <2> QED
    BY <1>2, <2>1 DEF ListOf
<1> QED
  BY <1>1, <1>2, <1>3 DEF ListOf, Sib, m

\* No walk from first child to first child and on to siblings comes back.
LEMMA UpForest ==
  ASSUME NEW M, Shape(M)
  PROVE  NoCycleIn(M.live, UpOf(M))
<1> DEFINE up == UpOf(M)
           pv == M.prev["sibling"]
<1>1. M.live \in SUBSET Block /\ Nil \notin M.live
  BY NilAssumption DEF Shape, Heaps
<1> SUFFICES ASSUME NEW S \in SUBSET M.live, S # {} PROVE \E b \in S : up[b] \notin S
  BY DEF NoCycleIn
<1>2. PICK b \in S : M.owner[b] \notin S
  BY DEF Shape, Owners, NoCycleIn
<1>3. CASE M.owner[b] = Nil
  BY <1>1, <1>3 DEF UpOf
<1>4. CASE M.owner[b] # Nil
  <2> DEFINE o == M.owner[b]
             T == S \cap ChildrenOf(M, o)
  <2>1. b \in T /\ T \in SUBSET ChildrenOf(M, o)
    BY <1>4, Siblings
  <2>2. PICK c \in T : pv[c] \notin T
    <3>1. NoCycleIn(ChildrenOf(M, o), pv)
      BY <1>4, Siblings
    <3> HIDE DEF T
    <3> QED
      BY <2>1, <3>1 DEF NoCycleIn
  <2>3. c \in S /\ c \in M.live /\ M.owner[c] = o
    BY <2>2 DEF ChildrenOf
  <2>4. pv[c] \in ChildrenOf(M, o) \cup {Nil}
    BY <1>4, <2>3, Siblings
  <2>5. up[c] \notin S
    BY <1>1, <1>2, <1>4, <2>2, <2>3, <2>4 DEF UpOf
  <2> QED
    BY <2>3, <2>5
<1> QED
  BY <1>3, <1>4

\* The blocks that come next after c are its first child and its sibling.
LEMMA UpChildren ==
  ASSUME NEW M, Shape(M), NEW c \in M.live
  PROVE  /\ Kid(M, c) # Nil => Kid(M, c) \in M.live /\ UpOf(M)[Kid(M, c)] = c
                                /\ M.owner[Kid(M, c)] = c
         /\ M.owner[c] # Nil /\ Sib(M, c) # Nil =>
              Sib(M, c) \in M.live /\ UpOf(M)[Sib(M, c)] = c /\ Sib(M, c) # Kid(M, c)
         /\ \A y \in M.live : UpOf(M)[y] = c =>
              y = Kid(M, c) \/ (M.owner[c] # Nil /\ y = Sib(M, c))
<1> DEFINE pv == M.prev["sibling"]
<1>1. M.live \in SUBSET Block /\ Nil \notin M.live /\ c \in Block /\ c # Nil
  BY NilAssumption DEF Shape, Heaps
<1>2. ASSUME Kid(M, c) # Nil
      PROVE  /\ Kid(M, c) \in M.live /\ M.owner[Kid(M, c)] = c /\ pv[Kid(M, c)] = Nil
             /\ UpOf(M)[Kid(M, c)] = c
  <2>1. Kid(M, c) \in ChildrenOf(M, c) /\ pv[Kid(M, c)] = Nil
    BY <1>1, <1>2 DEF Shape, ChildLists, HeapList, ListOf, Kid
  <2> QED
    BY <1>1, <2>1 DEF ChildrenOf, UpOf
<1>3. ASSUME M.owner[c] # Nil, Sib(M, c) # Nil
      PROVE  Sib(M, c) \in M.live /\ UpOf(M)[Sib(M, c)] = c /\ pv[Sib(M, c)] = c
  <2>1. Sib(M, c) \in ChildrenOf(M, M.owner[c]) /\ pv[Sib(M, c)] = c
    BY <1>3, Siblings
  <2> QED
    BY <1>1, <1>3, <2>1 DEF ChildrenOf, UpOf
<1>4. ASSUME NEW y \in M.live, UpOf(M)[y] = c
      PROVE  y = Kid(M, c) \/ (M.owner[c] # Nil /\ y = Sib(M, c))
  <2>1. M.owner[y] # Nil /\ y \in Block
    BY <1>1, <1>4 DEF UpOf
  <2>2. CASE pv[y] = Nil
    <3>1. M.owner[y] = c
      BY <1>4, <2>1, <2>2 DEF UpOf
    <3> QED
      BY <2>1, <2>2, <3>1, Siblings
  <2>3. CASE pv[y] # Nil
    <3>1. pv[y] = c
      BY <1>4, <2>1, <2>3 DEF UpOf
    <3>2. c \in ChildrenOf(M, M.owner[y]) /\ Sib(M, c) = y
      BY <2>1, <2>3, <3>1, Siblings
    <3> QED
      BY <2>1, <3>2 DEF ChildrenOf
  <2> QED
    BY <2>2, <2>3
<1>5. ASSUME M.owner[c] # Nil, Sib(M, c) # Nil PROVE Sib(M, c) # Kid(M, c)
  BY <1>1, <1>2, <1>3, <1>5
<1> QED
  BY <1>2, <1>3, <1>4, <1>5

\* A block, what is below its first child, and what is below its next sibling.
LEMMA UnderSplit ==
  ASSUME NEW M, Shape(M), NEW c \in M.live, M.owner[c] # Nil
  PROVE  /\ Kid(M, c) \in M.live \cup {Nil} /\ Sib(M, c) \in M.live \cup {Nil}
         /\ Under(M, c) = {c} \cup Under(M, Kid(M, c)) \cup Under(M, Sib(M, c))
         /\ Under(M, Kid(M, c)) \cap Under(M, Sib(M, c)) = {}
         /\ c \notin Under(M, Kid(M, c)) /\ c \notin Under(M, Sib(M, c))
<1> DEFINE L == M.live
           up == UpOf(M)
           k == Kid(M, c)
           n == Sib(M, c)
<1>1. /\ k # Nil => k \in L /\ up[k] = c
      /\ n # Nil => n \in L /\ up[n] = c /\ n # k
      /\ \A y \in L : up[y] = c => y = k \/ y = n
  BY UpChildren
<1>2. Nil \notin L /\ c # Nil /\ NoCycleIn(L, up)
  BY NilAssumption, UpForest DEF Shape, Heaps
<1> HIDE DEF k, n, up, L
<1>3. k \in L \cup {Nil} /\ n \in L \cup {Nil}
  BY <1>1
<1>4. /\ k # Nil => /\ Forest!Graph(L, up, k) \subseteq Forest!Graph(L, up, c)
                    /\ c \notin Forest!Graph(L, up, k)
      /\ n # Nil => /\ Forest!Graph(L, up, n) \subseteq Forest!Graph(L, up, c)
                    /\ c \notin Forest!Graph(L, up, n)
  <2>1. c \in L
    BY DEF L
  <2>2. ASSUME NEW y \in L, up[y] = c
        PROVE  /\ Forest!Graph(L, up, y) \subseteq Forest!Graph(L, up, c)
               /\ c \notin Forest!Graph(L, up, y)
    <3>1. y \in Forest!Graph(L, up, c)
      BY <2>1, <2>2, GraphSelf, GraphClosed DEF Forest!ChildClosed
    <3> QED
      BY <1>2, <2>1, <2>2, <3>1, GraphNested, OwnerOutside
  <2> QED
    BY <1>1, <2>2
<1>5. k # Nil /\ n # Nil => Forest!Graph(L, up, k) \cap Forest!Graph(L, up, n) = {}
  BY <1>1, <1>2, ChildrenDisjoint
<1>6. DEFINE U(x) == IF x = Nil THEN {} ELSE Forest!Graph(L, up, x)
<1>7. Forest!Graph(L, up, c) \subseteq {c} \cup U(k) \cup U(n)
  <2> DEFINE S == {c} \cup U(k) \cup U(n)
  <2>1. c \in L /\ c \in S
    BY DEF L
  <2>2. U(k) \subseteq L /\ U(n) \subseteq L
    BY <1>1, GraphSelf
  <2>3. Forest!ChildClosed(L, up, S)
    <3> SUFFICES ASSUME NEW y \in L, up[y] \in S PROVE y \in S
      BY DEF Forest!ChildClosed
    <3>1. CASE up[y] = c
      <4>1. y = k \/ y = n
        BY <1>1, <3>1
      <4>2. y # Nil
        BY <1>2
      <4> QED
        BY <4>1, <4>2, GraphSelf
    <3>2. CASE up[y] \in U(k)
      BY <3>2, GraphClosed DEF Forest!ChildClosed
    <3>3. CASE up[y] \in U(n)
      BY <3>3, GraphClosed DEF Forest!ChildClosed
    <3> QED
      BY <3>1, <3>2, <3>3
  <2> HIDE DEF U
  <2>4. S \in SUBSET L
    BY <2>1, <2>2
  <2> HIDE DEF S
  <2>5. Forest!Graph(L, up, c) \subseteq S
    BY <2>1, <2>3, <2>4, GraphLeast
  <2> QED
    BY <2>5 DEF S
<1>8. c \in Forest!Graph(L, up, c)
  BY GraphSelf DEF L
<1>9. /\ Forest!Graph(L, up, c) = {c} \cup U(k) \cup U(n) /\ U(k) \cap U(n) = {}
      /\ c \notin U(k) /\ c \notin U(n)
  BY <1>4, <1>5, <1>7, <1>8
<1>10. /\ Under(M, c) = Forest!Graph(L, up, c) /\ Under(M, k) = U(k) /\ Under(M, n) = U(n)
  BY <1>2 DEF Under, L, up
<1> QED
  BY <1>3, <1>9, <1>10 DEF k, n, L

\* The graph of h: h and what the walk comes to from its first child.
LEMMA UnderKid ==
  ASSUME NEW M, Shape(M), NEW h \in M.live
  PROVE  /\ Kid(M, h) \in M.live \cup {Nil}
         /\ Under(M, Kid(M, h)) = Forest!Graph(M.live, M.owner, h) \ {h}
<1> DEFINE L == M.live
           own == M.owner
           up == UpOf(M)
           pv == M.prev["sibling"]
           W == Forest!Graph(L, own, h)
           k == Kid(M, h)
           U == Under(M, k)
<1>1. k # Nil => k \in L /\ up[k] = h /\ own[k] = h
  BY UpChildren
<1>2. L \in SUBSET Block /\ Nil \notin L /\ NoCycleIn(L, own) /\ W \in SUBSET L /\ h \in W
  BY NilAssumption, GraphSelf DEF Shape, Owners, Heaps
<1>3. own[h] \notin W
  BY <1>2, OwnerOutside
<1>4. U \subseteq W \ {h}
  <2>1. CASE k = Nil
    BY <2>1 DEF Under
  <2>2. CASE k # Nil
    <3>1. k \in W \ {h}
      <4>1. k \in W
        BY <1>1, <1>2, <2>2, GraphClosed DEF Forest!ChildClosed
      <4> QED
        BY <1>1, <1>2, <1>3, <2>2, <4>1
    <3>2. Forest!ChildClosed(L, up, W \ {h})
      <4> SUFFICES ASSUME NEW y \in L, up[y] \in W \ {h} PROVE y \in W \ {h}
        BY DEF Forest!ChildClosed
      <4>1. own[y] # Nil /\ y \in Block
        BY <1>2 DEF UpOf
      <4>2. own[y] \in W
        <5>1. CASE pv[y] = Nil
          BY <4>1, <5>1 DEF UpOf
        <5>2. CASE pv[y] # Nil
          <6>1. up[y] = pv[y] /\ own[pv[y]] = own[y]
            BY <4>1, <5>2, Siblings DEF UpOf, ChildrenOf
          <6> QED
            BY <6>1, GraphOwner
        <5> QED
          BY <5>1, <5>2
      <4> QED
        BY <1>3, <4>2, GraphClosed DEF Forest!ChildClosed
    <3>3. W \ {h} \in SUBSET L
      BY <1>2
    <3> HIDE DEF W, up, k, L
    <3>4. Forest!Graph(L, up, k) \subseteq W \ {h}
      BY <3>1, <3>2, <3>3, GraphLeast
    <3> QED
      BY <2>2, <3>4 DEF Under, up, L
  <2> QED
    BY <2>1, <2>2
<1>5. W \subseteq {h} \cup U
  <2> DEFINE S == {h} \cup U
  <2>1. h \in S /\ S \in SUBSET L
    BY <1>2, <1>4
  <2>2. \A y \in L : up[y] \in U => y \in U
    BY GraphClosed DEF Under, Forest!ChildClosed
  <2>3. ASSUME NEW y \in L, own[y] \in S PROVE y \in S
    <3> DEFINE o == own[y]
               m == ChildrenOf(M, o)
    <3>1. o \in L /\ o # Nil
      BY <1>2, <2>1, <2>3
    <3>2. y \in m /\ Kid(M, o) \in m /\ NoCycleIn(m, pv)
      BY <3>1, Siblings
    <3>3. Kid(M, o) \in U
      <4>1. Kid(M, o) # Nil /\ Kid(M, o) \in L
        BY <1>2, <3>2 DEF ChildrenOf
      <4>2. CASE o = h
        BY <4>1, <4>2, GraphSelf DEF Under
      <4>3. CASE o # h
        <5>1. o \in U
          BY <2>3, <4>3
        <5>2. up[Kid(M, o)] = o
          BY <3>1, <4>1, UpChildren
        <5> QED
          BY <2>2, <4>1, <5>1, <5>2
      <4> QED
        BY <4>2, <4>3
    <3> DEFINE T == m \ U
    <3>4. T = {}
      <4> SUFFICES ASSUME T # {} PROVE FALSE
        OBVIOUS
      <4>1. PICK b \in T : pv[b] \notin T
        BY <3>2 DEF NoCycleIn
      <4>2. b \in m /\ b \in L /\ b \notin U /\ own[b] = o
        BY DEF ChildrenOf
      <4>3. /\ pv[b] \in m \cup {Nil} /\ (pv[b] = Nil <=> b = Kid(M, o)) /\ b \in Block
        BY <3>1, <4>2, Siblings
      <4>4. pv[b] # Nil /\ pv[b] \in m /\ pv[b] \in U
        BY <3>3, <4>1, <4>2, <4>3
      <4>5. up[b] = pv[b]
        BY <3>1, <4>2, <4>3, <4>4 DEF UpOf
      <4> QED
        BY <2>2, <4>2, <4>4, <4>5
    <3> QED
      BY <3>2, <3>4
  <2> HIDE DEF S
  <2>4. Forest!ChildClosed(L, own, S)
    BY <2>3 DEF Forest!ChildClosed
  <2>5. W \subseteq S
    BY <2>1, <2>4, GraphLeast
  <2> QED
    BY <2>5 DEF S
<1>6. k \in L \cup {Nil}
  BY <1>1
<1> HIDE DEF W, U, k, L
<1>7. U = W \ {h}
  BY <1>4, <1>5
<1> QED
  BY <1>6, <1>7 DEF W, U, k, L, own

\* The steps a walk is given.
LEMMA StepsEnough == Steps = 2 * Cardinality(Block)
BY DEF Steps

\* The parts of a stack of calls, and one with another call on it.
LEMMA StackParts ==
  ASSUME NEW S, NEW q \in Seq(S), q # <<>>
  PROVE  /\ Len(q) \in Nat \ {0} /\ Head(q) = q[1] /\ q[1] \in S
         /\ Tail(q) \in Seq(S) /\ Len(Tail(q)) = Len(q) - 1
         /\ \A i \in 1 .. Len(q) - 1 : Tail(q)[i] = q[i + 1]
         /\ Tail(q) = <<>> <=> Len(q) = 1
<1>1. Len(q) \in Nat \ {0} /\ Head(q) = q[1] /\ q[1] \in S
  OBVIOUS
<1>2. Tail(q) \in Seq(S) /\ Len(Tail(q)) = Len(q) - 1
  OBVIOUS
<1>3. \A i \in 1 .. Len(q) - 1 : Tail(q)[i] = q[i + 1]
  OBVIOUS
<1> DEFINE t == Tail(q)
<1>4. t \in Seq(S)
  BY <1>2
<1>5. t = <<>> <=> Len(t) = 0
  <2> HIDE DEF t
  <2> QED
    BY <1>4
<1> QED
  BY <1>1, <1>2, <1>3, <1>5

\* A sequence with an element put in front of it.
LEMMA StackPush ==
  ASSUME NEW S, NEW q \in Seq(S), NEW x \in S
  PROVE  LET p == <<x>> \o q
         IN  /\ p \in Seq(S) /\ p # <<>> /\ Len(p) = Len(q) + 1 /\ p[1] = x
             /\ \A i \in 1 .. Len(q) : p[i + 1] = q[i]
<1> DEFINE p == <<x>> \o q
<1>1. p \in Seq(S) /\ Len(p) = Len(q) + 1 /\ p[1] = x
  OBVIOUS
<1>2. \A i \in 1 .. Len(q) : p[i + 1] = q[i]
  OBVIOUS
<1>3. p # <<>>
  <2>1. Len(q) \in Nat
    OBVIOUS
  <2> HIDE DEF p
  <2> QED
    BY <1>1, <2>1
<1> QED
  BY <1>1, <1>2, <1>3

-----------------------------------------------------------------------------
(* yc_move_graph_to_frame.                                                 *)

\* The walk at a block: the block moves and its first child comes next.
LEMMA MoveOnDown ==
  ASSUME NEW s, NEW f, s.at \in Seq(Links), s.at # <<>>, s.at[1] # Nil,
         Moved(s.heap, s.at[1], f) \in Heaps, s.at[1] \in Block
  PROVE  LET r == MoveOn(s, f)
             M == Moved(s.heap, s.at[1], f)
         IN  /\ r = [heap |-> M, at |-> <<Kid(M, s.at[1])>> \o s.at]
             /\ r.at \in Seq(Links) /\ r.at # <<>>
             /\ Len(r.at) = Len(s.at) + 1 /\ r.at[1] = Kid(M, s.at[1])
             /\ \A i \in 1 .. Len(s.at) : r.at[i + 1] = s.at[i]
<1> DEFINE M == Moved(s.heap, s.at[1], f)
           r == MoveOn(s, f)
           k == Kid(M, s.at[1])
<1>1. r = [heap |-> M, at |-> <<k>> \o s.at]
  BY DEF MoveOn, Kid
<1>2. k \in Links
  BY HeadsApart DEF Heaps, Kid
<1> HIDE DEF k, M, r
<1> DEFINE p == <<k>> \o s.at
<1>3. /\ p \in Seq(Links) /\ p # <<>> /\ Len(p) = Len(s.at) + 1 /\ p[1] = k
      /\ \A i \in 1 .. Len(s.at) : p[i + 1] = s.at[i]
  BY <1>2, StackPush
<1>4. r.at = p
  BY <1>1
<1> HIDE DEF p
<1> QED
  BY <1>1, <1>3, <1>4 DEF r, M, k, p

\* The walk at the end of a child list goes on to the sibling of its owner.
LEMMA MoveOnNext ==
  ASSUME NEW s, NEW f, s.at \in Seq(Links), s.at # <<>>, s.at[1] = Nil, Len(s.at) > 1,
         s.heap \in Heaps, s.at[2] \in Block, s = [heap |-> s.heap, at |-> s.at]
  PROVE  LET r == MoveOn(s, f)
         IN  /\ r = [heap |-> s.heap, at |-> r.at]
             /\ r.at \in Seq(Links) /\ r.at # <<>>
             /\ Len(r.at) = Len(s.at) - 1 /\ r.at[1] = Sib(s.heap, s.at[2])
             /\ \A i \in 2 .. Len(s.at) - 1 : r.at[i] = s.at[i + 1]
<1> DEFINE q == s.at
           n == Sib(s.heap, q[2])
           t == Tail(q)
           u == Tail(t)
           p == <<n>> \o u
           r == MoveOn(s, f)
<1>1. q \in Seq(Links) /\ q # <<>> /\ q[1] = Nil /\ Len(q) > 1 /\ Len(q) \in Nat
  OBVIOUS
<1>2. n \in Links
  BY KindsApart DEF Heaps, Sib
<1>3. /\ Head(q) = Nil /\ t \in Seq(Links) /\ Len(t) = Len(q) - 1
      /\ \A i \in 1 .. Len(q) - 1 : t[i] = q[i + 1]
      /\ t # <<>>
  <2> HIDE DEF q
  <2>1. /\ Head(q) = q[1] /\ Tail(q) \in Seq(Links) /\ Len(Tail(q)) = Len(q) - 1
        /\ \A i \in 1 .. Len(q) - 1 : Tail(q)[i] = q[i + 1]
        /\ Tail(q) = <<>> <=> Len(q) = 1
    BY <1>1, StackParts
  <2> QED
    BY <1>1, <2>1
<1>4. Head(t) = q[2] /\ u \in Seq(Links) /\ Len(u) = Len(q) - 2
      /\ \A i \in 1 .. Len(q) - 2 : u[i] = t[i + 1]
  <2> HIDE DEF q, t
  <2>1. /\ Head(t) = t[1] /\ Tail(t) \in Seq(Links) /\ Len(Tail(t)) = Len(t) - 1
        /\ \A i \in 1 .. Len(t) - 1 : Tail(t)[i] = t[i + 1]
    BY <1>3, StackParts
  <2>2. 1 \in 1 .. Len(q) - 1 /\ 1 + 1 = 2 /\ Len(t) - 1 = Len(q) - 2
    BY <1>1, <1>3
  <2> QED
    BY <1>3, <2>1, <2>2
<1>5. r = [s EXCEPT !.at = p]
  <2> HIDE DEF n
  <2>1. s.heap.next["sibling"][Head(t)] = n
    BY <1>4 DEF Sib, n
  <2> QED
    BY <1>3, <2>1 DEF MoveOn
<1>6. r = [heap |-> s.heap, at |-> p]
  BY <1>5
<1>7. /\ p \in Seq(Links) /\ p # <<>> /\ Len(p) = Len(u) + 1 /\ p[1] = n
      /\ \A i \in 1 .. Len(u) : p[i + 1] = u[i]
  <2> HIDE DEF n, u
  <2> QED
    BY <1>2, <1>4, StackPush
<1>8. \A i \in 2 .. Len(q) - 1 : p[i] = q[i + 1]
  <2> SUFFICES ASSUME NEW i \in 2 .. Len(q) - 1 PROVE p[i] = q[i + 1]
    OBVIOUS
  <2> HIDE DEF p, u, t, q
  <2>1. i - 1 \in 1 .. Len(u) /\ i - 1 \in 1 .. Len(q) - 2 /\ i \in 1 .. Len(q) - 1
    BY <1>1, <1>4
  <2>2. p[(i - 1) + 1] = u[i - 1] /\ u[i - 1] = t[(i - 1) + 1]
    BY <1>4, <1>7, <2>1
  <2>3. (i - 1) + 1 = i
    OBVIOUS
  <2> QED
    BY <1>3, <2>1, <2>2, <2>3
<1>9. r.at = p /\ r = [heap |-> s.heap, at |-> r.at]
  BY <1>6
<1>10. Len(p) = Len(q) - 1
  BY <1>1, <1>4, <1>7
<1> HIDE DEF p, r
<1> QED
  BY <1>7, <1>8, <1>9, <1>10 DEF r

\* The walk at the end of the outermost child list is over.
LEMMA MoveOnUp ==
  ASSUME NEW s, NEW f, s.at \in Seq(Links), Len(s.at) = 1, s.at[1] = Nil,
         s = [heap |-> s.heap, at |-> s.at]
  PROVE  MoveOn(s, f) = [heap |-> s.heap, at |-> <<>>]
<1> DEFINE q == s.at
<1>1. q \in Seq(Links) /\ Len(q) = 1 /\ q[1] = Nil
  OBVIOUS
<1>2. Head(q) = Nil /\ Tail(q) = <<>> /\ q # <<>>
  <2> HIDE DEF q
  <2>1. q # <<>>
    BY <1>1
  <2> QED
    BY <1>1, <2>1, StackParts
<1>3. MoveOn(s, f) = [s EXCEPT !.at = <<>>]
  BY <1>2 DEF MoveOn
<1> QED
  BY <1>3

\* Families of sets with no common member.
Apart(U, n) == \A i, j \in 1 .. n : i # j => U[i] \cap U[j] = {}
Joined(U, n) == UNION {U[j] : j \in 1 .. n}

\* A member of the first set is taken out and the rest of it is two sets.
LEMMA FamilySplit ==
  ASSUME NEW n \in Nat \ {0}, NEW U, NEW V, NEW c, Apart(U, n),
         U[1] = {c} \cup V[1] \cup V[2], V[1] \cap V[2] = {}, c \notin V[1], c \notin V[2],
         \A i \in 2 .. n : V[i + 1] = U[i]
  PROVE  /\ Apart(V, n + 1)
         /\ c \in Joined(U, n)
         /\ \A b : b \in Joined(V, n + 1) <=> b \in Joined(U, n) /\ b # c
<1>1. \A j \in 1 .. n + 1 : j = 1 \/ j = 2 \/ (j - 1 \in 2 .. n /\ V[j] = U[j - 1])
  <2> SUFFICES ASSUME NEW j \in 1 .. n + 1, j # 1, j # 2
               PROVE  j - 1 \in 2 .. n /\ V[j] = U[j - 1]
    OBVIOUS
  <2>1. j - 1 \in 2 .. n /\ (j - 1) + 1 = j
    OBVIOUS
  <2>2. V[(j - 1) + 1] = U[j - 1]
    BY <2>1
  <2> QED
    BY <2>1, <2>2
<1>2. 1 \in 1 .. n /\ \A i \in 2 .. n : i \in 1 .. n /\ i # 1
  OBVIOUS
<1>3. \A i \in 2 .. n : U[1] \cap U[i] = {}
  BY <1>2 DEF Apart
<1>4. Apart(V, n + 1)
  <2> SUFFICES ASSUME NEW i \in 1 .. n + 1, NEW j \in 1 .. n + 1, i # j
               PROVE  V[i] \cap V[j] = {}
    BY DEF Apart
  <2>1. CASE i \in {1, 2} /\ j \in {1, 2}
    BY <2>1
  <2>2. CASE i \in {1, 2} /\ j \notin {1, 2}
    BY <1>1, <1>3, <2>2
  <2>3. CASE i \notin {1, 2} /\ j \in {1, 2}
    BY <1>1, <1>3, <2>3
  <2>4. CASE i \notin {1, 2} /\ j \notin {1, 2}
    <3>1. i - 1 \in 1 .. n /\ j - 1 \in 1 .. n /\ i - 1 # j - 1
      BY <1>1, <2>4
    <3>2. V[i] = U[i - 1] /\ V[j] = U[j - 1]
      BY <1>1, <2>4
    <3> QED
      BY <3>1, <3>2 DEF Apart
  <2> QED
    BY <2>1, <2>2, <2>3, <2>4
<1>5. c \in Joined(U, n)
  BY <1>2 DEF Joined
<1>6. ASSUME NEW b \in Joined(V, n + 1)
      PROVE  b \in Joined(U, n) /\ b # c
  <2>1. PICK j \in 1 .. n + 1 : b \in V[j]
    BY DEF Joined
  <2>2. CASE j \in {1, 2}
    BY <1>2, <2>1, <2>2 DEF Joined
  <2>3. CASE j \notin {1, 2}
    BY <1>1, <1>2, <1>3, <2>1, <2>3 DEF Joined
  <2> QED
    BY <2>2, <2>3
<1>7. ASSUME NEW b \in Joined(U, n), b # c
      PROVE  b \in Joined(V, n + 1)
  <2>1. PICK j \in 1 .. n : b \in U[j]
    BY DEF Joined
  <2>2. CASE j = 1
    <3>1. 1 \in 1 .. n + 1 /\ 2 \in 1 .. n + 1
      OBVIOUS
    <3> QED
      BY <1>7, <2>1, <2>2, <3>1 DEF Joined
  <2>3. CASE j # 1
    <3>1. j \in 2 .. n /\ j + 1 \in 1 .. n + 1
      BY <2>3
    <3> QED
      BY <2>1, <3>1 DEF Joined
  <2> QED
    BY <2>2, <2>3
<1>8. \A b : b \in Joined(V, n + 1) <=> b \in Joined(U, n) /\ b # c
  BY <1>6, <1>7
<1> QED
  BY <1>4, <1>5, <1>8

\* An empty first set can go.
LEMMA FamilyDrop ==
  ASSUME NEW n \in Nat \ {0}, NEW U, NEW V, Apart(U, n), U[1] = {},
         \A i \in 1 .. n - 1 : V[i] = U[i + 1]
  PROVE  /\ Apart(V, n - 1)
         /\ Joined(V, n - 1) = Joined(U, n)
<1>1. Apart(V, n - 1)
  <2> SUFFICES ASSUME NEW i \in 1 .. n - 1, NEW j \in 1 .. n - 1, i # j
               PROVE  V[i] \cap V[j] = {}
    BY DEF Apart
  <2>1. i + 1 \in 1 .. n /\ j + 1 \in 1 .. n /\ i + 1 # j + 1
    OBVIOUS
  <2> QED
    BY <2>1 DEF Apart
<1>2. ASSUME NEW b \in Joined(V, n - 1) PROVE b \in Joined(U, n)
  <2>1. PICK j \in 1 .. n - 1 : b \in V[j]
    BY DEF Joined
  <2>2. j + 1 \in 1 .. n /\ V[j] = U[j + 1]
    OBVIOUS
  <2> QED
    BY <2>1, <2>2 DEF Joined
<1>3. ASSUME NEW b \in Joined(U, n) PROVE b \in Joined(V, n - 1)
  <2>1. PICK j \in 1 .. n : b \in U[j]
    BY DEF Joined
  <2>2. j # 1
    BY <2>1
  <2>3. j - 1 \in 1 .. n - 1 /\ (j - 1) + 1 = j
    BY <2>2
  <2>4. V[j - 1] = U[(j - 1) + 1]
    BY <2>3
  <2> QED
    BY <2>1, <2>3, <2>4 DEF Joined
<1> QED
  BY <1>1, <1>2, <1>3

\* What the calls on the stack have still to do, each from where it is.
Pend(M, q, j) == IF j = 1 THEN q[1] ELSE Sib(M, q[j])
Todo(M, q) == [j \in 1 .. Len(q) |-> Under(M, Pend(M, q, j))]
LeftOf(M, q) == Joined(Todo(M, q), Len(q))

\* The stack of a walk over the graph of h.
WalkStack(H, h, q) ==
  /\ q \in Seq(Links)
  /\ \A j \in 1 .. Len(q) : /\ j # 1 => q[j] \in H.live /\ H.owner[q[j]] # Nil
                            /\ Pend(H, q, j) \in H.live \cup {Nil}
                            /\ Todo(H, q)[j] \subseteq Forest!Graph(H.live, H.owner, h) \ {h}
  /\ Apart(Todo(H, q), Len(q))

\* The state of the walk: what is not left has moved.
Walk(H, h, f, s) ==
  /\ s = [heap |-> s.heap, at |-> s.at]
  /\ s.heap \in Heaps /\ FrameLists(s.heap, s.heap.live)
  /\ SameBlocks(s.heap, H) /\ SameAll(s.heap, H) /\ SameChildren(s.heap, H)
  /\ WalkStack(H, h, s.at)
  /\ s.heap.frame = [b \in Block |-> IF b \in Forest!Graph(H.live, H.owner, h) \ LeftOf(H, s.at)
                                     THEN f ELSE H.frame[b]]

\* A block of the graph other than h has an owner.
LEMMA OwnedInside ==
  ASSUME NEW H, Shape(H), NEW h \in H.live, NEW b \in Forest!Graph(H.live, H.owner, h) \ {h}
  PROVE  b \in H.live /\ H.owner[b] \in H.live /\ H.owner[b] # Nil
<1>1. H.owner[b] \in Forest!Graph(H.live, H.owner, h) /\ b \in H.live
  BY GraphOwner, GraphSelf
<1>2. Forest!Graph(H.live, H.owner, h) \subseteq H.live /\ Nil \notin H.live
  BY GraphSelf, NilAssumption DEF Shape, Heaps
<1> QED
  BY <1>1, <1>2

\* The stack with the first child of c on it.
LEMMA StackDown ==
  ASSUME NEW H, Shape(H), NEW h \in H.live, NEW q, WalkStack(H, h, q), q # <<>>, q[1] # Nil,
         NEW p \in Seq(Links), Len(p) = Len(q) + 1, p[1] = Kid(H, q[1]),
         \A i \in 1 .. Len(q) : p[i + 1] = q[i]
  PROVE  /\ WalkStack(H, h, p)
         /\ \A b : b \in LeftOf(H, p) <=> b \in LeftOf(H, q) /\ b # q[1]
<1> DEFINE n == Len(q)
           c == q[1]
           W == Forest!Graph(H.live, H.owner, h)
           U == Todo(H, q)
           V == Todo(H, p)
<1>1. n \in Nat \ {0} /\ q \in Seq(Links) /\ Len(p) = n + 1
  BY DEF WalkStack
<1>2. 1 \in 1 .. n /\ 1 \in 1 .. n + 1 /\ 2 \in 1 .. n + 1 /\ 1 + 1 = 2
  BY <1>1
<1>3. /\ U = [j \in 1 .. n |-> Under(H, Pend(H, q, j))]
      /\ V = [j \in 1 .. n + 1 |-> Under(H, Pend(H, p, j))]
  BY <1>1 DEF Todo
<1>4. c \in H.live /\ U[1] = Under(H, c) /\ U[1] \subseteq W \ {h}
  BY <1>2, <1>3 DEF WalkStack, Pend
<1>5. c \in U[1]
  BY <1>4, GraphSelf DEF Under
<1>6. H.owner[c] # Nil
  BY <1>4, <1>5, OwnedInside
<1>7. /\ Kid(H, c) \in H.live \cup {Nil} /\ Sib(H, c) \in H.live \cup {Nil}
      /\ Under(H, c) = {c} \cup Under(H, Kid(H, c)) \cup Under(H, Sib(H, c))
      /\ Under(H, Kid(H, c)) \cap Under(H, Sib(H, c)) = {}
      /\ c \notin Under(H, Kid(H, c)) /\ c \notin Under(H, Sib(H, c))
  BY <1>4, <1>6, UnderSplit
<1>8. p[2] = c
  BY <1>2
<1>9. /\ Pend(H, p, 1) = Kid(H, c) /\ Pend(H, p, 2) = Sib(H, c)
      /\ \A i \in 2 .. n : Pend(H, p, i + 1) = Pend(H, q, i)
  <2>1. ASSUME NEW i \in 2 .. n PROVE Pend(H, p, i + 1) = Pend(H, q, i)
    <3>1. i \in 1 .. n /\ i # 1 /\ i + 1 # 1
      OBVIOUS
    <3> QED
      BY <3>1 DEF Pend
  <2> QED
    BY <1>8, <2>1 DEF Pend
<1>10. \A i \in 2 .. n : i \in 1 .. n /\ i + 1 \in 1 .. n + 1
  OBVIOUS
<1>11. V[1] = Under(H, Kid(H, c)) /\ V[2] = Under(H, Sib(H, c)) /\ \A i \in 2 .. n : V[i + 1] = U[i]
  BY <1>2, <1>3, <1>9, <1>10
<1>12. Apart(U, n)
  BY DEF WalkStack
<1>13. /\ Apart(V, n + 1) /\ c \in Joined(U, n)
       /\ Joined(V, n + 1) = Joined(U, n) \ {c}
  <2>1. /\ U[1] = {c} \cup V[1] \cup V[2] /\ V[1] \cap V[2] = {}
        /\ c \notin V[1] /\ c \notin V[2]
    BY <1>4, <1>7, <1>11
  <2>2. \A i \in 2 .. n : V[i + 1] = U[i]
    BY <1>11
  <2> HIDE DEF U, V, n, c
  <2>3. Apart(V, n + 1)
    BY <1>1, <1>12, <2>1, <2>2, FamilySplit
  <2>4. c \in Joined(U, n)
    BY <1>1, <1>12, <2>1, <2>2, FamilySplit
  <2>5. \A b : b \in Joined(V, n + 1) <=> b \in Joined(U, n) /\ b # c
    BY <1>1, <1>12, <2>1, <2>2, FamilySplit
  <2> QED
    BY <2>3, <2>4, <2>5
<1>14. \A j \in 1 .. n + 1 : j = 1 \/ j = 2 \/ \E i \in 2 .. n : j = i + 1
  <2> SUFFICES ASSUME NEW j \in 1 .. n + 1, j # 1, j # 2 PROVE \E i \in 2 .. n : j = i + 1
    OBVIOUS
  <2>1. j - 1 \in 2 .. n /\ j = (j - 1) + 1
    BY <1>1
  <2> QED
    BY <2>1
<1>15. \A j \in 1 .. n : /\ j # 1 => q[j] \in H.live /\ H.owner[q[j]] # Nil
                         /\ Pend(H, q, j) \in H.live \cup {Nil} /\ U[j] \subseteq W \ {h}
  BY DEF WalkStack
<1>16. ASSUME NEW j \in 1 .. n + 1
       PROVE  /\ j # 1 => p[j] \in H.live /\ H.owner[p[j]] # Nil
              /\ Pend(H, p, j) \in H.live \cup {Nil} /\ V[j] \subseteq W \ {h}
  <2>1. V[1] \subseteq U[1] /\ V[2] \subseteq U[1]
    BY <1>4, <1>7, <1>11
  <2>2. CASE j = 1
    BY <1>4, <1>7, <1>9, <2>1, <2>2
  <2>3. CASE j = 2
    BY <1>4, <1>6, <1>7, <1>8, <1>9, <2>1, <2>3
  <2>4. CASE \E i \in 2 .. n : j = i + 1
    <3>1. PICK i \in 2 .. n : j = i + 1
      BY <2>4
    <3>2. i \in 1 .. n /\ i # 1 /\ p[j] = q[i] /\ Pend(H, p, j) = Pend(H, q, i) /\ V[j] = U[i]
      BY <1>9, <1>10, <1>11, <3>1
    <3> QED
      BY <1>15, <3>2
  <2> QED
    BY <1>14, <2>2, <2>3, <2>4
<1>17. WalkStack(H, h, p)
  <2> HIDE DEF V, U, n, c
  <2> QED
    BY <1>1, <1>13, <1>16 DEF WalkStack, V, W
<1>18. LeftOf(H, p) = Joined(V, n + 1) /\ LeftOf(H, q) = Joined(U, n)
  BY <1>1 DEF LeftOf
<1> HIDE DEF U, V, n, c, W
<1>19. \A b : b \in LeftOf(H, p) <=> b \in LeftOf(H, q) /\ b # c
  BY <1>13, <1>18
<1> QED
  BY <1>17, <1>19 DEF c

\* The stack with its first call done.
LEMMA StackNext ==
  ASSUME NEW H, NEW h, NEW q, WalkStack(H, h, q), Len(q) > 1, q[1] = Nil,
         NEW p \in Seq(Links), Len(p) = Len(q) - 1, p[1] = Sib(H, q[2]),
         \A i \in 2 .. Len(q) - 1 : p[i] = q[i + 1]
  PROVE  WalkStack(H, h, p) /\ LeftOf(H, p) = LeftOf(H, q)
<1> DEFINE n == Len(q)
           W == Forest!Graph(H.live, H.owner, h)
           U == Todo(H, q)
           V == Todo(H, p)
<1>1. n \in Nat \ {0} /\ n > 1 /\ q \in Seq(Links) /\ Len(p) = n - 1
  BY DEF WalkStack
<1>2. 1 \in 1 .. n /\ 2 \in 1 .. n /\ 1 + 1 = 2
  BY <1>1
<1>3. /\ U = [j \in 1 .. n |-> Under(H, Pend(H, q, j))]
      /\ V = [j \in 1 .. n - 1 |-> Under(H, Pend(H, p, j))]
  BY <1>1 DEF Todo
<1>4. U[1] = {}
  BY <1>2, <1>3 DEF Pend, Under
<1>5. ASSUME NEW i \in 1 .. n - 1
      PROVE  /\ i + 1 \in 1 .. n /\ i + 1 # 1 /\ Pend(H, p, i) = Pend(H, q, i + 1)
             /\ V[i] = U[i + 1] /\ (i # 1 => p[i] = q[i + 1])
  <2>1. i + 1 \in 1 .. n /\ i + 1 # 1
    OBVIOUS
  <2>2. Pend(H, p, i) = Pend(H, q, i + 1) /\ (i # 1 => p[i] = q[i + 1])
    <3>1. CASE i = 1
      BY <1>2, <3>1 DEF Pend
    <3>2. CASE i # 1
      <4>1. p[i] = q[i + 1]
        BY <3>2
      <4> QED
        BY <2>1, <3>2, <4>1 DEF Pend
    <3> QED
      BY <3>1, <3>2
  <2> QED
    BY <1>3, <2>1, <2>2
<1>6. \A j \in 1 .. n : /\ j # 1 => q[j] \in H.live /\ H.owner[q[j]] # Nil
                        /\ Pend(H, q, j) \in H.live \cup {Nil} /\ U[j] \subseteq W \ {h}
  BY DEF WalkStack
<1>7. Apart(U, n)
  BY DEF WalkStack
<1>8. \A i \in 1 .. n - 1 : V[i] = U[i + 1]
  BY <1>5
<1>9. LeftOf(H, p) = Joined(V, n - 1) /\ LeftOf(H, q) = Joined(U, n)
  BY <1>1 DEF LeftOf
<1> HIDE DEF U, V, n
<1>10. Apart(V, n - 1) /\ Joined(V, n - 1) = Joined(U, n)
  BY <1>1, <1>4, <1>7, <1>8, FamilyDrop
<1>11. ASSUME NEW j \in 1 .. n - 1
       PROVE  /\ j # 1 => p[j] \in H.live /\ H.owner[p[j]] # Nil
              /\ Pend(H, p, j) \in H.live \cup {Nil} /\ V[j] \subseteq W \ {h}
  BY <1>5, <1>6
<1>12. WalkStack(H, h, p)
  BY <1>1, <1>10, <1>11 DEF WalkStack, V, W
<1> QED
  BY <1>9, <1>10, <1>12

\* The last call, and the stack without it.
LEMMA StackUp ==
  ASSUME NEW H, NEW h, NEW q \in Seq(Links), Len(q) = 1, q[1] = Nil
  PROVE  LeftOf(H, q) = {}
<1>1. \A j \in 1 .. 1 : j = 1
  OBVIOUS
<1>2. \A j \in 1 .. Len(q) : Todo(H, q)[j] = {}
  BY <1>1 DEF Todo, Pend, Under
<1> QED
  BY <1>2 DEF LeftOf, Joined

\* A walk with no call left has nothing left to visit.
LEMMA StackEmpty ==
  ASSUME NEW H, NEW h
  PROVE  LeftOf(H, <<>>) = {} /\ WalkStack(H, h, <<>>)
<1>1. <<>> \in Seq(Links) /\ Len(<<>>) = 0 /\ 1 .. 0 = {}
  OBVIOUS
<1> QED
  BY <1>1 DEF LeftOf, Joined, WalkStack, Apart

\* What a walk has left are blocks of the graph.
LEMMA LeftInside ==
  ASSUME NEW H, NEW h, NEW q, WalkStack(H, h, q)
  PROVE  LeftOf(H, q) \subseteq Forest!Graph(H.live, H.owner, h) \ {h}
BY DEF WalkStack, LeftOf, Joined

\* The work that is left.
Work(H, q) == 2 * Cardinality(LeftOf(H, q)) + Len(q)

\* A step of the walk keeps what is known of it and leaves less to do.
LEMMA WalkStep ==
  ASSUME NEW H, Shape(H), NEW h \in H.live, NEW f \in Frame, NEW s, Walk(H, h, f, s)
  PROVE  LET r == MoveOn(s, f)
         IN  /\ Walk(H, h, f, r)
             /\ Work(H, s.at) \in Nat /\ (Work(H, s.at) = 0 <=> s.at = <<>>)
             /\ IF s.at = <<>> THEN r = s ELSE Work(H, r.at) < Work(H, s.at)
<1> DEFINE q == s.at
           r == MoveOn(s, f)
           W == Forest!Graph(H.live, H.owner, h)
<1>1. /\ s = [heap |-> s.heap, at |-> q]
      /\ s.heap \in Heaps /\ FrameLists(s.heap, s.heap.live)
      /\ SameBlocks(s.heap, H) /\ SameAll(s.heap, H) /\ SameChildren(s.heap, H)
      /\ WalkStack(H, h, q) /\ q \in Seq(Links) /\ Len(q) \in Nat
      /\ s.heap.frame = [b \in Block |-> IF b \in W \ LeftOf(H, q) THEN f ELSE H.frame[b]]
  BY DEF Walk, WalkStack
<1>2. /\ IsFiniteSet(LeftOf(H, q)) /\ Cardinality(LeftOf(H, q)) \in Nat
      /\ LeftOf(H, q) \subseteq W \ {h} /\ W \subseteq H.live /\ H.live \subseteq Block
  <2>1. LeftOf(H, q) \subseteq W \ {h} /\ W \subseteq H.live /\ H.live \subseteq Block
    BY <1>1, LeftInside, GraphSelf DEF Shape, Heaps
  <2>2. LeftOf(H, q) \in SUBSET Block
    BY <2>1
  <2> QED
    BY <2>1, <2>2, FiniteAssumption, FS_Subset, FS_CardinalityType
<1>3. Len(q) = 0 <=> q = <<>>
  <2> HIDE DEF q
  <2> QED
    BY <1>1
<1>4. Work(H, q) \in Nat /\ (Work(H, q) = 0 <=> q = <<>>)
  <2>1. CASE q = <<>>
    <3>1. LeftOf(H, q) = {}
      BY <2>1, StackEmpty
    <3>2. Cardinality(LeftOf(H, q)) = 0
      BY <3>1, FS_EmptySet
    <3>3. Len(q) = 0
      BY <1>3, <2>1
    <3> QED
      BY <2>1, <3>2, <3>3 DEF Work
  <2>2. CASE q # <<>>
    BY <1>1, <1>2, <1>3, <2>2 DEF Work
  <2> QED
    BY <2>1, <2>2
<1>5. CASE q = <<>>
  <2>1. r = s
    BY <1>5 DEF MoveOn
  <2> QED
    BY <1>4, <1>5, <2>1
<1>6. CASE q # <<>> /\ q[1] # Nil
  <2> DEFINE c == q[1]
             M == Moved(s.heap, c, f)
  <2>0. c \in Links
    <3> HIDE DEF q
    <3> QED
      BY <1>1, <1>6, StackParts
  <2>1. c \in LeftOf(H, q) /\ c \in H.live
    <3>1. c \in Block
      BY <1>6, <2>0 DEF Links
    <3>2. 1 \in 1 .. Len(q)
      BY <1>1, <1>3, <1>6
    <3>3. Pend(H, q, 1) \in H.live \cup {Nil} /\ Pend(H, q, 1) = c
      BY <1>1, <3>2 DEF WalkStack, Pend
    <3>4. c \in H.live
      BY <1>6, <3>3
    <3>5. c \in Todo(H, q)[1]
      BY <1>6, <3>2, <3>3, <3>4, GraphSelf DEF Todo, Under
    <3> QED
      BY <3>2, <3>4, <3>5 DEF LeftOf, Joined
  <2>2. c \in s.heap.live /\ c \in Block
    BY <1>1, <1>2, <2>1 DEF SameBlocks
  <2>3. /\ M \in Heaps /\ FrameLists(M, M.live)
        /\ M.frame = [s.heap.frame EXCEPT ![c] = f]
        /\ SameBlocks(M, s.heap) /\ SameAll(M, s.heap) /\ SameChildren(M, s.heap)
    BY <1>1, <2>2, MovedRight
  <2>4. /\ r = [heap |-> M, at |-> <<Kid(M, c)>> \o q]
        /\ r.at \in Seq(Links) /\ r.at # <<>>
        /\ Len(r.at) = Len(q) + 1 /\ r.at[1] = Kid(M, c)
        /\ \A i \in 1 .. Len(q) : r.at[i + 1] = q[i]
    BY <1>1, <1>6, <2>2, <2>3, MoveOnDown
  <2> HIDE DEF M
  <2>5. SameBlocks(M, H) /\ SameAll(M, H) /\ SameChildren(M, H)
    BY <1>1, <2>3 DEF SameBlocks, SameAll, SameChildren, SameLinks
  <2>6. Kid(M, c) = Kid(H, c)
    BY <2>2, <2>5 DEF SameChildren, Kid
  <2>7. r.heap = M /\ r = [heap |-> r.heap, at |-> r.at]
    BY <2>4
  <2> HIDE DEF r
  <2>8. WalkStack(H, h, r.at) /\ LeftOf(H, r.at) = LeftOf(H, q) \ {c}
    <3>1. /\ WalkStack(H, h, r.at)
          /\ \A b : b \in LeftOf(H, r.at) <=> b \in LeftOf(H, q) /\ b # c
      <4>1. /\ WalkStack(H, h, q) /\ q # <<>> /\ q[1] # Nil /\ r.at \in Seq(Links)
            /\ Len(r.at) = Len(q) + 1 /\ r.at[1] = Kid(H, q[1])
            /\ \A i \in 1 .. Len(q) : r.at[i + 1] = q[i]
        BY <1>1, <1>6, <2>4, <2>6
      <4> HIDE DEF q
      <4> QED
        BY <4>1, StackDown
    <3> QED
      BY <3>1
  <2>9. M.frame = [b \in Block |-> IF b \in W \ LeftOf(H, r.at) THEN f ELSE H.frame[b]]
    BY <1>1, <1>2, <2>1, <2>3, <2>8
  <2>10. Walk(H, h, f, r)
    BY <2>3, <2>5, <2>7, <2>8, <2>9 DEF Walk
  <2>11. Cardinality(LeftOf(H, r.at)) = Cardinality(LeftOf(H, q)) - 1
    <3>1. Cardinality(LeftOf(H, q) \ {c}) = Cardinality(LeftOf(H, q)) - 1
      BY <1>2, <2>1, FS_RemoveElement
    <3> QED
      BY <2>8, <3>1
  <2>12. Work(H, r.at) < Work(H, q)
    BY <1>1, <1>2, <2>4, <2>11 DEF Work
  <2> QED
    BY <1>4, <1>6, <2>10, <2>12 DEF r
<1>7. CASE q # <<>> /\ q[1] = Nil /\ Len(q) > 1
  <2>1. q[2] \in Block
    <3>1. 2 \in 1 .. Len(q)
      BY <1>1, <1>7
    <3>2. q[2] \in H.live
      BY <1>1, <3>1 DEF WalkStack
    <3> QED
      BY <1>2, <3>2
  <2>2. /\ r = [heap |-> s.heap, at |-> r.at]
        /\ r.at \in Seq(Links) /\ r.at # <<>>
        /\ Len(r.at) = Len(q) - 1 /\ r.at[1] = Sib(s.heap, q[2])
        /\ \A i \in 2 .. Len(q) - 1 : r.at[i] = q[i + 1]
    BY <1>1, <1>7, <2>1, MoveOnNext
  <2> HIDE DEF r
  <2>3. Sib(s.heap, q[2]) = Sib(H, q[2])
    BY <1>1 DEF SameChildren, SameLinks, Sib
  <2>4. WalkStack(H, h, r.at) /\ LeftOf(H, r.at) = LeftOf(H, q)
    BY <1>1, <1>7, <2>2, <2>3, StackNext
  <2>5. r.heap = s.heap /\ r = [heap |-> r.heap, at |-> r.at]
    BY <2>2
  <2>6. Walk(H, h, f, r)
    BY <1>1, <2>4, <2>5 DEF Walk
  <2>7. Work(H, r.at) < Work(H, q)
    BY <1>1, <1>2, <2>2, <2>4 DEF Work
  <2> QED
    BY <1>4, <1>7, <2>6, <2>7 DEF r
<1>8. CASE q # <<>> /\ q[1] = Nil /\ ~(Len(q) > 1)
  <2>1. Len(q) = 1
    <3>1. Len(q) \in Nat /\ Len(q) # 0 /\ ~(Len(q) > 1)
      BY <1>1, <1>3, <1>8
    <3> HIDE DEF q
    <3> QED
      BY <3>1
  <2>2. r = [heap |-> s.heap, at |-> <<>>]
    BY <1>1, <1>8, <2>1, MoveOnUp
  <2>3. r.heap = s.heap /\ r.at = <<>> /\ r = [heap |-> r.heap, at |-> r.at]
    BY <2>2
  <2> HIDE DEF r
  <2>4. LeftOf(H, q) = {} /\ LeftOf(H, r.at) = {} /\ WalkStack(H, h, r.at)
    BY <1>1, <1>8, <2>1, <2>3, StackUp, StackEmpty
  <2>5. Walk(H, h, f, r)
    BY <1>1, <2>3, <2>4 DEF Walk
  <2>6. Len(r.at) = 0
    BY <2>3
  <2>7. Work(H, r.at) < Work(H, q)
    BY <1>1, <1>2, <2>1, <2>4, <2>6 DEF Work
  <2> QED
    BY <1>4, <1>8, <2>5, <2>7 DEF r
<1> QED
  BY <1>5, <1>6, <1>7, <1>8

\* Where the walk over the graph of h begins.
LEMMA WalkStart ==
  ASSUME NEW H, Shape(H), NEW h \in H.live, NEW f \in Frame
  PROVE  LET M == Moved(H, h, f)
             s == [heap |-> M, at |-> <<Kid(M, h)>>]
         IN  Walk(H, h, f, s) /\ Work(H, s.at) <= 2 * Cardinality(Block)
<1> DEFINE M == Moved(H, h, f)
           s == [heap |-> M, at |-> <<Kid(M, h)>>]
           W == Forest!Graph(H.live, H.owner, h)
           k == Kid(H, h)
           q == <<k>>
<1>1. h \in Block /\ h \in W /\ W \subseteq Block
  BY GraphSelf DEF Shape, Heaps
<1>2. /\ M \in Heaps /\ FrameLists(M, M.live) /\ M.frame = [H.frame EXCEPT ![h] = f]
      /\ SameBlocks(M, H) /\ SameAll(M, H) /\ SameChildren(M, H)
  BY MovedRight DEF Shape
<1> HIDE DEF M
<1>3. Kid(M, h) = k
  BY <1>1, <1>2 DEF SameChildren, Kid
<1>4. k \in H.live \cup {Nil} /\ Under(H, k) = W \ {h}
  BY UnderKid
<1>5. q \in Seq(Links) /\ Len(q) = 1 /\ q[1] = k
  <2>1. k \in Links
    BY <1>4 DEF Shape, Heaps, Links
  <2> HIDE DEF k
  <2> QED
    BY <2>1
<1> HIDE DEF q
<1>6. \A j \in 1 .. Len(q) : j = 1 /\ Pend(H, q, j) = k
  BY <1>5 DEF Pend
<1>7. \A j \in 1 .. Len(q) : Todo(H, q)[j] = W \ {h}
  BY <1>4, <1>6 DEF Todo
<1>8. LeftOf(H, q) = W \ {h}
  <2>1. 1 \in 1 .. Len(q)
    BY <1>5
  <2> QED
    BY <1>7, <2>1 DEF LeftOf, Joined
<1>9. Apart(Todo(H, q), Len(q))
  BY <1>6 DEF Apart
<1>10. WalkStack(H, h, q)
  BY <1>4, <1>5, <1>6, <1>7, <1>9 DEF WalkStack
<1>11. M.frame = [b \in Block |-> IF b \in W \ LeftOf(H, q) THEN f ELSE H.frame[b]]
  <2>1. H.frame \in [Block -> Frame]
    BY DEF Shape, Heaps
  <2> HIDE DEF W
  <2> QED
    BY <1>1, <1>2, <1>8, <2>1
<1>12. s.heap = M /\ s.at = q /\ s = [heap |-> s.heap, at |-> s.at]
  BY <1>3 DEF q
<1> HIDE DEF s
<1>13. Walk(H, h, f, s)
  BY <1>2, <1>10, <1>11, <1>12 DEF Walk
<1>14. Work(H, q) <= 2 * Cardinality(Block)
  <2>1. Cardinality(Block) \in Nat
    BY FiniteAssumption, FS_CardinalityType
  <2>2. IsFiniteSet(Block \ {h}) /\ Cardinality(Block \ {h}) = Cardinality(Block) - 1
    BY <1>1, FiniteAssumption, FS_RemoveElement
  <2>3. W \ {h} \in SUBSET (Block \ {h})
    BY <1>1
  <2> HIDE DEF W
  <2>4. Cardinality(W \ {h}) <= Cardinality(Block \ {h}) /\ Cardinality(W \ {h}) \in Nat
    BY <2>2, <2>3, FS_Subset, FS_CardinalityType
  <2> QED
    BY <1>5, <1>8, <2>1, <2>2, <2>4 DEF Work
<1> QED
  BY <1>12, <1>13, <1>14 DEF s, M

\* yc_move_graph_to_frame: the blocks of the graph change frame and no others, and all
\* lists stay exact.
LEMMA MoveGraphRight ==
  ASSUME NEW H, Shape(H), NEW h \in H.live, NEW f \in Frame
  PROVE  LET M == MoveGraph(H, h, f)
         IN  /\ Shape(M) /\ SameBlocks(M, H) /\ SameAll(M, H) /\ SameChildren(M, H)
             /\ M.frame = [b \in Block |-> IF b \in Forest!Graph(H.live, H.owner, h) THEN f
                                           ELSE H.frame[b]]
<1> DEFINE M0 == Moved(H, h, f)
           x == [heap |-> M0, at |-> <<Kid(M0, h)>>]
           X == {s \in [heap : Heaps, at : Seq(Links)] : Walk(H, h, f, s)}
           step == [s \in X |-> MoveOn(s, f)]
           m == [s \in X |-> Work(H, s.at)]
           n == 2 * Cardinality(Block)
           run[i \in Nat] == IF i = 0 THEN x ELSE MoveOn(run[i - 1], f)
<1>1. MoveGraph(H, h, f) = run[n].heap
  BY StepsEnough DEF MoveGraph, Kid
<1> HIDE DEF run
<1>2. Walk(H, h, f, x) /\ Work(H, x.at) <= n
  BY WalkStart
<1>3. \A s : Walk(H, h, f, s) => s \in X
  <2> SUFFICES ASSUME NEW s, Walk(H, h, f, s) PROVE s \in X
    OBVIOUS
  <2>1. s = [heap |-> s.heap, at |-> s.at] /\ s.heap \in Heaps /\ s.at \in Seq(Links)
    BY DEF Walk, WalkStack
  <2> QED
    BY <2>1
<1> HIDE DEF x, n
<1>4. \A s \in X : Walk(H, h, f, s)
  OBVIOUS
<1> HIDE DEF X
<1>5. ASSUME NEW s \in X
      PROVE  /\ MoveOn(s, f) \in X
             /\ Work(H, s.at) \in Nat /\ (Work(H, s.at) = 0 <=> s.at = <<>>)
             /\ IF s.at = <<>> THEN MoveOn(s, f) = s
                ELSE Work(H, MoveOn(s, f).at) < Work(H, s.at)
  BY <1>3, <1>4, WalkStep
<1>6. x \in X /\ step \in [X -> X] /\ m \in [X -> Nat] /\ n \in Nat
  <2>1. n \in Nat
    BY FiniteAssumption, FS_CardinalityType DEF n
  <2> QED
    BY <1>2, <1>3, <1>5, <2>1
<1>7. Descends(X, step, m)
  BY <1>5 DEF Descends
<1>8. m[x] <= n
  BY <1>2, <1>6
<1>9. PICK r : AllRounds(X, step, x, r) /\ m[r[n]] = 0
  <2> HIDE DEF step, m
  <2> QED
    BY <1>6, <1>7, <1>8, Loop
<1>10. r \in [Nat -> X] /\ r[0] = x /\ \A i \in Nat : r[i + 1] = MoveOn(r[i], f)
  BY <1>9 DEF AllRounds
<1>11. r = [i \in Nat |-> IF i = 0 THEN x ELSE MoveOn(r[i - 1], f)]
  <2> SUFFICES ASSUME NEW i \in Nat
               PROVE  r[i] = IF i = 0 THEN x ELSE MoveOn(r[i - 1], f)
    BY <1>10
  <2>1. CASE i # 0
    <3>1. i - 1 \in Nat /\ (i - 1) + 1 = i
      BY <2>1
    <3> QED
      BY <1>10, <2>1, <3>1
  <2> QED
    BY <1>10, <2>1
<1>12. run = [i \in Nat |-> IF i = 0 THEN x ELSE MoveOn(run[i - 1], f)]
  <2>1. \E g : g = [i \in Nat |-> IF i = 0 THEN x ELSE MoveOn(g[i - 1], f)]
    BY <1>11
  <2> QED
    BY <2>1, Zenon DEF run
<1> HIDE DEF run
<1>13. Nat \subseteq {i \in Nat : run[i] = r[i]}
  <2> DEFINE S == {i \in Nat : run[i] = r[i]}
  <2>1. 0 \in S
    BY <1>10, <1>12
  <2>2. ASSUME NEW i \in Nat, i \in S PROVE i + 1 \in S
    <3>1. run[i + 1] = MoveOn(run[(i + 1) - 1], f) /\ (i + 1) - 1 = i
      BY <1>12
    <3> QED
      BY <1>10, <2>2, <3>1
  <2> HIDE DEF S
  <2>3. Nat \subseteq S
    BY <2>1, <2>2, Induction
  <2> QED
    BY <2>3 DEF S
<1> DEFINE s == r[n]
           M == s.heap
<1>14. run[n] = s /\ s \in X /\ m[s] = 0
  BY <1>6, <1>9, <1>10, <1>13
<1> HIDE DEF s
<1>15. s.at = <<>>
  BY <1>5, <1>14
<1>16. Walk(H, h, f, s)
  BY <1>4, <1>14
<1>17. LeftOf(H, s.at) = {}
  BY <1>15, StackEmpty
<1>18. /\ M \in Heaps /\ FrameLists(M, M.live)
       /\ SameBlocks(M, H) /\ SameAll(M, H) /\ SameChildren(M, H)
       /\ M.frame = [b \in Block |->
                       IF b \in Forest!Graph(H.live, H.owner, h) THEN f ELSE H.frame[b]]
  BY <1>16, <1>17 DEF Walk
<1> HIDE DEF M
<1>19. Shape(M)
  BY <1>18, ShapeKept DEF Shape
<1> QED
  BY <1>1, <1>14, <1>18, <1>19 DEF M

-----------------------------------------------------------------------------
(* yc_release_header.                                                      *)

Members(q) == {q[i] : i \in 1 .. Len(q)}
Distinct(q) == \A i, j \in 1 .. Len(q) : q[i] = q[j] => i = j

\* What is in a sequence with an element put in front of it.
LEMMA MembersPush ==
  ASSUME NEW S, NEW q \in Seq(S), NEW x \in S
  PROVE  /\ \A b : b \in Members(<<x>> \o q) <=> b \in Members(q) \/ b = x
         /\ Distinct(q) /\ x \notin Members(q) => Distinct(<<x>> \o q)
<1> DEFINE p == <<x>> \o q
           n == Len(q)
<1>1. /\ p \in Seq(S) /\ Len(p) = n + 1 /\ p[1] = x /\ n \in Nat
      /\ \A i \in 1 .. n : p[i + 1] = q[i]
  BY StackPush
<1> HIDE DEF p
<1>2. \A j \in 1 .. n + 1 : j = 1 \/ (j - 1 \in 1 .. n /\ p[j] = q[j - 1])
  <2> SUFFICES ASSUME NEW j \in 1 .. n + 1, j # 1 PROVE j - 1 \in 1 .. n /\ p[j] = q[j - 1]
    OBVIOUS
  <2>1. j - 1 \in 1 .. n /\ (j - 1) + 1 = j
    BY <1>1
  <2>2. p[(j - 1) + 1] = q[j - 1]
    BY <1>1, <2>1
  <2> QED
    BY <2>1, <2>2
<1>3. ASSUME NEW b \in Members(p) PROVE b \in Members(q) \/ b = x
  BY <1>1, <1>2 DEF Members
<1>4. ASSUME NEW b \in Members(q) PROVE b \in Members(p)
  <2>1. PICK i \in 1 .. n : b = q[i]
    BY DEF Members
  <2>2. i + 1 \in 1 .. n + 1 /\ p[i + 1] = b
    BY <1>1, <2>1
  <2> QED
    BY <1>1, <2>2 DEF Members
<1>5. x \in Members(p)
  <2>1. 1 \in 1 .. n + 1
    BY <1>1
  <2> QED
    BY <1>1, <2>1 DEF Members
<1>6. ASSUME Distinct(q), x \notin Members(q) PROVE Distinct(p)
  <2> SUFFICES ASSUME NEW i \in 1 .. n + 1, NEW j \in 1 .. n + 1, p[i] = p[j] PROVE i = j
    BY <1>1 DEF Distinct
  <2>1. CASE i # 1 /\ j # 1
    <3>1. i - 1 = j - 1
      BY <1>2, <1>6, <2>1 DEF Distinct
    <3> QED
      BY <1>1, <3>1
  <2>2. CASE i = 1 /\ j # 1
    BY <1>1, <1>2, <1>6, <2>2 DEF Members
  <2>3. CASE i # 1 /\ j = 1
    BY <1>1, <1>2, <1>6, <2>3 DEF Members
  <2> QED
    BY <2>1, <2>2, <2>3
<1> QED
  BY <1>3, <1>4, <1>5, <1>6 DEF p

\* What is in a sequence without its first element.
LEMMA MembersTail ==
  ASSUME NEW S, NEW q \in Seq(S), q # <<>>, Distinct(q)
  PROVE  /\ \A b : b \in Members(Tail(q)) <=> b \in Members(q) /\ b # q[1]
         /\ Distinct(Tail(q)) /\ q[1] \in Members(q)
<1> DEFINE t == Tail(q)
           n == Len(q)
<1>1. /\ n \in Nat \ {0} /\ Len(t) = n - 1
      /\ \A i \in 1 .. n - 1 : t[i] = q[i + 1]
  BY StackParts
<1> HIDE DEF t
<1>2. 1 \in 1 .. n /\ \A i \in 1 .. n - 1 : i + 1 \in 1 .. n /\ i + 1 # 1
  BY <1>1
<1>3. ASSUME NEW b \in Members(t) PROVE b \in Members(q) /\ b # q[1]
  <2>1. PICK i \in 1 .. n - 1 : b = t[i]
    BY <1>1 DEF Members
  <2>2. b = q[i + 1] /\ i + 1 \in 1 .. n /\ i + 1 # 1
    BY <1>1, <1>2, <2>1
  <2> QED
    BY <1>2, <2>2 DEF Members, Distinct
<1>4. ASSUME NEW b \in Members(q), b # q[1] PROVE b \in Members(t)
  <2>1. PICK i \in 1 .. n : b = q[i]
    BY DEF Members
  <2>2. i - 1 \in 1 .. n - 1 /\ (i - 1) + 1 = i
    BY <1>1, <1>4, <2>1
  <2>3. t[i - 1] = q[(i - 1) + 1]
    BY <1>1, <2>2
  <2> QED
    BY <1>1, <2>1, <2>2, <2>3 DEF Members
<1>5. Distinct(t)
  <2> SUFFICES ASSUME NEW i \in 1 .. n - 1, NEW j \in 1 .. n - 1, t[i] = t[j] PROVE i = j
    BY <1>1 DEF Distinct
  <2>1. i + 1 = j + 1
    BY <1>1, <1>2 DEF Distinct
  <2> QED
    BY <1>1, <2>1
<1>6. q[1] \in Members(q)
  BY <1>2 DEF Members
<1> QED
  BY <1>3, <1>4, <1>5, <1>6 DEF t

\* The state of a release of h: of its graph D these blocks remain; each is owned by another of
\* them or has a call of its own.
Remain(H, h, M) == Forest!Graph(H.live, H.owner, h) \cap M.live

Releasing(H, h, s) ==
  /\ s = [heap |-> s.heap, calls |-> s.calls]
  /\ Shape(s.heap)
  /\ s.calls \in Seq(Block) /\ Distinct(s.calls) /\ Members(s.calls) \subseteq Remain(H, h, s.heap)
  /\ s.heap.live = (H.live \ Forest!Graph(H.live, H.owner, h)) \cup Remain(H, h, s.heap)
  /\ s.heap.registered = H.registered \cap s.heap.live
  /\ \A b \in Block \ Forest!Graph(H.live, H.owner, h) :
       s.heap.owner[b] = H.owner[b] /\ s.heap.frame[b] = H.frame[b]
  /\ \A b \in Forest!Graph(H.live, H.owner, h) \ s.heap.live : s.heap.frame[b] = 0
  /\ \A b \in Remain(H, h, s.heap) :
       IF b \in Members(s.calls) THEN s.heap.owner[b] = Nil
       ELSE s.heap.owner[b] \in Remain(H, h, s.heap)
  /\ \A b \in s.heap.live : s.heap.owner[b] \in Remain(H, h, s.heap) => b \in Remain(H, h, s.heap)

Undone(H, h, s) ==
  Cardinality(Remain(H, h, s.heap)) + Cardinality(Remain(H, h, s.heap) \ Members(s.calls))

\* The release is over when no call is left.
LEMMA ReleaseOver ==
  ASSUME NEW H, NEW h \in H.live, NEW s, Releasing(H, h, s), s.calls = <<>>
  PROVE  Remain(H, h, s.heap) = {}
<1> DEFINE R == Remain(H, h, s.heap)
<1>1. Members(s.calls) = {}
  <2>1. Len(<<>>) = 0 /\ 1 .. 0 = {}
    OBVIOUS
  <2> QED
    BY <2>1 DEF Members
<1>2. R \in SUBSET s.heap.live
  BY DEF Remain
<1>3. \A b \in R : s.heap.owner[b] \in R
  BY <1>1 DEF Releasing
<1>4. NoCycleIn(s.heap.live, s.heap.owner)
  BY DEF Releasing, Shape, Owners
<1> HIDE DEF R
<1>5. R = {}
  BY <1>2, <1>3, <1>4 DEF NoCycleIn
<1> QED
  BY <1>5 DEF R

\* What a release has left to do is a number, zero when no call is left.
LEMMA UndoneNumber ==
  ASSUME NEW H, Shape(H), NEW h \in H.live, NEW s, Releasing(H, h, s)
  PROVE  LET R == Remain(H, h, s.heap)
             m == Members(s.calls)
         IN  /\ R \subseteq Block /\ IsFiniteSet(R) /\ IsFiniteSet(R \ m)
             /\ Cardinality(R) \in Nat /\ Cardinality(R \ m) \in Nat
             /\ Undone(H, h, s) \in Nat /\ (Undone(H, h, s) = 0 <=> s.calls = <<>>)
<1> DEFINE R == Remain(H, h, s.heap)
           m == Members(s.calls)
<1>1. R \in SUBSET Block /\ R \ m \in SUBSET Block
  BY DEF Remain, Releasing, Shape, Heaps
<1>2. /\ IsFiniteSet(R) /\ IsFiniteSet(R \ m)
      /\ Cardinality(R) \in Nat /\ Cardinality(R \ m) \in Nat
  <2> HIDE DEF R, m
  <2> QED
    BY <1>1, FiniteAssumption, FS_Subset, FS_CardinalityType
<1>3. Undone(H, h, s) = Cardinality(R) + Cardinality(R \ m)
  BY DEF Undone
<1>4. ASSUME s.calls = <<>> PROVE Undone(H, h, s) = 0
  <2>1. R = {}
    BY <1>4, ReleaseOver
  <2>2. Cardinality(R) = 0 /\ R \ m = {} /\ Cardinality(R \ m) = 0
    BY <2>1, FS_EmptySet
  <2> QED
    BY <1>3, <2>2
<1>5. ASSUME s.calls # <<>> PROVE Undone(H, h, s) # 0
  <2>1. s.calls[1] \in R
    <3>1. s.calls[1] \in Members(s.calls)
      BY <1>5, MembersTail DEF Releasing
    <3> QED
      BY <3>1 DEF Releasing
  <2>2. Cardinality(R) # 0
    <3> HIDE DEF R
    <3> QED
      BY <1>2, <2>1, FS_EmptySet
  <2> HIDE DEF R, m
  <2> QED
    BY <1>2, <1>3, <2>2
<1> HIDE DEF R, m
<1> QED
  BY <1>1, <1>2, <1>3, <1>4, <1>5 DEF R, m

\* A step of a release keeps what is known of it and leaves less to do.
LEMMA ReleaseOnRight ==
  ASSUME NEW H, Shape(H), NEW h \in H.live, NEW s, Releasing(H, h, s)
  PROVE  LET r == ReleaseOn(s)
         IN  /\ Releasing(H, h, r)
             /\ IF s.calls = <<>> THEN r = s ELSE Undone(H, h, r) < Undone(H, h, s)
<1> DEFINE r == ReleaseOn(s)
           M == s.heap
           q == s.calls
           D == Forest!Graph(H.live, H.owner, h)
           R == Remain(H, h, M)
           g == q[1]
           c == Kid(M, g)
<1>1. /\ s = [heap |-> M, calls |-> q] /\ Shape(M)
      /\ q \in Seq(Block) /\ Distinct(q) /\ Members(q) \subseteq R
      /\ M.live = (H.live \ D) \cup R /\ M.registered = H.registered \cap M.live
      /\ \A b \in Block \ D : M.owner[b] = H.owner[b] /\ M.frame[b] = H.frame[b]
      /\ \A b \in D \ M.live : M.frame[b] = 0
      /\ \A b \in R : IF b \in Members(q) THEN M.owner[b] = Nil ELSE M.owner[b] \in R
      /\ \A b \in M.live : M.owner[b] \in R => b \in R
  BY DEF Releasing
<1>2. /\ R \subseteq Block /\ IsFiniteSet(R) /\ IsFiniteSet(R \ Members(q))
      /\ Cardinality(R) \in Nat /\ Cardinality(R \ Members(q)) \in Nat
  BY UndoneNumber
<1>3. /\ Nil \notin Block /\ R = D \cap M.live /\ D \subseteq H.live /\ H.live \subseteq Block
      /\ M.owner \in [Block -> Links] /\ M.frame \in [Block -> Frame] /\ M.live \subseteq Block
  BY <1>1, NilAssumption, GraphSelf DEF Remain, Shape, Heaps
<1>4. CASE q = <<>>
  <2>1. r = s
    BY <1>4 DEF ReleaseOn
  <2> QED
    BY <1>4, <2>1
<1>5. q # <<>> => g \in R /\ g \in Members(q) /\ M.owner[g] = Nil /\ g \in M.live /\ Head(q) = g
  <2> SUFFICES ASSUME q # <<>>
               PROVE  /\ g \in R /\ g \in Members(q) /\ M.owner[g] = Nil
                      /\ g \in M.live /\ Head(q) = g
    OBVIOUS
  <2>1. g \in Members(q)
    BY <1>1, MembersTail
  <2>2. Head(q) = g
    <3> HIDE DEF q
    <3> QED
      BY <1>1, StackParts
  <2> QED
    BY <1>1, <1>3, <2>1, <2>2
<1>6. CASE q # <<>> /\ c # Nil
  <2> DEFINE N == DetachOwner(M, c)
             p == <<c>> \o q
  <2>1. c \in M.live /\ M.owner[c] = g
    BY <1>1, <1>5, <1>6, UpChildren
  <2>2. c \in R /\ c \notin Members(q) /\ c \in Block
    BY <1>1, <1>3, <1>5, <1>6, <2>1
  <2>3. /\ Shape(N) /\ N.owner = [M.owner EXCEPT ![c] = Nil]
        /\ SameBlocks(N, M) /\ SameAll(N, M) /\ SameFrames(N, M)
    BY <1>1, <2>1, DetachRight
  <2>4. r = [heap |-> N, calls |-> p]
    BY <1>5, <1>6 DEF ReleaseOn, Kid
  <2> HIDE DEF N
  <2>5. r.heap = N /\ r.calls = p /\ r = [heap |-> r.heap, calls |-> r.calls]
    BY <2>4
  <2> HIDE DEF r, c
  <2>6. /\ p \in Seq(Block) /\ Distinct(p)
        /\ \A b : b \in Members(p) <=> b \in Members(q) \/ b = c
    <3>1. Distinct(q) /\ q \in Seq(Block)
      BY <1>1
    <3> HIDE DEF q
    <3>2. p \in Seq(Block)
      BY <2>2, <3>1, StackPush
    <3> QED
      BY <2>2, <3>1, <3>2, MembersPush
  <2>7. Remain(H, h, N) = R /\ N.live = M.live /\ N.registered = M.registered /\ N.frame = M.frame
    BY <2>3 DEF Remain, SameBlocks, SameFrames
  <2>8. /\ \A b \in Block : N.owner[b] = IF b = c THEN Nil ELSE M.owner[b]
        /\ c \in D
    BY <1>3, <2>2, <2>3
  <2> HIDE DEF p, q, R, D, M
  <2>9. \A b \in R : IF b \in Members(p) THEN N.owner[b] = Nil ELSE N.owner[b] \in R
    BY <1>1, <1>2, <2>6, <2>8
  <2>10. \A b \in N.live : N.owner[b] \in R => b \in R
    BY <1>1, <1>2, <1>3, <2>7, <2>8
  <2>11. \A b \in Block \ D : N.owner[b] = H.owner[b] /\ N.frame[b] = H.frame[b]
    BY <1>1, <2>7, <2>8
  <2>12. Members(p) \subseteq R
    BY <1>1, <2>2, <2>6
  <2>13. Releasing(H, h, r)
    BY <1>1, <2>3, <2>5, <2>6, <2>7, <2>9, <2>10, <2>11, <2>12 DEF Releasing, D
  <2>14. R \ Members(p) = (R \ Members(q)) \ {c}
    BY <2>6
  <2>15. Cardinality(R \ Members(p)) = Cardinality(R \ Members(q)) - 1
    <3>1. Cardinality((R \ Members(q)) \ {c}) = Cardinality(R \ Members(q)) - 1
      BY <1>2, <2>2, FS_RemoveElement
    <3> QED
      BY <2>14, <3>1
  <2>16. /\ Undone(H, h, r) = Cardinality(R) + Cardinality(R \ Members(p))
         /\ Undone(H, h, s) = Cardinality(R) + Cardinality(R \ Members(q))
    BY <2>5, <2>7 DEF Undone, R, M, q
  <2>17. Undone(H, h, r) < Undone(H, h, s)
    BY <1>2, <2>15, <2>16
  <2> QED
    BY <1>6, <2>13, <2>17 DEF r, q
<1>7. CASE q # <<>> /\ c = Nil
  <2> DEFINE N == Freed(M, g)
             p == Tail(q)
             S == Remain(H, h, N)
  <2>1. g \in M.live /\ M.owner[g] = Nil /\ M.head[Children(g)] = Nil
    BY <1>5, <1>7 DEF Kid
  <2>2. /\ Shape(N) /\ N.owner = M.owner /\ N.frame = [M.frame EXCEPT ![g] = 0]
        /\ N.live = M.live \ {g} /\ N.registered = M.registered \ {g}
    <3>1. Shape(M)
      BY <1>1
    <3> HIDE DEF M, g
    <3> QED
      BY <2>1, <3>1, FreedRight
  <2>3. r = [heap |-> N, calls |-> p]
    BY <1>5, <1>7 DEF ReleaseOn, Kid
  <2> HIDE DEF N
  <2>4. r.heap = N /\ r.calls = p /\ r = [heap |-> r.heap, calls |-> r.calls]
    BY <2>3
  <2> HIDE DEF r
  <2>5. /\ p \in Seq(Block) /\ Distinct(p)
        /\ \A b : b \in Members(p) <=> b \in Members(q) /\ b # g
    <3>1. Distinct(q) /\ q \in Seq(Block) /\ q # <<>>
      BY <1>1, <1>7
    <3> HIDE DEF q
    <3> QED
      BY <3>1, StackParts, MembersTail
  <2>6. S = R \ {g} /\ g \in R /\ g \in D /\ g \in Block /\ g \in Members(q)
    BY <1>3, <1>5, <1>7, <2>2 DEF Remain
  <2>7. \A b \in N.live : N.owner[b] # g /\ b # g
    <3>1. Owners(N)
      BY <2>2 DEF Shape
    <3>2. g # Nil
      BY <1>3, <2>6
    <3> QED
      BY <2>2, <3>1, <3>2 DEF Owners
  <2>8. /\ \A b \in Block : N.frame[b] = IF b = g THEN 0 ELSE M.frame[b]
        /\ \A b \in Block : N.owner[b] = M.owner[b]
    BY <1>3, <2>2, <2>6
  <2> HIDE DEF p, q, R, D, M, g, S
  <2>9. \A b \in S : IF b \in Members(p) THEN N.owner[b] = Nil ELSE N.owner[b] \in S
    <3> SUFFICES ASSUME NEW b \in S
                 PROVE  IF b \in Members(p) THEN N.owner[b] = Nil ELSE N.owner[b] \in S
      OBVIOUS
    <3>1. b \in R /\ b # g /\ b \in Block /\ N.owner[b] = M.owner[b]
      BY <1>2, <2>6, <2>8
    <3>2. N.owner[b] # g
      <4>1. b \in N.live
        BY <1>3, <2>2, <3>1
      <4> QED
        BY <2>7, <4>1
    <3> QED
      BY <1>1, <2>5, <2>6, <3>1, <3>2
  <2>10. \A b \in N.live : N.owner[b] \in S => b \in S
    BY <1>1, <1>3, <2>2, <2>6, <2>7, <2>8
  <2>11. \A b \in Block \ D : N.owner[b] = H.owner[b] /\ N.frame[b] = H.frame[b]
    BY <1>1, <2>6, <2>8
  <2>12. Members(p) \subseteq S
    BY <1>1, <2>5, <2>6
  <2>13. N.live = (H.live \ D) \cup S /\ N.registered = H.registered \cap N.live
    BY <1>1, <2>2, <2>6
  <2>14. \A b \in D \ N.live : N.frame[b] = 0
    BY <1>1, <1>3, <2>2, <2>8
  <2>15. Releasing(H, h, r)
    BY <2>2, <2>4, <2>5, <2>9, <2>10, <2>11, <2>12, <2>13, <2>14 DEF Releasing, D, S
  <2>16. S \ Members(p) = R \ Members(q)
    BY <2>5, <2>6
  <2>17. Cardinality(S) = Cardinality(R) - 1
    BY <1>2, <2>6, FS_RemoveElement
  <2>18. /\ Undone(H, h, r) = Cardinality(S) + Cardinality(S \ Members(p))
         /\ Undone(H, h, s) = Cardinality(R) + Cardinality(R \ Members(q))
    BY <2>4 DEF Undone, R, M, q, S
  <2>19. Undone(H, h, r) < Undone(H, h, s)
    <3>1. Cardinality(S \ Members(p)) = Cardinality(R \ Members(q))
      BY <2>16
    <3> QED
      BY <1>2, <2>17, <2>18, <3>1
  <2> QED
    BY <1>7, <2>15, <2>19 DEF r, q
<1> QED
  BY <1>4, <1>6, <1>7

\* A release begins with at most as much to do as it is given steps.
LEMMA ReleaseStart ==
  ASSUME NEW H, Shape(H), NEW h \in H.live
  PROVE  LET s == [heap |-> DetachOwner(H, h), calls |-> <<h>>]
         IN  Releasing(H, h, s) /\ Undone(H, h, s) <= 2 * Cardinality(Block)
<1> DEFINE N == DetachOwner(H, h)
           q == <<h>>
           s == [heap |-> N, calls |-> q]
           D == Forest!Graph(H.live, H.owner, h)
           R == Remain(H, h, N)
<1>1. /\ Shape(N) /\ N.owner = [H.owner EXCEPT ![h] = Nil]
      /\ SameBlocks(N, H) /\ SameAll(N, H) /\ SameFrames(N, H)
  BY DetachRight
<1>2. /\ h \in D /\ D \subseteq H.live /\ H.live \subseteq Block /\ H.owner \in [Block -> Links]
      /\ Nil \notin Block /\ H.registered \subseteq H.live
  BY NilAssumption, GraphSelf DEF Shape, Heaps
<1>3. \A b \in D : b # h => H.owner[b] \in D
  BY GraphOwner
<1>4. Forest!ChildClosed(H.live, H.owner, D)
  BY GraphClosed
<1> HIDE DEF N
<1>5. R = D
  BY <1>1, <1>2 DEF Remain, SameBlocks
<1>6. q \in Seq(Block) /\ Len(q) = 1 /\ q[1] = h
  BY <1>2
<1> HIDE DEF q
<1>7. \A b : b \in Members(q) <=> b = h
  <2>1. \A i \in 1 .. Len(q) : i = 1
    BY <1>6
  <2>2. 1 \in 1 .. Len(q)
    BY <1>6
  <2> QED
    BY <1>6, <2>1, <2>2 DEF Members
<1>8. Distinct(q)
  <2>1. \A i \in 1 .. Len(q) : i = 1
    BY <1>6
  <2> QED
    BY <2>1 DEF Distinct
<1>9. s.heap = N /\ s.calls = q /\ s = [heap |-> s.heap, calls |-> s.calls]
  OBVIOUS
<1> HIDE DEF s, D
<1>10. /\ N.live = (H.live \ D) \cup R /\ N.registered = H.registered \cap N.live
       /\ \A b \in Block \ D : N.owner[b] = H.owner[b] /\ N.frame[b] = H.frame[b]
       /\ \A b \in D \ N.live : N.frame[b] = 0
  BY <1>1, <1>2, <1>5 DEF SameBlocks, SameFrames
<1>11. \A b \in Block : N.owner[b] = IF b = h THEN Nil ELSE H.owner[b]
  BY <1>1, <1>2
<1>12. /\ \A b \in R : IF b \in Members(q) THEN N.owner[b] = Nil ELSE N.owner[b] \in R
       /\ \A b \in N.live : N.owner[b] \in R => b \in R
  <2>1. N.live = H.live
    BY <1>1 DEF SameBlocks
  <2> QED
    BY <1>2, <1>3, <1>4, <1>5, <1>7, <1>11, <2>1 DEF Forest!ChildClosed
<1>13. Releasing(H, h, s)
  BY <1>1, <1>2, <1>5, <1>6, <1>7, <1>8, <1>9, <1>10, <1>12 DEF Releasing, D
<1>14. Undone(H, h, s) <= 2 * Cardinality(Block)
  <2>1. Cardinality(Block) \in Nat
    BY FiniteAssumption, FS_CardinalityType
  <2>2. R \in SUBSET Block /\ R \ Members(q) \in SUBSET Block
    BY <1>2, <1>5
  <2> HIDE DEF R
  <2>3. /\ Cardinality(R) <= Cardinality(Block) /\ Cardinality(R) \in Nat
        /\ Cardinality(R \ Members(q)) <= Cardinality(Block) /\ Cardinality(R \ Members(q)) \in Nat
    BY <2>2, FiniteAssumption, FS_Subset, FS_CardinalityType
  <2>4. Undone(H, h, s) = Cardinality(R) + Cardinality(R \ Members(q))
    BY <1>9 DEF Undone, R
  <2> QED
    BY <2>1, <2>3, <2>4
<1> QED
  BY <1>13, <1>14 DEF s, N, q

\* yc_release_header: the blocks of the graph are forgotten and no others, and all lists stay
\* exact.
LEMMA ReleaseRight ==
  ASSUME NEW H, Shape(H), NEW h \in H.live
  PROVE  LET M == ReleaseHeader(H, h)
             D == Forest!Graph(H.live, H.owner, h)
         IN  /\ Shape(M) /\ M.live = H.live \ D /\ M.registered = H.registered \ D
             /\ M.owner = [b \in Block |-> IF b \in D THEN Nil ELSE H.owner[b]]
             /\ M.frame = [b \in Block |-> IF b \in D THEN 0 ELSE H.frame[b]]
<1> DEFINE x == [heap |-> DetachOwner(H, h), calls |-> <<h>>]
           D == Forest!Graph(H.live, H.owner, h)
           X == {s \in [heap : Heaps, calls : Seq(Block)] : Releasing(H, h, s)}
           step == [s \in X |-> ReleaseOn(s)]
           m == [s \in X |-> Undone(H, h, s)]
           n == 2 * Cardinality(Block)
           run[i \in Nat] == IF i = 0 THEN x ELSE ReleaseOn(run[i - 1])
<1>1. ReleaseHeader(H, h) = run[n].heap
  BY StepsEnough DEF ReleaseHeader
<1> HIDE DEF run
<1>2. Releasing(H, h, x) /\ Undone(H, h, x) <= n
  BY ReleaseStart
<1>3. \A s : Releasing(H, h, s) => s \in X
  <2> SUFFICES ASSUME NEW s, Releasing(H, h, s) PROVE s \in X
    OBVIOUS
  <2>1. s = [heap |-> s.heap, calls |-> s.calls] /\ s.heap \in Heaps /\ s.calls \in Seq(Block)
    BY DEF Releasing, Shape
  <2> QED
    BY <2>1
<1> HIDE DEF x, n
<1>4. \A s \in X : Releasing(H, h, s)
  OBVIOUS
<1> HIDE DEF X
<1>5. ASSUME NEW s \in X
      PROVE  /\ ReleaseOn(s) \in X
             /\ Undone(H, h, s) \in Nat /\ (Undone(H, h, s) = 0 <=> s.calls = <<>>)
             /\ IF s.calls = <<>> THEN ReleaseOn(s) = s
                ELSE Undone(H, h, ReleaseOn(s)) < Undone(H, h, s)
  BY <1>3, <1>4, ReleaseOnRight, UndoneNumber
<1>6. x \in X /\ step \in [X -> X] /\ m \in [X -> Nat] /\ n \in Nat
  <2>1. n \in Nat
    BY FiniteAssumption, FS_CardinalityType DEF n
  <2> QED
    BY <1>2, <1>3, <1>5, <2>1
<1>7. Descends(X, step, m)
  BY <1>5 DEF Descends
<1>8. m[x] <= n
  BY <1>2, <1>6
<1>9. PICK r : AllRounds(X, step, x, r) /\ m[r[n]] = 0
  <2> HIDE DEF step, m
  <2> QED
    BY <1>6, <1>7, <1>8, Loop
<1>10. r \in [Nat -> X] /\ r[0] = x /\ \A i \in Nat : r[i + 1] = ReleaseOn(r[i])
  BY <1>9 DEF AllRounds
<1>11. r = [i \in Nat |-> IF i = 0 THEN x ELSE ReleaseOn(r[i - 1])]
  <2> SUFFICES ASSUME NEW i \in Nat
               PROVE  r[i] = IF i = 0 THEN x ELSE ReleaseOn(r[i - 1])
    BY <1>10
  <2>1. CASE i # 0
    <3>1. i - 1 \in Nat /\ (i - 1) + 1 = i
      BY <2>1
    <3> QED
      BY <1>10, <2>1, <3>1
  <2> QED
    BY <1>10, <2>1
<1>12. run = [i \in Nat |-> IF i = 0 THEN x ELSE ReleaseOn(run[i - 1])]
  <2>1. \E g : g = [i \in Nat |-> IF i = 0 THEN x ELSE ReleaseOn(g[i - 1])]
    BY <1>11
  <2> QED
    BY <2>1, Zenon DEF run
<1> HIDE DEF run
<1>13. Nat \subseteq {i \in Nat : run[i] = r[i]}
  <2> DEFINE S == {i \in Nat : run[i] = r[i]}
  <2>1. 0 \in S
    BY <1>10, <1>12
  <2>2. ASSUME NEW i \in Nat, i \in S PROVE i + 1 \in S
    <3>1. run[i + 1] = ReleaseOn(run[(i + 1) - 1]) /\ (i + 1) - 1 = i
      BY <1>12
    <3> QED
      BY <1>10, <2>2, <3>1
  <2> HIDE DEF S
  <2>3. Nat \subseteq S
    BY <2>1, <2>2, Induction
  <2> QED
    BY <2>3 DEF S
<1> DEFINE s == r[n]
           M == s.heap
<1>14. run[n] = s /\ s \in X /\ m[s] = 0
  BY <1>6, <1>9, <1>10, <1>13
<1> HIDE DEF s
<1>15. s.calls = <<>> /\ Releasing(H, h, s)
  BY <1>4, <1>5, <1>14
<1>16. Remain(H, h, M) = {}
  BY <1>15, ReleaseOver
<1>17. /\ D \subseteq H.live /\ H.live \subseteq Block /\ H.registered \subseteq H.live
  BY GraphSelf DEF Shape, Heaps
<1> HIDE DEF M
<1>18. /\ Shape(M) /\ M.live = H.live \ D /\ M.registered = H.registered \cap M.live
       /\ \A b \in Block \ D : M.owner[b] = H.owner[b] /\ M.frame[b] = H.frame[b]
       /\ \A b \in D \ M.live : M.frame[b] = 0
  BY <1>15, <1>16 DEF Releasing, M
<1> HIDE DEF D
<1>19. M.owner = [b \in Block |-> IF b \in D THEN Nil ELSE H.owner[b]]
  <2>1. \A b \in Block : M.owner[b] = IF b \in D THEN Nil ELSE H.owner[b]
    BY <1>17, <1>18 DEF Shape, Owners
  <2> QED
    BY <1>18, <2>1 DEF Shape, Heaps
<1>20. M.frame = [b \in Block |-> IF b \in D THEN 0 ELSE H.frame[b]]
  <2>1. \A b \in Block : M.frame[b] = IF b \in D THEN 0 ELSE H.frame[b]
    BY <1>17, <1>18
  <2> QED
    BY <1>18, <2>1 DEF Shape, Heaps
<1>21. M.registered = H.registered \ D
  BY <1>17, <1>18
<1>22. M = run[n].heap
  BY <1>14 DEF M
<1> QED
  BY <1>1, <1>18, <1>19, <1>20, <1>21, <1>22 DEF D

-----------------------------------------------------------------------------
(* yc_owner_root, by the lists.                                            *)

\* yc_is_owner_ancestor
LEMMA AboveRight ==
  ASSUME NEW H, Shape(H), NEW h \in H.live, NEW a \in Block
  PROVE  a \in Above(H, h) <=> a \in H.live /\ h \in Forest!Graph(H.live, H.owner, a)
<1> DEFINE L == H.live
           own == H.owner
<1>1. /\ L \subseteq Block /\ h \in Block /\ Nil \notin Block
      /\ \A b \in L : own[b] \in L \cup {Nil}
  BY NilAssumption DEF Shape, Owners, Heaps
<1>2. ASSUME a \in Above(H, h) PROVE a \in L /\ h \in Forest!Graph(L, own, a)
  <2> DEFINE S == {b \in L : h \in Forest!Graph(L, own, b)}
  <2>1. S \in SUBSET Block /\ h \in S
    BY <1>1, GraphSelf
  <2>2. ASSUME NEW b \in S PROVE own[b] \in S \cup {Nil}
    <3>1. CASE own[b] = Nil
      BY <3>1
    <3>2. CASE own[b] # Nil
      <4>1. own[b] \in L
        BY <1>1, <3>2
      <4>2. b \in Forest!Graph(L, own, own[b])
        BY <4>1, GraphSelf, GraphClosed DEF Forest!ChildClosed
      <4>3. h \in Forest!Graph(L, own, own[b])
        BY <4>1, <4>2, GraphNested
      <4> QED
        BY <4>1, <4>3
    <3> QED
      BY <3>1, <3>2
  <2> HIDE DEF S
  <2>3. a \in S
    BY <1>2, <2>1, <2>2 DEF Above
  <2> QED
    BY <2>3 DEF S
<1>3. ASSUME a \in L, h \in Forest!Graph(L, own, a) PROVE a \in Above(H, h)
  <2> SUFFICES ASSUME NEW S \in SUBSET Block, h \in S, \A x \in S : own[x] \in S \cup {Nil},
                      a \notin S
               PROVE  FALSE
    BY DEF Above
  <2>1. Forest!ChildClosed(L, own, L \ S)
    BY <1>1 DEF Forest!ChildClosed
  <2>2. L \ S \in SUBSET L /\ a \in L \ S
    BY <1>3
  <2> HIDE DEF L, own
  <2>3. Forest!Graph(L, own, a) \subseteq L \ S
    BY <2>1, <2>2, GraphLeast
  <2> QED
    BY <1>3, <2>3
<1> QED
  BY <1>2, <1>3

\* yc_owner_root
LEMMA OwnerRootRight ==
  ASSUME NEW H, Shape(H), NEW h \in H.live
  PROVE  LET r == OwnerRoot(H, h)
         IN  r \in H.live /\ H.owner[r] = Nil /\ h \in Forest!Graph(H.live, H.owner, r)
<1> DEFINE A == Above(H, h)
<1>1. \A a \in Block : a \in A <=> a \in H.live /\ h \in Forest!Graph(H.live, H.owner, a)
  BY AboveRight
<1>2. A \subseteq Block /\ H.live \subseteq Block
  BY DEF Above, Shape, Heaps
<1>3. h \in A /\ A \in SUBSET H.live
  BY <1>1, <1>2, GraphSelf
<1> HIDE DEF A
<1>4. PICK r \in A : H.owner[r] \notin A
  BY <1>3 DEF Shape, Owners, NoCycleIn
<1>5. H.owner[r] = Nil
  <2> SUFFICES ASSUME H.owner[r] # Nil PROVE FALSE
    OBVIOUS
  <2>1. H.owner[r] \in H.live /\ r \in H.live /\ h \in Forest!Graph(H.live, H.owner, r)
    BY <1>1, <1>2, <1>3, <1>4 DEF Shape, Owners
  <2>2. r \in Forest!Graph(H.live, H.owner, H.owner[r])
    BY <2>1, GraphSelf, GraphClosed DEF Forest!ChildClosed
  <2>3. h \in Forest!Graph(H.live, H.owner, H.owner[r])
    BY <2>1, <2>2, GraphNested
  <2> QED
    BY <1>1, <1>2, <1>4, <2>1, <2>3
<1>6. OwnerRoot(H, h) \in A /\ H.owner[OwnerRoot(H, h)] = Nil
  BY <1>4, <1>5 DEF OwnerRoot, A
<1> QED
  BY <1>1, <1>2, <1>6

-----------------------------------------------------------------------------
(* Frames of graphs.                                                       *)

\* A child is in the frame of its owner.
Agree(M) == \A c \in M.live : M.owner[c] # Nil => M.frame[c] = M.frame[M.owner[c]]

\* The frames of a graph agree.
LEMMA AgreeInside ==
  ASSUME NEW M, Shape(M), Agree(M), NEW h \in M.live, NEW b \in Forest!Graph(M.live, M.owner, h)
  PROVE  b \in M.live /\ M.frame[b] = M.frame[h]
<1> DEFINE L == M.live
           S == {x \in L : M.frame[x] = M.frame[h]}
<1>1. h \in S /\ S \in SUBSET L
  OBVIOUS
<1>2. Forest!ChildClosed(L, M.owner, S)
  BY NilAssumption DEF Forest!ChildClosed, Agree, Shape, Heaps
<1> HIDE DEF S, L
<1>3. Forest!Graph(L, M.owner, h) \subseteq S
  BY <1>1, <1>2, GraphLeast
<1> QED
  BY <1>3 DEF S, L

\* A root and all that is below it change frame together.
LEMMA AgreeMoved ==
  ASSUME NEW H, Shape(H), Agree(H), NEW r \in H.live, H.owner[r] = Nil, NEW f, NEW M,
         SameBlocks(M, H), SameChildren(M, H),
         M.frame = [b \in Block |->
                      IF b \in Forest!Graph(H.live, H.owner, r) THEN f ELSE H.frame[b]]
  PROVE  Agree(M)
<1> SUFFICES ASSUME NEW c \in M.live, M.owner[c] # Nil PROVE M.frame[c] = M.frame[M.owner[c]]
  BY DEF Agree
<1>1. c \in H.live /\ M.owner[c] = H.owner[c] /\ H.owner[c] \in H.live /\ H.live \subseteq Block
  BY DEF SameBlocks, SameChildren, Shape, Owners, Heaps
<1>2. c \in Forest!Graph(H.live, H.owner, r) <=> H.owner[c] \in Forest!Graph(H.live, H.owner, r)
  BY <1>1, GraphOwner, GraphClosed DEF Forest!ChildClosed
<1>3. H.frame[c] = H.frame[H.owner[c]]
  BY <1>1 DEF Agree
<1> QED
  BY <1>1, <1>2, <1>3

\* What is left after a release.
LEMMA AgreeReleased ==
  ASSUME NEW H, Shape(H), Agree(H), NEW D, Forest!ChildClosed(H.live, H.owner, D), NEW M,
         M.live = H.live \ D,
         M.owner = [b \in Block |-> IF b \in D THEN Nil ELSE H.owner[b]],
         M.frame = [b \in Block |-> IF b \in D THEN 0 ELSE H.frame[b]]
  PROVE  Agree(M)
<1> SUFFICES ASSUME NEW c \in M.live, M.owner[c] # Nil PROVE M.frame[c] = M.frame[M.owner[c]]
  BY DEF Agree
<1>1. c \in H.live /\ c \notin D /\ H.live \subseteq Block /\ M.owner[c] = H.owner[c]
  BY DEF Shape, Heaps
<1>2. H.owner[c] \in H.live /\ H.owner[c] \notin D /\ H.frame[c] = H.frame[H.owner[c]]
  BY <1>1 DEF Shape, Owners, Agree, Forest!ChildClosed
<1> QED
  BY <1>1, <1>2

-----------------------------------------------------------------------------
(* The loops over a frame.                                                 *)

InFrameOf(M, f) == {b \in M.live : M.frame[b] = f}

\* The first block of a frame's list, none if the frame is empty.
LEMMA FirstInFrame ==
  ASSUME NEW M, Shape(M), NEW f \in Frame
  PROVE  LET h == M.head[InFrame(f)]
         IN  /\ h = Nil => InFrameOf(M, f) = {}
             /\ h # Nil => h \in InFrameOf(M, f) /\ h \in M.live
             /\ InFrameOf(M, f) \subseteq Block /\ IsFiniteSet(InFrameOf(M, f))
             /\ Cardinality(InFrameOf(M, f)) \in Nat
             /\ Cardinality(InFrameOf(M, f)) <= Cardinality(Block)
             /\ (Cardinality(InFrameOf(M, f)) = 0 <=> h = Nil)
<1> DEFINE h == M.head[InFrame(f)]
           m == InFrameOf(M, f)
<1>1. ListOf(h, M.next["frame"], M.prev["frame"], m)
  BY DEF Shape, FrameLists, HeapList, InFrameOf
<1>2. m \in SUBSET Block /\ m \subseteq M.live
  BY DEF InFrameOf, Shape, Heaps
<1> HIDE DEF m
<1>3. h = Nil <=> m = {}
  BY <1>1, <1>2, ListFirst
<1>4. h # Nil => h \in m
  BY <1>1 DEF ListOf
<1>5. /\ IsFiniteSet(m) /\ Cardinality(m) \in Nat
      /\ Cardinality(m) <= Cardinality(Block) /\ (Cardinality(m) = 0 <=> m = {})
  BY <1>2, FiniteAssumption, FS_Subset, FS_CardinalityType, FS_EmptySet
<1> QED
  BY <1>2, <1>3, <1>4, <1>5 DEF m

\* A frame that loses a block has fewer.
LEMMA FewerInFrame ==
  ASSUME NEW M, Shape(M), NEW f \in Frame, NEW S \in SUBSET InFrameOf(M, f),
         NEW h \in InFrameOf(M, f) \ S
  PROVE  Cardinality(S) < Cardinality(InFrameOf(M, f)) /\ Cardinality(S) \in Nat
<1> DEFINE m == InFrameOf(M, f)
<1>1. IsFiniteSet(m) /\ Cardinality(m) \in Nat
  BY FirstInFrame
<1> HIDE DEF m
<1>2. S \in SUBSET m /\ S # m
  BY DEF m
<1>3. Cardinality(S) <= Cardinality(m) /\ Cardinality(S) # Cardinality(m) /\ Cardinality(S) \in Nat
  BY <1>1, <1>2, FS_Subset, FS_CardinalityType
<1> QED
  BY <1>1, <1>3 DEF m

\* yc_frame_pop, so far.
Popping(H, f, M) ==
  /\ Shape(M) /\ Agree(M)
  /\ M.live \subseteq H.live /\ M.registered = H.registered \cap M.live
  /\ \A b \in H.live \ M.live : H.frame[b] = f /\ M.frame[b] = 0
  /\ \A b \in Block \ (H.live \ M.live) : M.owner[b] = H.owner[b] /\ M.frame[b] = H.frame[b]

\* A round of the loop of yc_frame_pop frees blocks of that frame only.
LEMMA ReleaseFirstRight ==
  ASSUME NEW H, Shape(H), NEW f \in Frame, NEW M, Popping(H, f, M)
  PROVE  LET N == ReleaseFirst(M, f)
             k == Cardinality(InFrameOf(M, f))
         IN  /\ Popping(H, f, N)
             /\ k \in Nat /\ k <= Cardinality(Block)
             /\ IF k = 0 THEN N = M /\ InFrameOf(M, f) = {}
                ELSE Cardinality(InFrameOf(N, f)) < k
<1> DEFINE h == M.head[InFrame(f)]
           k == Cardinality(InFrameOf(M, f))
           N == ReleaseFirst(M, f)
           D == Forest!Graph(M.live, M.owner, h)
<1>1. /\ Shape(M) /\ Agree(M)
      /\ M.live \subseteq H.live /\ M.registered = H.registered \cap M.live
      /\ \A b \in H.live \ M.live : H.frame[b] = f /\ M.frame[b] = 0
      /\ \A b \in Block \ (H.live \ M.live) : M.owner[b] = H.owner[b] /\ M.frame[b] = H.frame[b]
  BY DEF Popping
<1>2. /\ h = Nil => InFrameOf(M, f) = {}
      /\ h # Nil => h \in InFrameOf(M, f) /\ h \in M.live
      /\ k \in Nat /\ k <= Cardinality(Block) /\ (k = 0 <=> h = Nil)
  BY <1>1, FirstInFrame
<1>3. CASE h = Nil
  <2>1. N = M
    BY <1>3 DEF ReleaseFirst
  <2> QED
    BY <1>2, <1>3, <2>1
<1>4. CASE h # Nil
  <2>1. N = ReleaseHeader(M, h)
    BY <1>4 DEF ReleaseFirst
  <2>2. h \in M.live /\ M.frame[h] = f
    BY <1>2, <1>4 DEF InFrameOf
  <2> HIDE DEF h
  <2>3. /\ Shape(N) /\ N.live = M.live \ D /\ N.registered = M.registered \ D
        /\ N.owner = [b \in Block |-> IF b \in D THEN Nil ELSE M.owner[b]]
        /\ N.frame = [b \in Block |-> IF b \in D THEN 0 ELSE M.frame[b]]
    BY <1>1, <2>1, <2>2, ReleaseRight
  <2> HIDE DEF N
  <2>4. h \in D /\ D \subseteq M.live /\ Forest!ChildClosed(M.live, M.owner, D)
    BY <2>2, GraphSelf, GraphClosed
  <2>5. \A b \in D : M.frame[b] = f
    BY <1>1, <2>2, AgreeInside
  <2> HIDE DEF D
  <2>6. Agree(N)
    BY <1>1, <2>3, <2>4, AgreeReleased
  <2>7. H.live \subseteq Block
    BY DEF Shape, Heaps
  <2>8. /\ \A b \in H.live \ N.live : H.frame[b] = f /\ N.frame[b] = 0
        /\ \A b \in Block \ (H.live \ N.live) : N.owner[b] = H.owner[b] /\ N.frame[b] = H.frame[b]
    BY <1>1, <2>3, <2>4, <2>5, <2>7
  <2>9. Popping(H, f, N)
    BY <1>1, <2>3, <2>6, <2>8 DEF Popping
  <2>10. InFrameOf(N, f) \in SUBSET InFrameOf(M, f) /\ h \in InFrameOf(M, f) \ InFrameOf(N, f)
    BY <1>1, <1>2, <1>4, <2>3, <2>4, <2>7 DEF InFrameOf, h
  <2>11. Cardinality(InFrameOf(N, f)) < k
    BY <1>1, <2>10, FewerInFrame
  <2> QED
    BY <1>2, <1>4, <2>9, <2>11 DEF N, h
<1> QED
  BY <1>3, <1>4

\* The loop of yc_frame_pop frees the blocks of the frame.
LEMMA ReleaseFrameRight ==
  ASSUME NEW H, Shape(H), Agree(H), NEW f \in Frame
  PROVE  Popping(H, f, ReleaseFrame(H, f)) /\ InFrameOf(ReleaseFrame(H, f), f) = {}
<1> DEFINE X == {M \in Heaps : Popping(H, f, M)}
           step == [M \in X |-> ReleaseFirst(M, f)]
           m == [M \in X |-> Cardinality(InFrameOf(M, f))]
           n == 2 * Cardinality(Block)
           run[i \in Nat] == IF i = 0 THEN H ELSE ReleaseFirst(run[i - 1], f)
<1>1. ReleaseFrame(H, f) = run[n]
  BY StepsEnough DEF ReleaseFrame
<1> HIDE DEF run
<1>2. Popping(H, f, H)
  BY DEF Popping, Shape
<1>3. \A M : Popping(H, f, M) => M \in X
  BY DEF Popping, Shape
<1>4. \A M \in X : Popping(H, f, M)
  OBVIOUS
<1> HIDE DEF X
<1>5. ASSUME NEW M \in X
      PROVE  /\ ReleaseFirst(M, f) \in X
             /\ Cardinality(InFrameOf(M, f)) \in Nat
             /\ Cardinality(InFrameOf(M, f)) <= Cardinality(Block)
             /\ IF Cardinality(InFrameOf(M, f)) = 0
                THEN ReleaseFirst(M, f) = M /\ InFrameOf(M, f) = {}
                ELSE Cardinality(InFrameOf(ReleaseFirst(M, f), f))
                       < Cardinality(InFrameOf(M, f))
  BY <1>3, <1>4, ReleaseFirstRight
<1>6. /\ H \in X /\ step \in [X -> X] /\ m \in [X -> Nat]
      /\ n \in Nat /\ Cardinality(Block) <= n
  <2>1. n \in Nat /\ Cardinality(Block) <= n
    BY FiniteAssumption, FS_CardinalityType
  <2> HIDE DEF n
  <2> QED
    BY <1>2, <1>3, <1>5, <2>1
<1>7. Descends(X, step, m)
  BY <1>5 DEF Descends
<1>8. m[H] <= n
  <2>1. m[H] \in Nat /\ m[H] <= Cardinality(Block) /\ Cardinality(Block) \in Nat
    BY <1>5, <1>6, FiniteAssumption, FS_CardinalityType
  <2> HIDE DEF m
  <2> QED
    BY <2>1
<1>9. PICK r : AllRounds(X, step, H, r) /\ m[r[n]] = 0
  <2> HIDE DEF step, m, n
  <2> QED
    BY <1>6, <1>7, <1>8, Loop
<1>10. r \in [Nat -> X] /\ r[0] = H /\ \A i \in Nat : r[i + 1] = ReleaseFirst(r[i], f)
  BY <1>9 DEF AllRounds
<1>11. r = [i \in Nat |-> IF i = 0 THEN H ELSE ReleaseFirst(r[i - 1], f)]
  <2> SUFFICES ASSUME NEW i \in Nat
               PROVE  r[i] = IF i = 0 THEN H ELSE ReleaseFirst(r[i - 1], f)
    BY <1>10
  <2>1. CASE i # 0
    <3>1. i - 1 \in Nat /\ (i - 1) + 1 = i
      BY <2>1
    <3> QED
      BY <1>10, <2>1, <3>1
  <2> QED
    BY <1>10, <2>1
<1>12. run = [i \in Nat |-> IF i = 0 THEN H ELSE ReleaseFirst(run[i - 1], f)]
  <2>1. \E g : g = [i \in Nat |-> IF i = 0 THEN H ELSE ReleaseFirst(g[i - 1], f)]
    BY <1>11
  <2> QED
    BY <2>1, Zenon DEF run
<1> HIDE DEF run
<1>13. Nat \subseteq {i \in Nat : run[i] = r[i]}
  <2> DEFINE S == {i \in Nat : run[i] = r[i]}
  <2>1. 0 \in S
    BY <1>10, <1>12
  <2>2. ASSUME NEW i \in Nat, i \in S PROVE i + 1 \in S
    <3>1. run[i + 1] = ReleaseFirst(run[(i + 1) - 1], f) /\ (i + 1) - 1 = i
      BY <1>12
    <3> QED
      BY <1>10, <2>2, <3>1
  <2> HIDE DEF S
  <2>3. Nat \subseteq S
    BY <2>1, <2>2, Induction
  <2> QED
    BY <2>3 DEF S
<1> HIDE DEF n
<1>14. run[n] = r[n] /\ r[n] \in X
  BY <1>6, <1>10, <1>13
<1>15. Cardinality(InFrameOf(r[n], f)) = 0
  BY <1>9, <1>14
<1> QED
  BY <1>1, <1>4, <1>5, <1>14, <1>15

\* yc_move_frame_to_parent, so far.
Emptying(H, f, M) ==
  /\ Shape(M) /\ Agree(M)
  /\ SameBlocks(M, H) /\ SameAll(M, H) /\ SameChildren(M, H)
  /\ \A b \in Block : M.frame[b] = H.frame[b] \/ (b \in InFrameOf(H, f) /\ M.frame[b] = f - 1)

\* A round of the loop of yc_move_frame_to_parent moves blocks of that frame only.
LEMMA MoveFirstRight ==
  ASSUME NEW H, Shape(H), NEW f \in Frame, f # 0, NEW M, Emptying(H, f, M)
  PROVE  LET N == MoveFirst(M, f)
             k == Cardinality(InFrameOf(M, f))
         IN  /\ Emptying(H, f, N)
             /\ k \in Nat /\ k <= Cardinality(Block)
             /\ IF k = 0 THEN N = M /\ InFrameOf(M, f) = {}
                ELSE Cardinality(InFrameOf(N, f)) < k
<1> DEFINE h == M.head[InFrame(f)]
           k == Cardinality(InFrameOf(M, f))
           N == MoveFirst(M, f)
           r == OwnerRoot(M, h)
           D == Forest!Graph(M.live, M.owner, r)
<1>1. /\ Shape(M) /\ Agree(M)
      /\ SameBlocks(M, H) /\ SameAll(M, H) /\ SameChildren(M, H)
      /\ \A b \in Block : M.frame[b] = H.frame[b] \/ (b \in InFrameOf(H, f) /\ M.frame[b] = f - 1)
  BY DEF Emptying
<1>2. /\ h = Nil => InFrameOf(M, f) = {}
      /\ h # Nil => h \in InFrameOf(M, f) /\ h \in M.live
      /\ k \in Nat /\ k <= Cardinality(Block) /\ (k = 0 <=> h = Nil)
  BY <1>1, FirstInFrame
<1>3. CASE h = Nil
  <2>1. N = M
    BY <1>3 DEF MoveFirst
  <2> QED
    BY <1>2, <1>3, <2>1
<1>4. CASE h # Nil
  <2>1. N = MoveGraph(M, r, f - 1)
    BY <1>4 DEF MoveFirst
  <2>2. h \in M.live /\ M.frame[h] = f
    BY <1>2, <1>4 DEF InFrameOf
  <2> HIDE DEF h
  <2>3. r \in M.live /\ M.owner[r] = Nil /\ h \in D
    BY <1>1, <2>2, OwnerRootRight
  <2> HIDE DEF r
  <2>4. f - 1 \in Frame /\ f - 1 # f
    BY MaxFrameAssumption DEF Frame
  <2>5. /\ Shape(N) /\ SameBlocks(N, M) /\ SameAll(N, M) /\ SameChildren(N, M)
        /\ N.frame = [b \in Block |-> IF b \in D THEN f - 1 ELSE M.frame[b]]
    BY <1>1, <2>1, <2>3, <2>4, MoveGraphRight
  <2> HIDE DEF N
  <2>6. Agree(N)
    BY <1>1, <2>3, <2>5, AgreeMoved
  <2>7. \A b \in D : b \in M.live /\ M.frame[b] = f
    <3>1. \A b \in D : b \in M.live /\ M.frame[b] = M.frame[r]
      BY <1>1, <2>3, AgreeInside
    <3> QED
      BY <2>2, <2>3, <3>1
  <2> HIDE DEF D
  <2>8. SameBlocks(N, H) /\ SameAll(N, H) /\ SameChildren(N, H)
    BY <1>1, <2>5 DEF SameBlocks, SameAll, SameChildren, SameLinks
  <2>9. \A b \in Block : N.frame[b] = H.frame[b] \/ (b \in InFrameOf(H, f) /\ N.frame[b] = f - 1)
    <3> SUFFICES ASSUME NEW b \in Block
                 PROVE  N.frame[b] = H.frame[b] \/ (b \in InFrameOf(H, f) /\ N.frame[b] = f - 1)
      OBVIOUS
    <3>1. CASE b \in D
      <4>1. M.frame[b] = f /\ b \in M.live /\ M.live = H.live
        BY <1>1, <2>7, <3>1 DEF SameBlocks
      <4>2. M.frame[b] = H.frame[b]
        BY <1>1, <2>4, <4>1
      <4> QED
        BY <2>5, <3>1, <4>1, <4>2 DEF InFrameOf
    <3>2. CASE b \notin D
      BY <1>1, <2>5, <3>2
    <3> QED
      BY <3>1, <3>2
  <2>10. Emptying(H, f, N)
    BY <2>5, <2>6, <2>8, <2>9 DEF Emptying
  <2>11. InFrameOf(N, f) \in SUBSET InFrameOf(M, f) /\ h \in InFrameOf(M, f) \ InFrameOf(N, f)
    <3>1. M.live \subseteq Block /\ N.live = M.live
      BY <1>1, <2>5 DEF SameBlocks, Shape, Heaps
    <3> QED
      BY <2>2, <2>3, <2>4, <2>5, <3>1 DEF InFrameOf
  <2>12. Cardinality(InFrameOf(N, f)) < k
    BY <1>1, <2>11, FewerInFrame
  <2> QED
    BY <1>2, <1>4, <2>10, <2>12 DEF N, h
<1> QED
  BY <1>3, <1>4

\* The loop of yc_move_frame_to_parent empties the frame.
LEMMA EmptyFrameRight ==
  ASSUME NEW H, Shape(H), Agree(H), NEW f \in Frame, f # 0
  PROVE  Emptying(H, f, EmptyFrame(H, f)) /\ InFrameOf(EmptyFrame(H, f), f) = {}
<1> DEFINE X == {M \in Heaps : Emptying(H, f, M)}
           step == [M \in X |-> MoveFirst(M, f)]
           m == [M \in X |-> Cardinality(InFrameOf(M, f))]
           n == 2 * Cardinality(Block)
           run[i \in Nat] == IF i = 0 THEN H ELSE MoveFirst(run[i - 1], f)
<1>1. EmptyFrame(H, f) = run[n]
  BY StepsEnough DEF EmptyFrame
<1> HIDE DEF run
<1>2. Emptying(H, f, H)
  BY DEF Emptying, Shape, SameBlocks, SameAll, SameChildren, SameLinks
<1>3. \A M : Emptying(H, f, M) => M \in X
  BY DEF Emptying, Shape
<1>4. \A M \in X : Emptying(H, f, M)
  OBVIOUS
<1> HIDE DEF X
<1>5. ASSUME NEW M \in X
      PROVE  /\ MoveFirst(M, f) \in X
             /\ Cardinality(InFrameOf(M, f)) \in Nat
             /\ Cardinality(InFrameOf(M, f)) <= Cardinality(Block)
             /\ IF Cardinality(InFrameOf(M, f)) = 0
                THEN MoveFirst(M, f) = M /\ InFrameOf(M, f) = {}
                ELSE Cardinality(InFrameOf(MoveFirst(M, f), f))
                       < Cardinality(InFrameOf(M, f))
  BY <1>3, <1>4, MoveFirstRight
<1>6. /\ H \in X /\ step \in [X -> X] /\ m \in [X -> Nat]
      /\ n \in Nat /\ Cardinality(Block) <= n
  <2>1. n \in Nat /\ Cardinality(Block) <= n
    BY FiniteAssumption, FS_CardinalityType
  <2> HIDE DEF n
  <2> QED
    BY <1>2, <1>3, <1>5, <2>1
<1>7. Descends(X, step, m)
  BY <1>5 DEF Descends
<1>8. m[H] <= n
  <2>1. m[H] \in Nat /\ m[H] <= Cardinality(Block) /\ Cardinality(Block) \in Nat
    BY <1>5, <1>6, FiniteAssumption, FS_CardinalityType
  <2> HIDE DEF m
  <2> QED
    BY <2>1
<1>9. PICK r : AllRounds(X, step, H, r) /\ m[r[n]] = 0
  <2> HIDE DEF step, m, n
  <2> QED
    BY <1>6, <1>7, <1>8, Loop
<1>10. r \in [Nat -> X] /\ r[0] = H /\ \A i \in Nat : r[i + 1] = MoveFirst(r[i], f)
  BY <1>9 DEF AllRounds
<1>11. r = [i \in Nat |-> IF i = 0 THEN H ELSE MoveFirst(r[i - 1], f)]
  <2> SUFFICES ASSUME NEW i \in Nat
               PROVE  r[i] = IF i = 0 THEN H ELSE MoveFirst(r[i - 1], f)
    BY <1>10
  <2>1. CASE i # 0
    <3>1. i - 1 \in Nat /\ (i - 1) + 1 = i
      BY <2>1
    <3> QED
      BY <1>10, <2>1, <3>1
  <2> QED
    BY <1>10, <2>1
<1>12. run = [i \in Nat |-> IF i = 0 THEN H ELSE MoveFirst(run[i - 1], f)]
  <2>1. \E g : g = [i \in Nat |-> IF i = 0 THEN H ELSE MoveFirst(g[i - 1], f)]
    BY <1>11
  <2> QED
    BY <2>1, Zenon DEF run
<1> HIDE DEF run
<1>13. Nat \subseteq {i \in Nat : run[i] = r[i]}
  <2> DEFINE S == {i \in Nat : run[i] = r[i]}
  <2>1. 0 \in S
    BY <1>10, <1>12
  <2>2. ASSUME NEW i \in Nat, i \in S PROVE i + 1 \in S
    <3>1. run[i + 1] = MoveFirst(run[(i + 1) - 1], f) /\ (i + 1) - 1 = i
      BY <1>12
    <3> QED
      BY <1>10, <2>2, <3>1
  <2> HIDE DEF S
  <2>3. Nat \subseteq S
    BY <2>1, <2>2, Induction
  <2> QED
    BY <2>3 DEF S
<1> HIDE DEF n
<1>14. run[n] = r[n] /\ r[n] \in X
  BY <1>6, <1>10, <1>13
<1>15. Cardinality(InFrameOf(r[n], f)) = 0
  BY <1>9, <1>14
<1> QED
  BY <1>1, <1>4, <1>5, <1>14, <1>15

-----------------------------------------------------------------------------
(* New blocks and new owners.                                              *)

\* yc_alloc
NewIn(H, b, known, M) ==
  /\ Shape(M) /\ Agree(M) /\ M.live = H.live \cup {b} /\ M.owner = H.owner
  /\ M.registered = (IF known THEN H.registered \cup {b} ELSE H.registered)
  /\ M.frame = [H.frame EXCEPT ![b] = current_frame]

\* yc_alloc keeps the heap right and adds the one block.
LEMMA NewBlockRight ==
  ASSUME NEW H, Shape(H), Agree(H), NEW b \in Block \ H.live, NEW known \in BOOLEAN,
         current_frame \in Frame
  PROVE  NewIn(H, b, known, NewBlock(H, b, known))
<1> DEFINE A == [H EXCEPT !.live = @ \cup {b}]
           B == Push(A, "all", All, b)
           C == FrameLink(B, b, current_frame)
           M == IF known THEN [C EXCEPT !.registered = @ \cup {b}] ELSE C
<1>1. /\ H \in Heaps /\ H.live \subseteq Block /\ H.owner \in [Block -> Links]
      /\ H.frame \in [Block -> Frame]
      /\ H.registered \subseteq H.live /\ b \in Block /\ Nil \notin Block
  BY NilAssumption DEF Shape, Heaps
<1>2. /\ A \in Heaps /\ A.live = H.live \cup {b} /\ A.registered = H.registered
      /\ A.frame = H.frame /\ A.owner = H.owner
      /\ A.head = H.head /\ A.next = H.next /\ A.prev = H.prev
  BY <1>1 DEF Heaps
<1> HIDE DEF A
<1>3. /\ B \in Heaps
      /\ B.live = A.live /\ B.registered = A.registered /\ B.frame = A.frame /\ B.owner = A.owner
      /\ \A x \in Heads : B.head[x] = IF x = All THEN b ELSE A.head[x]
      /\ B.next["all"] = NextPushed(A.next["all"], A.head[All], b)
      /\ B.prev["all"] = PrevPushed(A.prev["all"], A.head[All], b)
      /\ \A j \in List \ {"all"} : SameLinks(B, A, j)
  <2>1. A \in Heaps /\ "all" \in List /\ All \in Heads /\ b \in Block
    BY <1>1, <1>2, HeadsApart, KindsApart
  <2> QED
    BY <2>1, PushFields
<1> HIDE DEF B
<1>4. SameFrames(B, H) /\ SameChildren(B, H) /\ B.live = H.live \cup {b}
  BY <1>2, <1>3, HeadsApart, KindsApart DEF SameFrames, SameChildren, SameLinks
<1>5. FrameLists(B, H.live)
  BY <1>4 DEF Shape, FrameLists, HeapList, SameFrames, SameLinks
<1>6. /\ C \in Heaps /\ FrameLists(C, H.live \cup {b})
      /\ C.frame = [B.frame EXCEPT ![b] = current_frame]
      /\ SameBlocks(C, B) /\ SameAll(C, B) /\ SameChildren(C, B)
  BY <1>1, <1>3, <1>5, FrameLinkRight
<1> HIDE DEF C
<1>7. /\ M \in Heaps /\ M.live = C.live /\ M.frame = C.frame /\ M.owner = C.owner
      /\ M.registered = (IF known THEN C.registered \cup {b} ELSE C.registered)
      /\ M.head = C.head /\ M.next = C.next /\ M.prev = C.prev
  <2>1. CASE known
    BY <1>1, <1>6, <2>1 DEF Heaps
  <2>2. CASE ~known
    BY <1>6, <2>2
  <2> QED
    BY <2>1, <2>2
<1> HIDE DEF M
<1>8. /\ M.live = H.live \cup {b} /\ M.owner = H.owner
      /\ M.registered = (IF known THEN H.registered \cup {b} ELSE H.registered)
      /\ M.frame = [H.frame EXCEPT ![b] = current_frame]
  BY <1>2, <1>3, <1>4, <1>6, <1>7 DEF SameBlocks, SameChildren, SameFrames
<1>9. HeapList(M, "all", All, M.live)
  <2>1. ListOf(H.head[All], H.next["all"], H.prev["all"], H.live)
    BY DEF Shape, HeapList
  <2>2. H.next["all"] \in [Block -> Links]
    BY <1>1, KindsApart DEF Heaps
  <2>3. ListOf(b, NextPushed(H.next["all"], H.head[All], b),
               PrevPushed(H.prev["all"], H.head[All], b), H.live \cup {b})
    BY <1>1, <2>1, <2>2, ListPush
  <2>4. All \in Heads
    BY HeadsApart
  <2> QED
    BY <1>2, <1>3, <1>6, <1>7, <1>8, <2>3, <2>4 DEF HeapList, SameAll, SameLinks
<1>10. FrameLists(M, M.live)
  BY <1>6, <1>7, <1>8 DEF FrameLists, HeapList
<1>11. H.owner[b] = Nil
  BY <1>1 DEF Shape, Owners
<1>12. ChildLists(M)
  <2> SUFFICES ASSUME NEW o \in Block
               PROVE  HeapList(M, "sibling", Children(o), ChildrenOf(M, o))
    BY DEF ChildLists
  <2>1. ChildrenOf(M, o) = ChildrenOf(H, o)
    BY <1>1, <1>8, <1>11 DEF ChildrenOf
  <2>2. HeapList(H, "sibling", Children(o), ChildrenOf(H, o))
    BY DEF Shape, ChildLists
  <2>3. M.head[Children(o)] = H.head[Children(o)] /\ SameLinks(M, H, "sibling")
    BY <1>4, <1>6, <1>7 DEF SameLinks, SameChildren
  <2> QED
    BY <2>1, <2>2, <2>3 DEF HeapList, SameLinks
<1>13. Owners(M)
  <2>1. ASSUME NEW S \in SUBSET M.live, S # {} PROVE \E x \in S : M.owner[x] \notin S
    <3>1. CASE b \in S
      BY <1>1, <1>8, <1>11, <3>1
    <3>2. CASE b \notin S
      <4>1. S \in SUBSET H.live
        BY <1>8, <3>2
      <4> QED
        BY <1>8, <2>1, <4>1 DEF Shape, Owners, NoCycleIn
    <3> QED
      BY <3>1, <3>2
  <2> QED
    BY <1>1, <1>8, <1>11, <2>1 DEF Shape, Owners, NoCycleIn
<1>14. M.registered \subseteq M.live
  BY <1>1, <1>8
<1>15. Shape(M)
  BY <1>7, <1>9, <1>10, <1>12, <1>13, <1>14 DEF Shape
<1>16. Agree(M)
  <2> SUFFICES ASSUME NEW c \in M.live, M.owner[c] # Nil PROVE M.frame[c] = M.frame[M.owner[c]]
    BY DEF Agree
  <2>1. c \in H.live /\ H.owner[c] \in H.live /\ M.owner[c] = H.owner[c]
    BY <1>8, <1>11 DEF Shape, Owners
  <2>2. H.frame[c] = H.frame[H.owner[c]]
    BY <1>8, <2>1 DEF Agree
  <2> QED
    BY <1>1, <1>8, <2>1, <2>2
<1>17. NewBlock(H, b, known) = M
  BY DEF NewBlock, M, C, B, A
<1> QED
  BY <1>8, <1>15, <1>16, <1>17 DEF NewIn

\* Who owns the top of a graph does not matter to it.
LEMMA GraphTop ==
  ASSUME NEW L, NEW own, NEW own2, NEW c, \A b \in L : b # c => own2[b] = own[b]
  PROVE  Forest!Graph(L, own2, c) = Forest!Graph(L, own, c)
<1>1. \A S \in SUBSET L :
        c \in S => (Forest!ChildClosed(L, own2, S) <=> Forest!ChildClosed(L, own, S))
  BY DEF Forest!ChildClosed
<1> QED
  BY <1>1 DEF Forest!Graph

\* The child in front of its new owner's list, before its graph moves.
LEMMA LinkedRight ==
  ASSUME NEW H, Shape(H), NEW o \in H.live, NEW c \in H.live, H.owner[c] = Nil,
         o \notin Forest!Graph(H.live, H.owner, c)
  PROVE  LET P == Push([H EXCEPT !.owner[c] = o], "sibling", Children(o), c)
         IN  /\ Shape(P) /\ SameBlocks(P, H) /\ SameFrames(P, H)
             /\ P.owner = [H.owner EXCEPT ![c] = o]
<1> DEFINE N == [H EXCEPT !.owner[c] = o]
           P == Push(N, "sibling", Children(o), c)
           G == Forest!Graph(H.live, H.owner, c)
           nx == H.next["sibling"]
           pv == H.prev["sibling"]
           first == H.head[Children(o)]
<1>1. /\ H \in Heaps /\ H.live \subseteq Block /\ H.owner \in [Block -> Links]
      /\ c \in Block /\ o \in Block /\ o \in Links /\ Nil \notin Block
      /\ nx \in [Block -> Links]
  BY NilAssumption, KindsApart DEF Shape, Heaps, Links
<1>2. /\ N \in Heaps /\ N.owner = [H.owner EXCEPT ![c] = o] /\ N.frame = H.frame
      /\ N.live = H.live /\ N.registered = H.registered
      /\ N.head = H.head /\ N.next = H.next /\ N.prev = H.prev
  BY <1>1, OwnerSet
<1> HIDE DEF N
<1>3. /\ P \in Heaps
      /\ P.live = N.live /\ P.registered = N.registered
      /\ P.frame = N.frame /\ P.owner = N.owner
      /\ \A x \in Heads : P.head[x] = IF x = Children(o) THEN c ELSE N.head[x]
      /\ P.next["sibling"] = NextPushed(N.next["sibling"], N.head[Children(o)], c)
      /\ P.prev["sibling"] = PrevPushed(N.prev["sibling"], N.head[Children(o)], c)
      /\ \A j \in List \ {"sibling"} : SameLinks(P, N, j)
  <2>1. N \in Heaps /\ "sibling" \in List /\ Children(o) \in Heads /\ c \in Block
    BY <1>1, <1>2, HeadsApart, KindsApart
  <2> QED
    BY <2>1, PushFields
<1> HIDE DEF P
<1>4. SameBlocks(P, H) /\ SameAll(P, H) /\ SameFrames(P, H)
  BY <1>1, <1>2, <1>3, HeadsApart, KindsApart DEF SameBlocks, SameAll, SameFrames, SameLinks
<1>5. \A b \in Block : P.owner[b] = IF b = c THEN o ELSE H.owner[b]
  BY <1>1, <1>2, <1>3
<1>6. /\ P.next["sibling"] = NextPushed(nx, first, c)
      /\ P.prev["sibling"] = PrevPushed(pv, first, c)
      /\ P.live = H.live
  BY <1>2, <1>3
<1>7. ASSUME NEW o2 \in Block PROVE HeapList(P, "sibling", Children(o2), ChildrenOf(P, o2))
  <2> DEFINE m == ChildrenOf(H, o)
  <2>1. ListOf(first, nx, pv, m) /\ m \in SUBSET Block /\ c \notin m
    BY <1>1 DEF Shape, ChildLists, HeapList, ChildrenOf
  <2>2. CASE o2 = o
    <3>1. ChildrenOf(P, o2) = m \cup {c}
      BY <1>1, <1>5, <1>6, <2>2 DEF ChildrenOf
    <3>2. P.head[Children(o2)] = c
      BY <1>1, <1>3, <2>2, HeadsApart
    <3> HIDE DEF m, nx, pv, first
    <3>3. ListOf(c, NextPushed(nx, first, c), PrevPushed(pv, first, c), m \cup {c})
      BY <1>1, <2>1, ListPush
    <3> QED
      BY <1>6, <3>1, <3>2, <3>3 DEF HeapList
  <2>3. CASE o2 # o
    <3> DEFINE m2 == ChildrenOf(H, o2)
    <3>1. ChildrenOf(P, o2) = m2
      BY <1>1, <1>5, <1>6, <2>3 DEF ChildrenOf
    <3>2. P.head[Children(o2)] = H.head[Children(o2)]
      BY <1>1, <1>2, <1>3, <2>3, HeadsApart
    <3>3. ListOf(H.head[Children(o2)], nx, pv, m2)
      BY DEF Shape, ChildLists, HeapList
    <3>4. m2 \cap (m \cup {c}) = {} /\ m2 \in SUBSET Block
      BY <1>1, <2>3 DEF ChildrenOf
    <3> HIDE DEF m, m2, nx, pv, first
    <3>5. ListOf(H.head[Children(o2)], NextPushed(nx, first, c), PrevPushed(pv, first, c), m2)
      BY <1>1, <2>1, <3>3, <3>4, ListsBeside
    <3> QED
      BY <1>6, <3>1, <3>2, <3>5 DEF HeapList
  <2> QED
    BY <2>2, <2>3
<1>8. ChildLists(P)
  BY <1>7 DEF ChildLists
<1>9. c \in G /\ Forest!ChildClosed(H.live, H.owner, G)
  BY GraphSelf, GraphClosed
<1> HIDE DEF G
<1>10. NoCycleIn(P.live, P.owner)
  <2> SUFFICES ASSUME NEW S \in SUBSET H.live, S # {}, \A b \in S : P.owner[b] \in S
               PROVE  FALSE
    BY <1>6 DEF NoCycleIn
  <2>0. NoCycleIn(H.live, H.owner)
    BY DEF Shape, Owners
  <2>1. CASE c \notin S
    <3>1. \A b \in S : H.owner[b] \in S
      BY <1>1, <1>5, <2>1
    <3> QED
      BY <2>0, <3>1 DEF NoCycleIn
  <2>2. CASE c \in S
    <3>1. o \in S \ G
      BY <1>1, <1>5, <2>2 DEF G
    <3>2. ASSUME NEW b \in S \ G PROVE H.owner[b] \in S \ G
      BY <1>1, <1>5, <1>9 DEF Forest!ChildClosed
    <3>3. S \ G \in SUBSET H.live /\ S \ G # {}
      BY <3>1
    <3> QED
      BY <2>0, <3>2, <3>3 DEF NoCycleIn
  <2> QED
    BY <2>1, <2>2
<1>11. Owners(P)
  BY <1>1, <1>5, <1>6, <1>10 DEF Shape, Owners
<1>12. Shape(P)
  BY <1>3, <1>4, <1>8, <1>11, ShapeKept DEF Shape
<1>13. P.owner = [H.owner EXCEPT ![c] = o]
  BY <1>2, <1>3
<1> QED
  BY <1>4, <1>12, <1>13 DEF P, N

\* yc_link_owner
LEMMA LinkOwnerRight ==
  ASSUME NEW H, Shape(H), Agree(H), NEW o \in H.live, NEW c \in H.live,
         o \notin Forest!Graph(H.live, H.owner, c)
  PROVE  LET M == LinkOwner(H, o, c)
         IN  /\ Shape(M) /\ Agree(M) /\ SameBlocks(M, H)
             /\ M.owner = [H.owner EXCEPT ![c] = o]
             /\ M.frame = [b \in Block |-> IF b \in Forest!Graph(H.live, H.owner, c) THEN H.frame[o]
                                           ELSE H.frame[b]]
<1> DEFINE D == DetachOwner(H, c)
           P == Push([D EXCEPT !.owner[c] = o], "sibling", Children(o), c)
           M == MoveGraph(P, c, D.frame[o])
           G == Forest!Graph(H.live, H.owner, c)
<1>1. /\ Shape(D) /\ D.owner = [H.owner EXCEPT ![c] = Nil]
      /\ SameBlocks(D, H) /\ SameAll(D, H) /\ SameFrames(D, H)
  BY DetachRight
<1>2. /\ H.live \subseteq Block /\ H.owner \in [Block -> Links] /\ H.frame \in [Block -> Frame]
      /\ Nil \notin Block
  BY NilAssumption DEF Shape, Heaps
<1> HIDE DEF D
<1>3. D.live = H.live /\ D.owner[c] = Nil /\ D.frame = H.frame
  BY <1>1, <1>2 DEF SameBlocks, SameFrames
<1>4. Forest!Graph(D.live, D.owner, c) = G
  <2>1. \A b \in H.live : b # c => D.owner[b] = H.owner[b]
    BY <1>1, <1>2
  <2> QED
    BY <1>3, <2>1, GraphTop
<1>5. Shape(P) /\ SameBlocks(P, D) /\ SameFrames(P, D) /\ P.owner = [D.owner EXCEPT ![c] = o]
  <2>1. /\ Shape(D) /\ o \in D.live /\ c \in D.live /\ D.owner[c] = Nil
        /\ o \notin Forest!Graph(D.live, D.owner, c)
    BY <1>1, <1>3, <1>4
  <2> QED
    BY <2>1, LinkedRight
<1> HIDE DEF P
<1>6. /\ P.live = H.live /\ P.frame = H.frame /\ P.owner = [H.owner EXCEPT ![c] = o]
      /\ P.registered = H.registered
  BY <1>1, <1>2, <1>3, <1>5 DEF SameBlocks, SameFrames
<1>7. Forest!Graph(P.live, P.owner, c) = G
  <2>1. \A b \in H.live : b # c => P.owner[b] = H.owner[b]
    BY <1>2, <1>6
  <2>2. Forest!Graph(H.live, P.owner, c) = G
    BY <2>1, GraphTop
  <2> QED
    BY <1>6, <2>2
<1>8. /\ Shape(M) /\ SameBlocks(M, P) /\ SameChildren(M, P)
      /\ M.frame = [b \in Block |-> IF b \in G THEN D.frame[o] ELSE P.frame[b]]
  <2>1. D.frame[o] \in Frame /\ c \in P.live
    BY <1>2, <1>3, <1>6
  <2>2. /\ Shape(M) /\ SameBlocks(M, P) /\ SameChildren(M, P)
        /\ M.frame = [b \in Block |-> IF b \in Forest!Graph(P.live, P.owner, c) THEN D.frame[o]
                                      ELSE P.frame[b]]
    BY <1>5, <2>1, MoveGraphRight
  <2> QED
    BY <1>7, <2>2
<1> HIDE DEF M
<1>9. SameBlocks(M, H) /\ M.owner = [H.owner EXCEPT ![c] = o]
  BY <1>6, <1>8 DEF SameBlocks, SameChildren
<1>10. M.frame = [b \in Block |-> IF b \in G THEN H.frame[o] ELSE H.frame[b]]
  BY <1>3, <1>6, <1>8
<1>11. Agree(M)
  <2> SUFFICES ASSUME NEW b \in M.live, M.owner[b] # Nil PROVE M.frame[b] = M.frame[M.owner[b]]
    BY DEF Agree
  <2>1. b \in H.live /\ c \in G /\ o \notin G /\ c \in Block /\ o \in Block /\ b \in Block
    BY <1>2, <1>9, GraphSelf DEF SameBlocks
  <2> HIDE DEF G
  <2>2. CASE b = c
    BY <1>2, <1>9, <1>10, <2>1, <2>2
  <2>3. CASE b # c
    <3>1. M.owner[b] = H.owner[b] /\ H.owner[b] \in H.live
      BY <1>2, <1>9, <2>1, <2>3 DEF Shape, Owners
    <3>2. b \in G <=> H.owner[b] \in G
      BY <2>1, <2>3, GraphOwner, GraphClosed DEF Forest!ChildClosed, G
    <3>3. H.frame[b] = H.frame[H.owner[b]]
      BY <1>2, <2>1, <3>1 DEF Agree
    <3> QED
      BY <1>2, <1>10, <2>1, <3>1, <3>2, <3>3
  <2> QED
    BY <2>2, <2>3
<1>12. LinkOwner(H, o, c) = M
  BY DEF LinkOwner, M, P, D
<1> QED
  BY <1>8, <1>9, <1>10, <1>11, <1>12

\* yc_attach_child
Attachable(H, p, c) ==
  /\ p # c /\ p \in H.registered /\ c \in H.registered
  /\ H.owner[c] # p /\ p \notin Forest!Graph(H.live, H.owner, c)

\* yc_attach_child keeps the heap right, and gives the child its owner and frame.
LEMMA AttachRight ==
  ASSUME NEW H, Shape(H), Agree(H), NEW p \in Block, NEW c \in Block
  PROVE  LET M == Attach(H, p, c)
         IN  /\ Shape(M) /\ Agree(M) /\ SameBlocks(M, H)
             /\ IF Attachable(H, p, c)
                THEN /\ M.owner = [H.owner EXCEPT ![c] = p]
                     /\ M.frame = [b \in Block |-> IF b \in Forest!Graph(H.live, H.owner, c)
                                                   THEN H.frame[p] ELSE H.frame[b]]
                ELSE M = H
<1>1. H.registered \subseteq H.live
  BY DEF Shape
<1>2. p \in H.registered /\ c \in H.registered =>
        (IsOwnerAncestor(H, c, p) <=> p \in Forest!Graph(H.live, H.owner, c))
  BY <1>1, AboveRight DEF IsOwnerAncestor
<1>3. CASE Attachable(H, p, c)
  <2>1. Attach(H, p, c) = LinkOwner(H, p, c)
    BY <1>2, <1>3 DEF Attach, Attachable
  <2>2. p \in H.live /\ c \in H.live /\ p \notin Forest!Graph(H.live, H.owner, c)
    BY <1>1, <1>3 DEF Attachable
  <2> QED
    BY <1>3, <2>1, <2>2, LinkOwnerRight
<1>4. CASE ~Attachable(H, p, c)
  <2>1. Attach(H, p, c) = H
    BY <1>2, <1>4 DEF Attach, Attachable
  <2> QED
    BY <1>4, <2>1 DEF SameBlocks
<1> QED
  BY <1>3, <1>4

-----------------------------------------------------------------------------
(* The entry points.                                                       *)

HeapInv == Shape(heap) /\ Agree(heap) /\ current_frame \in Frame

Refines == Forest!Next \/ UNCHANGED Forest!vars

\* A heap without a block is right.
LEMMA EmptyRight ==
  /\ Shape(Empty) /\ Agree(Empty)
  /\ Empty.live = {} /\ Empty.registered = {}
  /\ Empty.owner = [b \in Block |-> Nil] /\ Empty.frame = [b \in Block |-> 0]
<1> DEFINE E == Empty
<1>1. /\ E.live = {} /\ E.registered = {}
      /\ E.owner = [b \in Block |-> Nil] /\ E.frame = [b \in Block |-> 0]
      /\ \A hd \in Heads : E.head[hd] = Nil
  BY DEF Empty
<1>2. 0 \in Frame /\ Nil \in Links
  BY MaxFrameAssumption DEF Frame, Links
<1>3. E \in Heaps
  BY <1>2 DEF Empty, Heaps
<1> HIDE DEF E
<1>4. \A nx, pv : ListOf(Nil, nx, pv, {})
  BY DEF ListOf, NoCycleIn
<1>5. Owners(E)
  BY <1>1 DEF Owners, NoCycleIn
<1>6. HeapList(E, "all", All, E.live)
  BY <1>1, <1>4, HeadsApart DEF HeapList
<1>7. FrameLists(E, E.live)
  <2> SUFFICES ASSUME NEW f \in Frame
               PROVE  HeapList(E, "frame", InFrame(f), {b \in E.live : E.frame[b] = f})
    BY DEF FrameLists
  <2>1. {b \in E.live : E.frame[b] = f} = {}
    BY <1>1
  <2> QED
    BY <1>1, <1>4, <2>1, HeadsApart DEF HeapList
<1>8. ChildLists(E)
  <2> SUFFICES ASSUME NEW o \in Block
               PROVE  HeapList(E, "sibling", Children(o), ChildrenOf(E, o))
    BY DEF ChildLists
  <2>1. ChildrenOf(E, o) = {}
    BY <1>1 DEF ChildrenOf
  <2> QED
    BY <1>1, <1>4, <2>1, HeadsApart DEF HeapList
<1>9. Shape(E)
  BY <1>1, <1>3, <1>5, <1>6, <1>7, <1>8 DEF Shape
<1>10. Agree(E)
  BY <1>1 DEF Agree
<1> QED
  BY <1>1, <1>9, <1>10 DEF E

\* The program starts with no block.
LEMMA HeapInit == Init => HeapInv /\ Forest!Init
<1> SUFFICES ASSUME Init PROVE HeapInv /\ Forest!Init
  OBVIOUS
<1>1. heap = Empty /\ current_frame = 0
  BY DEF Init
<1>2. Shape(heap) /\ Agree(heap)
  BY <1>1, EmptyRight
<1>3. 0 \in Frame
  BY MaxFrameAssumption DEF Frame
<1>4. Forest!Init
  BY <1>1, EmptyRight DEF Forest!Init
<1> QED
  BY <1>1, <1>2, <1>3, <1>4 DEF HeapInv

\* yc_frame_push is a step of the forest.
LEMMA PushRefines ==
  ASSUME HeapInv, FramePush
  PROVE  HeapInv' /\ Refines
<1>1. HeapInv'
  <2>1. heap' = heap /\ current_frame' = current_frame + 1 /\ current_frame < MaxFrame
    BY DEF FramePush
  <2>2. Shape(heap') /\ Agree(heap')
    BY <2>1 DEF HeapInv
  <2>3. current_frame' \in Frame
    BY <2>1, MaxFrameAssumption DEF HeapInv, Frame
  <2> QED
    BY <2>2, <2>3 DEF HeapInv
<1>2. Forest!FramePush
  BY DEF FramePush, Forest!FramePush
<1> QED
  BY <1>1, <1>2 DEF Refines, Forest!Next

\* The parts of a heap in the invariant.
LEMMA HeapParts ==
  ASSUME NEW M, Shape(M)
  PROVE  /\ M \in Heaps /\ M.live \subseteq Block /\ M.registered \subseteq M.live
         /\ M.owner \in [Block -> Links] /\ M.frame \in [Block -> Frame]
         /\ \A b \in M.live : M.owner[b] \in M.live \cup {Nil}
         /\ \A b \in Block \ M.live : M.owner[b] = Nil
         /\ Nil \notin Block
BY NilAssumption DEF Shape, Heaps, Owners

\* yc_frame_pop frees whole graphs, exactly those of the frame.
LEMMA PopRefines ==
  ASSUME HeapInv, FramePop
  PROVE  HeapInv' /\ Refines
<1> DEFINE H == heap
           f == current_frame
           top == {b \in heap.live : heap.frame[b] = current_frame}
<1>1. /\ Shape(H) /\ Agree(H) /\ f \in Frame /\ f > 0 /\ current_frame' = f - 1
      /\ heap' = ReleaseFrame(H, f)
  BY DEF HeapInv, FramePop
<1>2. Popping(H, f, heap') /\ InFrameOf(heap', f) = {}
  BY <1>1, ReleaseFrameRight
<1>3. /\ heap'.live \subseteq heap.live /\ heap'.registered = heap.registered \cap heap'.live
      /\ \A b \in heap.live \ heap'.live : heap.frame[b] = f /\ heap'.frame[b] = 0
      /\ \A b \in Block \ (heap.live \ heap'.live) :
           heap'.owner[b] = heap.owner[b] /\ heap'.frame[b] = heap.frame[b]
      /\ Shape(heap') /\ Agree(heap')
  BY <1>2 DEF Popping
<1>4. /\ heap.live \subseteq Block /\ heap.registered \subseteq heap.live
      /\ heap'.owner \in [Block -> Links] /\ heap'.frame \in [Block -> Frame]
      /\ \A b \in Block \ heap'.live : heap'.owner[b] = Nil
  BY <1>1, <1>3, HeapParts
<1>5. heap.live \ heap'.live = top
  BY <1>2, <1>3, <1>4 DEF InFrameOf
<1>6. UNION {Forest!Graph(heap.live, heap.owner, h) : h \in top} = top
  <2>1. \A h \in top : Forest!Graph(heap.live, heap.owner, h) \subseteq top
    BY <1>1, AgreeInside
  <2>2. \A h \in top : h \in Forest!Graph(heap.live, heap.owner, h)
    BY GraphSelf
  <2> HIDE DEF top
  <2> QED
    BY <2>1, <2>2
<1> HIDE DEF top
<1>7. /\ heap'.live = heap.live \ top /\ heap'.registered = heap.registered \ top
      /\ heap'.owner = [b \in Block |-> IF b \in top THEN Nil ELSE heap.owner[b]]
      /\ heap'.frame = [b \in Block |-> IF b \in top THEN 0 ELSE heap.frame[b]]
  <2>1. heap'.live = heap.live \ top /\ heap'.registered = heap.registered \ top
    BY <1>3, <1>4, <1>5
  <2>2. heap'.owner = [b \in Block |-> IF b \in top THEN Nil ELSE heap.owner[b]]
    BY <1>3, <1>4, <1>5
  <2>3. heap'.frame = [b \in Block |-> IF b \in top THEN 0 ELSE heap.frame[b]]
    BY <1>3, <1>4, <1>5
  <2> QED
    BY <2>1, <2>2, <2>3
<1>8. HeapInv'
  <2>1. f - 1 \in Frame
    BY <1>1, MaxFrameAssumption DEF Frame
  <2> QED
    BY <1>1, <1>3, <2>1 DEF HeapInv
<1>9. Forest!FramePop
  <2>1. UNION {Forest!Graph(heap.live, heap.owner, h) :
                 h \in {b \in heap.live : heap.frame[b] = current_frame}} = top
    BY <1>6 DEF top
  <2> QED
    BY <1>1, <1>7, <2>1 DEF Forest!FramePop, Forest!Free
<1> QED
  BY <1>8, <1>9 DEF Refines, Forest!Next

\* A step that leaves the lists alone.
LEMMA StillRefines ==
  ASSUME HeapInv, UNCHANGED <<heap, current_frame>>
  PROVE  HeapInv' /\ Refines
<1>1. heap' = heap /\ current_frame' = current_frame
  OBVIOUS
<1>2. Shape(heap') /\ Agree(heap') /\ current_frame' \in Frame
  BY <1>1 DEF HeapInv
<1> QED
  BY <1>1, <1>2 DEF HeapInv, Refines, Forest!vars

\* The forest's move.
LEMMA ForestMove ==
  ASSUME NEW own, NEW h, NEW f
  PROVE  Forest!MoveGraph(own, h, f) =
           [b \in Block |-> IF b \in Forest!Graph(heap.live, own, h) THEN f ELSE heap.frame[b]]
BY DEF Forest!MoveGraph

\* The forest's test.
LEMMA ForestMay ==
  ASSUME NEW M, M.live = heap.live, M.registered = heap.registered, NEW p, NEW c
  PROVE  Attachable(M, p, c) <=> Forest!MayAttach(M.owner, p, c)
BY DEF Attachable, Forest!MayAttach

\* yc_alloc is a step of the forest.
LEMMA AllocRefines ==
  ASSUME HeapInv, NEW b \in Block, NEW known \in BOOLEAN, Alloc(b, known)
  PROVE  HeapInv' /\ Refines
<1> DEFINE N == NewBlock(heap, b, known)
<1>1. /\ Shape(heap) /\ Agree(heap) /\ current_frame \in Frame /\ b \in Block \ heap.live
      /\ heap' = N /\ current_frame' = current_frame
  BY DEF HeapInv, Alloc
<1>2. /\ Shape(N) /\ Agree(N)
      /\ N.live = heap.live \cup {b} /\ N.owner = heap.owner
      /\ N.registered = (IF known THEN heap.registered \cup {b} ELSE heap.registered)
      /\ N.frame = [heap.frame EXCEPT ![b] = current_frame]
  <2>1. Shape(heap) /\ Agree(heap) /\ current_frame \in Frame /\ b \in Block \ heap.live
    BY <1>1
  <2>2. NewIn(heap, b, known, N)
    BY <2>1, NewBlockRight
  <2> HIDE DEF N
  <2> QED
    BY <2>2 DEF NewIn
<1> HIDE DEF N
<1>3. HeapInv'
  BY <1>1, <1>2 DEF HeapInv
<1>4. Forest!Alloc(b, known)
  BY <1>1, <1>2 DEF Forest!Alloc, Forest!AllocIn
<1> QED
  BY <1>3, <1>4 DEF Refines, Forest!Next

\* A kept string is a new block of the program's frame at most.
LEMMA KeepStringRefines ==
  ASSUME HeapInv, NEW b \in Block, NEW known \in BOOLEAN, KeepString(b, known)
  PROVE  HeapInv' /\ Refines
<1> DEFINE N == NewBlock(heap, b, known)
<1>1. /\ Shape(heap) /\ Agree(heap) /\ current_frame \in Frame /\ b \in Block \ heap.live
      /\ heap' = (IF N.frame[b] <= 1 THEN N ELSE MoveGraph(N, b, 1))
      /\ current_frame' = current_frame
  BY DEF HeapInv, KeepString
<1>2. /\ Shape(N) /\ Agree(N)
      /\ N.live = heap.live \cup {b} /\ N.owner = heap.owner
      /\ N.registered = (IF known THEN heap.registered \cup {b} ELSE heap.registered)
      /\ N.frame = [heap.frame EXCEPT ![b] = current_frame]
  BY <1>1, NewBlockRight DEF NewIn
<1> HIDE DEF N
<1>3. /\ heap.frame \in [Block -> Frame] /\ heap.owner[b] = Nil
      /\ \A c \in heap.live : heap.owner[c] # b
      /\ N.frame[b] = current_frame
  BY <1>1, <1>2, HeapParts
<1>4. \A x \in Block : x \in Forest!Graph(N.live, N.owner, b) <=> x = b
  <2>1. b \in N.live /\ {b} \in SUBSET N.live /\ b \in {b}
    BY <1>2
  <2>2. Forest!ChildClosed(N.live, N.owner, {b})
    BY <1>1, <1>2, <1>3, NilAssumption DEF Forest!ChildClosed
  <2>3. b \in Forest!Graph(N.live, N.owner, b)
    BY <2>1, GraphSelf
  <2>4. Forest!Graph(N.live, N.owner, b) \subseteq {b}
    BY <2>1, <2>2, GraphLeast
  <2> QED
    BY <2>3, <2>4
<1>5. /\ Shape(heap') /\ Agree(heap') /\ heap'.live = N.live /\ heap'.registered = N.registered
      /\ heap'.owner = N.owner
      /\ heap'.frame = [heap.frame EXCEPT ![b] = IF current_frame <= 1 THEN current_frame ELSE 1]
  <2>1. CASE current_frame <= 1
    <3>1. heap' = N
      BY <1>1, <1>3, <2>1
    <3> QED
      BY <1>2, <2>1, <3>1
  <2>2. CASE ~(current_frame <= 1)
    <3>1. heap' = MoveGraph(N, b, 1)
      BY <1>1, <1>3, <2>2
    <3>2. 1 \in Frame /\ b \in N.live
      BY <1>1, <1>2, <2>2, MaxFrameAssumption DEF Frame
    <3> DEFINE K == MoveGraph(N, b, 1)
    <3>3. /\ Shape(K) /\ SameBlocks(K, N) /\ SameChildren(K, N)
          /\ K.frame = [x \in Block |-> IF x \in Forest!Graph(N.live, N.owner, b) THEN 1
                                        ELSE N.frame[x]]
      <4>1. Shape(N) /\ b \in N.live /\ 1 \in Frame
        BY <1>2, <3>2
      <4> QED
        BY <4>1, MoveGraphRight
    <3> HIDE DEF K
    <3>4. heap' = K /\ Agree(K)
      <4>1. Shape(N) /\ Agree(N) /\ b \in N.live /\ N.owner[b] = Nil
        BY <1>2, <1>3, <3>2
      <4>2. Agree(K)
        BY <3>3, <4>1, AgreeMoved
      <4> QED
        BY <3>1, <4>2 DEF K
    <3>5. heap'.frame = [heap.frame EXCEPT ![b] = 1]
      <4>1. heap'.frame = [x \in Block |-> IF x = b THEN 1 ELSE N.frame[x]]
        BY <1>4, <3>3, <3>4
      <4> QED
        BY <1>2, <1>3, <4>1
    <3> QED
      BY <2>2, <3>3, <3>4, <3>5 DEF SameBlocks, SameChildren
  <2> QED
    BY <2>1, <2>2
<1>6. HeapInv'
  BY <1>1, <1>5 DEF HeapInv
<1>7. Forest!KeepString(b, known)
  BY <1>1, <1>2, <1>5 DEF Forest!KeepString, Forest!AllocIn
<1> QED
  BY <1>6, <1>7 DEF Refines, Forest!Next

\* yc_release frees the graph of the block.
LEMMA ReleaseRefines ==
  ASSUME HeapInv, NEW b \in Block, Release(b)
  PROVE  HeapInv' /\ Refines
<1> DEFINE D == Forest!Graph(heap.live, heap.owner, b)
<1>1. /\ Shape(heap) /\ Agree(heap) /\ current_frame \in Frame /\ b \in heap.live
      /\ heap' = ReleaseHeader(heap, b) /\ current_frame' = current_frame
      /\ b \in heap.registered
  BY HeapParts DEF HeapInv, Release
<1>2. /\ Shape(heap') /\ heap'.live = heap.live \ D /\ heap'.registered = heap.registered \ D
      /\ heap'.owner = [x \in Block |-> IF x \in D THEN Nil ELSE heap.owner[x]]
      /\ heap'.frame = [x \in Block |-> IF x \in D THEN 0 ELSE heap.frame[x]]
  BY <1>1, ReleaseRight
<1>3. Forest!ChildClosed(heap.live, heap.owner, D)
  BY GraphClosed
<1>4. Agree(heap')
  <2> HIDE DEF D
  <2> QED
    BY <1>1, <1>2, <1>3, AgreeReleased
<1>5. HeapInv'
  BY <1>1, <1>2, <1>4 DEF HeapInv
<1>6. Forest!Release(b)
  <2>1. Forest!Graph(heap.live, heap.owner, b) = D
    OBVIOUS
  <2> HIDE DEF D
  <2> QED
    BY <1>1, <1>2, <2>1 DEF Forest!Release, Forest!Free
<1> QED
  BY <1>5, <1>6 DEF Refines, Forest!Next

\* A block without owner or children is in no other graph.
LEMMA GraphWithout ==
  ASSUME NEW L, NEW own, NEW h \in L, NEW n, n \notin L, own[n] \notin L \cup {n}
  PROVE  Forest!Graph(L \cup {n}, own, h) = Forest!Graph(L, own, h)
<1>1. Forest!Graph(L \cup {n}, own, h) \subseteq Forest!Graph(L, own, h)
  <2>1. /\ Forest!Graph(L, own, h) \in SUBSET (L \cup {n}) /\ h \in Forest!Graph(L, own, h)
        /\ Forest!Graph(L, own, h) \subseteq L
    BY GraphSelf
  <2>2. Forest!ChildClosed(L \cup {n}, own, Forest!Graph(L, own, h))
    BY <2>1, GraphClosed DEF Forest!ChildClosed
  <2> QED
    BY <2>1, <2>2, GraphLeast
<1>2. Forest!Graph(L, own, h) \subseteq Forest!Graph(L \cup {n}, own, h)
  <2> DEFINE S == Forest!Graph(L \cup {n}, own, h) \cap L
  <2>1. h \in S /\ S \in SUBSET L
    BY GraphSelf
  <2>2. Forest!ChildClosed(L, own, S)
    BY GraphClosed DEF Forest!ChildClosed
  <2> HIDE DEF S
  <2>3. Forest!Graph(L, own, h) \subseteq S
    BY <2>1, <2>2, GraphLeast
  <2> QED
    BY <2>3 DEF S
<1> QED
  BY <1>1, <1>2

\* yc_realloc frees the graph of the old block and keeps the new one.
LEMMA ReallocRefines ==
  ASSUME HeapInv, NEW old \in Block, NEW new \in Block, NEW known \in BOOLEAN,
         Realloc(old, new, known)
  PROVE  HeapInv' /\ Refines
<1> DEFINE N == NewBlock(heap, new, known)
           D == Forest!Graph(heap.live, heap.owner, old)
<1>1. /\ Shape(heap) /\ Agree(heap) /\ current_frame \in Frame /\ new \in Block \ heap.live
      /\ old \in heap.live /\ old \in heap.registered /\ new \notin heap.live
      /\ heap' = ReleaseHeader(N, old) /\ current_frame' = current_frame
  BY HeapParts DEF HeapInv, Realloc
<1>2. /\ Shape(N) /\ Agree(N)
      /\ N.live = heap.live \cup {new} /\ N.owner = heap.owner
      /\ N.registered = (IF known THEN heap.registered \cup {new} ELSE heap.registered)
      /\ N.frame = [heap.frame EXCEPT ![new] = current_frame]
  BY <1>1, NewBlockRight DEF NewIn
<1> HIDE DEF N
<1>3. /\ heap.owner[new] = Nil /\ heap.frame \in [Block -> Frame] /\ heap.live \subseteq Block
      /\ Nil \notin Block
  BY <1>1, HeapParts
<1>4. Forest!Graph(N.live, N.owner, old) = D
  <2>1. heap.owner[new] \notin heap.live \cup {new}
    BY <1>3
  <2>2. Forest!Graph(heap.live \cup {new}, heap.owner, old) = D
    BY <1>1, <2>1, GraphWithout
  <2> QED
    BY <1>2, <2>2
<1>5. D \subseteq heap.live /\ Forest!ChildClosed(N.live, N.owner, D)
  BY <1>1, <1>4, GraphSelf, GraphClosed
<1> HIDE DEF D
<1>6. /\ Shape(heap') /\ heap'.live = N.live \ D /\ heap'.registered = N.registered \ D
      /\ heap'.owner = [x \in Block |-> IF x \in D THEN Nil ELSE N.owner[x]]
      /\ heap'.frame = [x \in Block |-> IF x \in D THEN 0 ELSE N.frame[x]]
  <2> DEFINE K == ReleaseHeader(N, old)
             E == Forest!Graph(N.live, N.owner, old)
  <2>1. Shape(N) /\ old \in N.live
    BY <1>1, <1>2
  <2>2. /\ Shape(K) /\ K.live = N.live \ E /\ K.registered = N.registered \ E
        /\ K.owner = [x \in Block |-> IF x \in E THEN Nil ELSE N.owner[x]]
        /\ K.frame = [x \in Block |-> IF x \in E THEN 0 ELSE N.frame[x]]
    BY <2>1, ReleaseRight
  <2>3. E = D /\ heap' = K
    BY <1>1, <1>4
  <2> HIDE DEF E, K
  <2> QED
    BY <2>2, <2>3
<1>7. Agree(heap')
  <2>1. Shape(N) /\ Agree(N) /\ Forest!ChildClosed(N.live, N.owner, D)
    BY <1>2, <1>5
  <2>2. /\ heap'.live = N.live \ D
        /\ heap'.owner = [x \in Block |-> IF x \in D THEN Nil ELSE N.owner[x]]
        /\ heap'.frame = [x \in Block |-> IF x \in D THEN 0 ELSE N.frame[x]]
    BY <1>6
  <2> QED
    BY <2>1, <2>2, AgreeReleased
<1>8. HeapInv'
  BY <1>1, <1>6, <1>7 DEF HeapInv
<1>9. /\ heap'.live = (heap.live \ D) \cup {new}
      /\ heap'.registered = (heap.registered \ D) \cup (IF known THEN {new} ELSE {})
  BY <1>1, <1>2, <1>5, <1>6
<1>10. heap'.owner = [x \in Block |-> IF x \in D THEN Nil ELSE heap.owner[x]]
  BY <1>2, <1>6
<1>11. heap'.frame = [x \in Block |-> IF x = new THEN current_frame
                                      ELSE IF x \in D THEN 0 ELSE heap.frame[x]]
  BY <1>1, <1>2, <1>3, <1>5, <1>6
<1>12. Forest!Realloc(old, new, known)
  <2>1. Forest!Graph(heap.live, heap.owner, old) = D
    BY DEF D
  <2> QED
    BY <1>1, <1>9, <1>10, <1>11, <2>1 DEF Forest!Realloc
<1> QED
  BY <1>8, <1>12 DEF Refines, Forest!Next

\* The child joins p, and is the same in the forest, or nothing happens.
LEMMA Attached ==
  ASSUME HeapInv, NEW p \in Block, NEW c \in Block,
         heap' = Attach(heap, p, c), current_frame' = current_frame
  PROVE  /\ HeapInv'
         /\ \/ /\ Forest!MayAttach(heap.owner, p, c)
               /\ Forest!LinkOwner(heap.owner, p, c)
               /\ heap'.live = heap.live /\ heap'.registered = heap.registered
            \/ heap' = heap
<1>1. Shape(heap) /\ Agree(heap) /\ current_frame \in Frame
  BY DEF HeapInv
<1>2. /\ Shape(heap') /\ Agree(heap') /\ SameBlocks(heap', heap)
      /\ IF Attachable(heap, p, c)
         THEN /\ heap'.owner = [heap.owner EXCEPT ![c] = p]
              /\ heap'.frame = [b \in Block |-> IF b \in Forest!Graph(heap.live, heap.owner, c)
                                                THEN heap.frame[p] ELSE heap.frame[b]]
         ELSE heap' = heap
  BY <1>1, AttachRight
<1>3. HeapInv'
  BY <1>1, <1>2 DEF HeapInv
<1>4. CASE Attachable(heap, p, c)
  <2>1. Forest!MayAttach(heap.owner, p, c)
    BY <1>4, ForestMay
  <2>2. Forest!LinkOwner(heap.owner, p, c)
    BY <1>2, <1>4, ForestMove DEF Forest!LinkOwner
  <2> QED
    BY <1>2, <1>3, <2>1, <2>2 DEF SameBlocks
<1> QED
  BY <1>2, <1>3, <1>4

\* yc_attach_child is a step of the forest, or none.
LEMMA AttachChildRefines ==
  ASSUME HeapInv, NEW p \in Block, NEW c \in Block, AttachChild(p, c)
  PROVE  HeapInv' /\ Refines
<1>1. heap' = Attach(heap, p, c) /\ current_frame' = current_frame
  BY DEF AttachChild
<1>2. /\ HeapInv'
      /\ \/ /\ Forest!MayAttach(heap.owner, p, c)
            /\ Forest!LinkOwner(heap.owner, p, c)
            /\ heap'.live = heap.live /\ heap'.registered = heap.registered
         \/ heap' = heap
  BY <1>1, Attached
<1>3. CASE heap' = heap
  BY <1>1, <1>3, StillRefines
<1>4. CASE heap' # heap
  <2>1. Forest!AttachChild(p, c)
    BY <1>1, <1>2, <1>4 DEF Forest!AttachChild
  <2> QED
    BY <1>2, <2>1 DEF Refines, Forest!Next
<1> QED
  BY <1>3, <1>4

\* yc_attach_child_to_owner is a step of the forest, or none.
LEMMA AttachToOwnerRefines ==
  ASSUME HeapInv, NEW p \in Block, NEW c \in Block, AttachChildToOwner(p, c)
  PROVE  HeapInv' /\ Refines
<1> DEFINE r == OwnerRoot(heap, p)
<1>1. /\ heap' = Attach(heap, r, c) /\ current_frame' = current_frame
      /\ p \in heap.live /\ Shape(heap)
  BY DEF AttachChildToOwner, HeapInv
<1>2. r \in heap.live /\ r \in Block /\ Forest!IsRootOf(r, p)
  <2>1. r \in heap.live /\ heap.owner[r] = Nil /\ p \in Forest!Graph(heap.live, heap.owner, r)
    BY <1>1, OwnerRootRight
  <2> HIDE DEF r
  <2> QED
    BY <1>1, <2>1, HeapParts DEF Forest!IsRootOf
<1> HIDE DEF r
<1>3. /\ HeapInv'
      /\ \/ /\ Forest!MayAttach(heap.owner, r, c)
            /\ Forest!LinkOwner(heap.owner, r, c)
            /\ heap'.live = heap.live /\ heap'.registered = heap.registered
         \/ heap' = heap
  BY <1>1, <1>2, Attached
<1>4. CASE heap' = heap
  BY <1>1, <1>4, StillRefines
<1>5. CASE heap' # heap
  <2>1. Forest!AttachChildToOwner(p, c)
    BY <1>1, <1>2, <1>3, <1>5 DEF Forest!AttachChildToOwner
  <2> QED
    BY <1>3, <2>1 DEF Refines, Forest!Next
<1> QED
  BY <1>4, <1>5

\* yc_replace_child is a step of the forest.
LEMMA ReplaceChildRefines ==
  ASSUME HeapInv, NEW p \in Block, NEW old \in Block \cup {Nil}, NEW new \in Block,
         ReplaceChild(p, old, new)
  PROVE  HeapInv' /\ Refines
<1> DEFINE D == IF old \in heap.registered /\ heap.owner[old] = p
                THEN DetachOwner(heap, old) ELSE heap
           own == IF old \in heap.registered /\ heap.owner[old] = p
                  THEN [heap.owner EXCEPT ![old] = Nil] ELSE heap.owner
           M == Attach(D, p, new)
<1>1. /\ Shape(heap) /\ Agree(heap) /\ current_frame \in Frame
      /\ p # new /\ p \in heap.registered /\ new \in heap.registered
      /\ heap' = M /\ current_frame' = current_frame
  BY DEF HeapInv, ReplaceChild
<1>2. /\ Shape(D) /\ Agree(D) /\ D.owner = own /\ D.frame = heap.frame
      /\ D.live = heap.live /\ D.registered = heap.registered
  <2>1. CASE old \in heap.registered /\ heap.owner[old] = p
    <3> DEFINE E == DetachOwner(heap, old)
    <3>1. old \in heap.live
      BY <1>1, <2>1, HeapParts
    <3>2. /\ Shape(E) /\ E.owner = [heap.owner EXCEPT ![old] = Nil]
          /\ SameBlocks(E, heap) /\ SameFrames(E, heap)
      BY <1>1, <3>1, DetachRight
    <3>3. D = E /\ own = [heap.owner EXCEPT ![old] = Nil]
      BY <2>1
    <3> HIDE DEF E, D, own
    <3>4. Agree(E)
      <4> SUFFICES ASSUME NEW c \in E.live, E.owner[c] # Nil
                   PROVE  E.frame[c] = E.frame[E.owner[c]]
        BY DEF Agree
      <4>1. c \in heap.live /\ c # old /\ E.owner[c] = heap.owner[c] /\ E.frame = heap.frame
        BY <1>1, <3>2, HeapParts DEF SameBlocks, SameFrames
      <4> QED
        BY <1>1, <4>1 DEF Agree
    <3> QED
      BY <3>2, <3>3, <3>4 DEF SameBlocks, SameFrames
  <2>2. CASE ~(old \in heap.registered /\ heap.owner[old] = p)
    BY <1>1, <2>2
  <2> QED
    BY <2>1, <2>2
<1> HIDE DEF D, own
<1>3. /\ Shape(M) /\ Agree(M) /\ SameBlocks(M, D)
      /\ IF Attachable(D, p, new)
         THEN /\ M.owner = [D.owner EXCEPT ![new] = p]
              /\ M.frame = [b \in Block |-> IF b \in Forest!Graph(D.live, D.owner, new)
                                            THEN D.frame[p] ELSE D.frame[b]]
         ELSE M = D
  <2>1. Shape(D) /\ Agree(D)
    BY <1>2
  <2> QED
    BY <2>1, AttachRight
<1> HIDE DEF M
<1>4. HeapInv'
  BY <1>1, <1>3 DEF HeapInv
<1>5. Attachable(D, p, new) <=> Forest!MayAttach(own, p, new)
  BY <1>2, ForestMay
<1>6. heap'.live = heap.live /\ heap'.registered = heap.registered
  BY <1>1, <1>2, <1>3 DEF SameBlocks
<1>7. \/ Forest!MayAttach(own, p, new) /\ Forest!LinkOwner(own, p, new)
      \/ /\ ~Forest!MayAttach(own, p, new)
         /\ heap'.owner = own /\ heap'.frame = heap.frame
  <2>1. CASE Attachable(D, p, new)
    <3>1. heap'.owner = [own EXCEPT ![new] = p]
      BY <1>1, <1>2, <1>3, <2>1
    <3>2. heap'.frame = [b \in Block |-> IF b \in Forest!Graph(heap.live, own, new)
                                         THEN heap.frame[p] ELSE heap.frame[b]]
      BY <1>1, <1>2, <1>3, <2>1
    <3>3. Forest!MoveGraph(own, new, heap.frame[p]) =
            [b \in Block |-> IF b \in Forest!Graph(heap.live, own, new)
                             THEN heap.frame[p] ELSE heap.frame[b]]
      BY ForestMove
    <3>4. Forest!LinkOwner(own, p, new)
      BY <3>1, <3>2, <3>3 DEF Forest!LinkOwner
    <3> QED
      BY <1>5, <2>1, <3>4
  <2>2. CASE ~Attachable(D, p, new)
    BY <1>1, <1>2, <1>3, <1>5, <2>2
  <2> QED
    BY <2>1, <2>2
<1>8. Forest!ReplaceChild(p, old, new)
  BY <1>1, <1>6, <1>7 DEF Forest!ReplaceChild, own
<1> QED
  BY <1>4, <1>8 DEF Refines, Forest!Next

\* The graph of a root moves, in the lists and in the forest.
LEMMA RootMoved ==
  ASSUME HeapInv, NEW r \in heap.live, heap.owner[r] = Nil, NEW f \in Frame,
         heap' = MoveGraph(heap, r, f), current_frame' = current_frame
  PROVE  /\ HeapInv'
         /\ heap'.frame = Forest!MoveGraph(heap.owner, r, f)
         /\ heap'.live = heap.live /\ heap'.registered = heap.registered
         /\ heap'.owner = heap.owner
<1> DEFINE M == MoveGraph(heap, r, f)
<1>1. Shape(heap) /\ Agree(heap) /\ current_frame \in Frame
  BY DEF HeapInv
<1>2. /\ Shape(M) /\ SameBlocks(M, heap) /\ SameChildren(M, heap)
      /\ M.frame = [b \in Block |-> IF b \in Forest!Graph(heap.live, heap.owner, r) THEN f
                                    ELSE heap.frame[b]]
  BY <1>1, MoveGraphRight
<1>3. heap' = M
  OBVIOUS
<1> HIDE DEF M
<1>4. Agree(M)
  BY <1>1, <1>2, AgreeMoved
<1>5. HeapInv'
  BY <1>1, <1>2, <1>3, <1>4 DEF HeapInv
<1>6. heap'.frame = Forest!MoveGraph(heap.owner, r, f)
  BY <1>2, <1>3, ForestMove
<1> QED
  BY <1>2, <1>3, <1>5, <1>6 DEF SameBlocks, SameChildren

\* The root the lists find is the forest's.
LEMMA RootFound ==
  ASSUME HeapInv, NEW b \in heap.live
  PROVE  LET r == OwnerRoot(heap, b)
         IN  /\ r \in heap.live /\ heap.owner[r] = Nil
             /\ Forest!IsRootOf(r, b) /\ heap.frame[r] \in Frame
<1> DEFINE r == OwnerRoot(heap, b)
<1>1. Shape(heap)
  BY DEF HeapInv
<1>2. r \in heap.live /\ heap.owner[r] = Nil /\ b \in Forest!Graph(heap.live, heap.owner, r)
  BY <1>1, OwnerRootRight
<1> HIDE DEF r
<1>3. Forest!IsRootOf(r, b)
  BY <1>2 DEF Forest!IsRootOf
<1>4. heap.frame[r] \in Frame
  BY <1>1, <1>2, HeapParts
<1> QED
  BY <1>2, <1>3, <1>4 DEF r

\* yc_move_to_ancestor is a step of the forest, or none.
LEMMA MoveToAncestorRefines ==
  ASSUME HeapInv, NEW b \in Block, NEW levels \in 1 .. MaxFrame,
         MoveToAncestor(b, levels)
  PROVE  HeapInv' /\ Refines
<1> DEFINE r == OwnerRoot(heap, b)
           t == IF levels >= current_frame THEN 0 ELSE current_frame - levels
<1>1. /\ b \in heap.live /\ current_frame > 0 /\ current_frame' = current_frame
      /\ heap' = (IF heap.frame[r] > t THEN MoveGraph(heap, r, t) ELSE heap)
  BY DEF MoveToAncestor
<1>2. /\ r \in heap.live /\ heap.owner[r] = Nil
      /\ Forest!IsRootOf(r, b) /\ heap.frame[r] \in Frame
  BY <1>1, RootFound
<1>3. t \in Frame /\ Forest!Target(levels) = t
  BY MaxFrameAssumption DEF HeapInv, Frame, Forest!Target
<1> HIDE DEF r, t
<1>4. CASE heap.frame[r] > t
  <2>1. heap' = MoveGraph(heap, r, t)
    BY <1>1, <1>4
  <2>2. /\ HeapInv'
        /\ heap'.frame = Forest!MoveGraph(heap.owner, r, t)
        /\ heap'.live = heap.live /\ heap'.registered = heap.registered
        /\ heap'.owner = heap.owner
    BY <1>1, <1>2, <1>3, <2>1, RootMoved
  <2>3. Forest!MoveToAncestor(b, levels)
    BY <1>1, <1>2, <1>3, <1>4, <2>2 DEF Forest!MoveToAncestor
  <2> QED
    BY <2>2, <2>3 DEF Refines, Forest!Next
<1>5. CASE ~(heap.frame[r] > t)
  BY <1>1, <1>5, StillRefines
<1> QED
  BY <1>4, <1>5

\* yc_move_to_root is a step of the forest, or none.
LEMMA MoveToRootRefines ==
  ASSUME HeapInv, NEW b \in Block, MoveToRoot(b)
  PROVE  HeapInv' /\ Refines
<1> DEFINE r == OwnerRoot(heap, b)
<1>1. /\ b \in heap.live /\ current_frame' = current_frame
      /\ heap' = (IF heap.frame[r] <= 1 THEN heap ELSE MoveGraph(heap, r, 1))
  BY DEF MoveToRoot
<1>2. /\ r \in heap.live /\ heap.owner[r] = Nil
      /\ Forest!IsRootOf(r, b) /\ heap.frame[r] \in Frame
  BY <1>1, RootFound
<1> HIDE DEF r
<1>3. CASE heap.frame[r] <= 1
  BY <1>1, <1>3, StillRefines
<1>4. CASE ~(heap.frame[r] <= 1)
  <2>1. heap' = MoveGraph(heap, r, 1) /\ 1 \in Frame /\ heap.frame[r] > 1
    BY <1>1, <1>2, <1>4, MaxFrameAssumption DEF Frame
  <2>2. /\ HeapInv'
        /\ heap'.frame = Forest!MoveGraph(heap.owner, r, 1)
        /\ heap'.live = heap.live /\ heap'.registered = heap.registered
        /\ heap'.owner = heap.owner
    BY <1>1, <1>2, <2>1, RootMoved
  <2>3. Forest!MoveToRoot(b)
    BY <1>1, <1>2, <2>1, <2>2 DEF Forest!MoveToRoot
  <2> QED
    BY <2>2, <2>3 DEF Refines, Forest!Next
<1> QED
  BY <1>3, <1>4

\* yc_move_frame_to_parent moves the graphs the forest moves.
LEMMA MoveFrameRefines ==
  ASSUME HeapInv, MoveFrameToParent
  PROVE  HeapInv' /\ Refines
<1> DEFINE f == current_frame
           M == EmptyFrame(heap, f)
           roots == {r \in heap.live : \E b \in heap.live : /\ heap.frame[b] = current_frame
                                                            /\ Forest!IsRootOf(r, b)}
<1>1. /\ Shape(heap) /\ Agree(heap) /\ f \in Frame /\ f > 0 /\ f # 0
      /\ heap' = M /\ current_frame' = current_frame
  BY DEF HeapInv, MoveFrameToParent, Frame
<1>2. Emptying(heap, f, M) /\ InFrameOf(M, f) = {}
  <2>1. Shape(heap) /\ Agree(heap) /\ f \in Frame /\ f # 0
    BY <1>1
  <2> QED
    BY <2>1, EmptyFrameRight
<1> HIDE DEF M
<1>3. /\ Shape(M) /\ Agree(M) /\ SameBlocks(M, heap) /\ SameChildren(M, heap)
      /\ \A b \in Block : \/ M.frame[b] = heap.frame[b]
                          \/ b \in InFrameOf(heap, f) /\ M.frame[b] = f - 1
  BY <1>2 DEF Emptying
<1>4. HeapInv'
  BY <1>1, <1>3 DEF HeapInv
<1>5. \A b \in Block : (\E r \in roots : b \in Forest!Graph(heap.live, heap.owner, r))
                         <=> b \in InFrameOf(heap, f)
  <2>1. ASSUME NEW b \in Block, NEW r \in roots, b \in Forest!Graph(heap.live, heap.owner, r)
        PROVE  b \in InFrameOf(heap, f)
    <3>1. PICK x \in heap.live : heap.frame[x] = current_frame /\ Forest!IsRootOf(r, x)
      BY <2>1
    <3>2. r \in heap.live /\ x \in Forest!Graph(heap.live, heap.owner, r)
      BY <3>1 DEF Forest!IsRootOf
    <3>3. heap.frame[x] = heap.frame[r]
      BY <1>1, <3>2, AgreeInside
    <3>4. b \in heap.live /\ heap.frame[b] = heap.frame[r]
      BY <1>1, <2>1, <3>2, AgreeInside
    <3> QED
      BY <3>1, <3>3, <3>4 DEF InFrameOf
  <2>2. ASSUME NEW b \in InFrameOf(heap, f)
        PROVE  \E r \in roots : b \in Forest!Graph(heap.live, heap.owner, r)
    <3> DEFINE r == OwnerRoot(heap, b)
    <3>1. b \in heap.live /\ heap.frame[b] = current_frame
      BY DEF InFrameOf
    <3>2. r \in heap.live /\ Forest!IsRootOf(r, b)
      BY <3>1, RootFound
    <3> HIDE DEF r
    <3>3. r \in roots /\ b \in Forest!Graph(heap.live, heap.owner, r)
      BY <3>1, <3>2 DEF Forest!IsRootOf
    <3> HIDE DEF roots
    <3> QED
      BY <3>3
  <2> HIDE DEF roots
  <2> QED
    BY <2>1, <2>2
<1>6. \A b \in Block : M.frame[b] = IF b \in InFrameOf(heap, f) THEN f - 1 ELSE heap.frame[b]
  BY <1>2, <1>3 DEF InFrameOf, SameBlocks
<1>7. M.frame = [b \in Block |->
                   IF \E r \in roots : b \in Forest!Graph(heap.live, heap.owner, r)
                   THEN f - 1 ELSE heap.frame[b]]
  <2>1. M.frame \in [Block -> Frame]
    BY <1>3, HeapParts
  <2>2. \A b \in Block : (\E r \in roots : b \in Forest!Graph(heap.live, heap.owner, r))
                           <=> b \in InFrameOf(heap, f)
    BY <1>5
  <2> HIDE DEF roots
  <2> QED
    BY <1>6, <2>1, <2>2
<1>8. Forest!MoveFrameToParent
  <2>1. /\ heap'.live = heap.live /\ heap'.registered = heap.registered
        /\ heap'.owner = heap.owner
    BY <1>1, <1>3 DEF SameBlocks, SameChildren
  <2>2. heap'.frame = [b \in Block |->
                         IF \E r \in roots : b \in Forest!Graph(heap.live, heap.owner, r)
                         THEN f - 1 ELSE heap.frame[b]]
    BY <1>1, <1>7
  <2> QED
    BY <1>1, <2>1, <2>2 DEF Forest!MoveFrameToParent
<1> QED
  BY <1>4, <1>8 DEF Refines, Forest!Next

\* The shutdown leaves nothing, in the lists and in the forest.
LEMMA ShutdownRefines ==
  ASSUME HeapInv, RuntimeShutdown
  PROVE  HeapInv' /\ Refines
<1>1. heap' = Empty /\ current_frame' = 0
  BY DEF RuntimeShutdown
<1>2. Shape(heap') /\ Agree(heap') /\ 0 \in Frame
  BY <1>1, EmptyRight, MaxFrameAssumption DEF Frame
<1>3. HeapInv'
  BY <1>1, <1>2 DEF HeapInv
<1>4. Forest!RuntimeShutdown
  BY <1>1, EmptyRight DEF Forest!RuntimeShutdown
<1> QED
  BY <1>3, <1>4 DEF Refines, Forest!Next

\* Every step keeps the invariant and is a step of the forest or none.
LEMMA HeapNext == HeapInv /\ [Next]_vars => HeapInv' /\ Refines
<1> SUFFICES ASSUME HeapInv, [Next]_vars PROVE HeapInv' /\ Refines
  OBVIOUS
<1>1. ASSUME FramePush PROVE HeapInv' /\ Refines
  BY <1>1, PushRefines
<1>2. ASSUME FramePop PROVE HeapInv' /\ Refines
  BY <1>2, PopRefines
<1>3. ASSUME NEW b \in Block, NEW known \in BOOLEAN, Alloc(b, known)
      PROVE  HeapInv' /\ Refines
  BY <1>3, AllocRefines
<1>4. ASSUME NEW b \in Block, NEW known \in BOOLEAN, KeepString(b, known)
      PROVE  HeapInv' /\ Refines
  BY <1>4, KeepStringRefines
<1>5. ASSUME NEW b \in Block, Release(b) PROVE HeapInv' /\ Refines
  BY <1>5, ReleaseRefines
<1>6. ASSUME NEW old \in Block, NEW new \in Block, NEW known \in BOOLEAN,
             Realloc(old, new, known)
      PROVE  HeapInv' /\ Refines
  BY <1>6, ReallocRefines
<1>7. ASSUME NEW p \in Block, NEW c \in Block, AttachChild(p, c)
      PROVE  HeapInv' /\ Refines
  BY <1>7, AttachChildRefines
<1>8. ASSUME NEW p \in Block, NEW c \in Block, AttachChildToOwner(p, c)
      PROVE  HeapInv' /\ Refines
  BY <1>8, AttachToOwnerRefines
<1>9. ASSUME NEW p \in Block, NEW new \in Block, NEW old \in Block \cup {Nil},
             ReplaceChild(p, old, new)
      PROVE  HeapInv' /\ Refines
  BY <1>9, ReplaceChildRefines
<1>10. ASSUME NEW b \in Block, NEW levels \in 1 .. MaxFrame, MoveToAncestor(b, levels)
       PROVE  HeapInv' /\ Refines
  BY <1>10, MoveToAncestorRefines
<1>11. ASSUME NEW b \in Block, MoveToRoot(b) PROVE HeapInv' /\ Refines
  BY <1>11, MoveToRootRefines
<1>12. ASSUME MoveFrameToParent PROVE HeapInv' /\ Refines
  BY <1>12, MoveFrameRefines
<1>13. ASSUME RuntimeShutdown PROVE HeapInv' /\ Refines
  BY <1>13, ShutdownRefines
<1>14. ASSUME UNCHANGED vars PROVE HeapInv' /\ Refines
  BY <1>14, StillRefines DEF vars
<1> QED
  BY <1>1, <1>2, <1>3, <1>4, <1>5, <1>6, <1>7, <1>8, <1>9, <1>10, <1>11, <1>12, <1>13, <1>14
     DEF Next

\* What the lists of a heap in the invariant hold.
LEMMA HeldLists ==
  ASSUME NEW first, NEW k, NEW hd, NEW M, NEW m, HeapList(M, k, hd, m)
  PROVE  Holds(M, k, hd, m)
BY DEF HeapList, ListOf, NoCycleIn, Holds

\* The invariant says that the lists are exact.
LEMMA HeapExact == HeapInv => ListsExact
<1> SUFFICES ASSUME HeapInv PROVE ListsExact
  OBVIOUS
<1>1. Shape(heap)
  BY DEF HeapInv
<1>2. Holds(heap, "all", All, heap.live)
  BY <1>1, HeldLists DEF Shape
<1>3. \A f \in Frame :
        Holds(heap, "frame", InFrame(f), {b \in heap.live : heap.frame[b] = f})
  BY <1>1, HeldLists DEF Shape, FrameLists
<1>4. \A o \in Block :
        Holds(heap, "sibling", Children(o), {c \in heap.live : heap.owner[c] = o})
  <2> SUFFICES ASSUME NEW o \in Block
               PROVE  Holds(heap, "sibling", Children(o), ChildrenOf(heap, o))
    BY DEF ChildrenOf
  <2> QED
    BY <1>1, HeldLists DEF Shape, ChildLists
<1>5. \A c \in heap.live : heap.owner[c] \in heap.live \cup {Nil}
  BY <1>1, HeapParts
<1> QED
  BY <1>2, <1>3, <1>4, <1>5
     DEF ListsExact, BlockListsExact, ChildListsExact

\* At every moment, for every finite set of blocks and bound on the frames, the
\* list of all allocations, each frame's list and each child list hold exactly
\* the blocks whose fields say so, and have no loop (yc_link, yc_frame_link,
\* yc_link_owner, yc_unlink and the walks over them).
THEOREM ExactLists == Spec => []ListsExact
<1>1. Init => HeapInv
  BY HeapInit
<1>2. HeapInv /\ [Next]_vars => HeapInv'
  BY HeapNext
<1>3. HeapInv => ListsExact
  BY HeapExact
<1> QED
  BY <1>1, <1>2, <1>3, PTL DEF Spec

\* Every entry point of yc_runtime.c, rewriting its lists link by link, has on
\* owners and frames the effect module Ownership says it has, or none: what is
\* proved of the forest holds of the lists.
THEOREM ListsImplementForest == Spec => ImplementsOwnership
<1>1. Init => HeapInv /\ Forest!Init
  BY HeapInit
<1>2. HeapInv /\ [Next]_vars => HeapInv'
  BY HeapNext
<1>3. HeapInv /\ [Next]_vars => [Forest!Next]_Forest!vars
  BY HeapNext DEF Refines
<1> QED
  BY <1>1, <1>2, <1>3, PTL DEF Spec, ImplementsOwnership, Forest!Spec

=============================================================================
