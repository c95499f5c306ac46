----------------------------- MODULE RangeTreap -----------------------------
(***************************************************************************)
(* The address-ordered treap of the runtime (yc_range_* in                 *)
(* bootstrap/cpp/runtime/yc_runtime.c).  It answers which allocation an    *)
(* interior pointer belongs to: a wrong answer attaches a value to the     *)
(* wrong owner, or lets a value escape with the wrong graph.               *)
(***************************************************************************)
EXTENDS Naturals, FiniteSets

CONSTANTS
  Block,       \* header addresses malloc may return, far enough apart
  Size,        \* sizes a program asks for, zero among them
  HeaderSize,  \* sizeof(YcAllocHeader)
  Nil          \* the null pointer

VARIABLES
  hash,   \* yc_ptr_hash: a bijection, so no two blocks have equal priority
  size,   \* header->size
  left, right,  \* header->range_left and range_right
  root    \* yc_ranges

vars == <<hash, size, left, right, root>>

Links == Block \cup {Nil}

\* The blocks of the subtree at n of tree t: what its links lead to and no more.
Nodes(t, n) ==
  {b \in Block : \A S \in SUBSET Block :
     /\ n \in S \cup {Nil}
     /\ \A x \in S : {t.left[x], t.right[x]} \subseteq S \cup {Nil}
     => b \in S}

Tree == [left |-> left, right |-> right, top |-> root]
Live == Nodes(Tree, root)

-----------------------------------------------------------------------------
(* The recursive routines rewrite the links of a tree and return its top.  *)

\* The tree s hung below n,
HungLeft(s, n)  == [left |-> [s.left EXCEPT ![n] = s.top], right |-> s.right, top |-> n]
HungRight(s, n) == [left |-> s.left, right |-> [s.right EXCEPT ![n] = s.top], top |-> n]

\* or n below the top of s, whose inner child it takes: a rotation.
TurnedRight(s, n) ==
  [left |-> [s.left EXCEPT ![n] = s.right[s.top]], right |-> [s.right EXCEPT ![s.top] = n],
   top |-> s.top]
TurnedLeft(s, n) ==
  [left |-> [s.left EXCEPT ![s.top] = n], right |-> [s.right EXCEPT ![n] = s.left[s.top]],
   top |-> s.top]

RangeMerge(t, l, r) ==
  LET merge[p \in Links \X Links] ==
        LET x == p[1]
            y == p[2]
        IN  IF x = Nil THEN [t EXCEPT !.top = y]
            ELSE IF y = Nil THEN [t EXCEPT !.top = x]
            ELSE IF hash[x] < hash[y] THEN HungRight(merge[<<t.right[x], y>>], x)
            ELSE HungLeft(merge[<<x, t.left[y]>>], y)
  IN  merge[<<l, r>>]

\* Insert as a leaf, rotate up while the child's hash is the smaller.
RangeInsert(t, b) ==
  LET insert[n \in Links] ==
        IF n = Nil THEN [t EXCEPT !.top = b]
        ELSE IF b < n
        THEN LET s == insert[t.left[n]]
             IN  IF hash[s.top] < hash[n] THEN TurnedRight(s, n) ELSE HungLeft(s, n)
        ELSE LET s == insert[t.right[n]]
             IN  IF hash[s.top] < hash[n] THEN TurnedLeft(s, n) ELSE HungRight(s, n)
  IN  insert[t.top]

RangeRemove(t, b) ==
  LET remove[n \in Links] ==
        IF n = Nil THEN [t EXCEPT !.top = Nil]
        ELSE IF n = b THEN RangeMerge(t, t.left[n], t.right[n])
        ELSE IF b < n THEN HungLeft(remove[t.left[n]], n)
        ELSE HungRight(remove[t.right[n]], n)
  IN  remove[t.top]

\* The descent of yc_range_find: the last block whose data starts at or
\* before the address, then one comparison with its size.
Descend(t, address) ==
  LET from[p \in Links \X Links] ==
        LET n == p[1]
            candidate == p[2]
        IN  IF n = Nil THEN candidate
            ELSE IF address < n + HeaderSize THEN from[<<t.left[n], candidate>>]
            ELSE from[<<t.right[n], n>>]
  IN  from[<<t.top, Nil>>]

\* A slip: the address one past the data still finds the block.
RangeFindPastEnd(address) ==
  LET c == Descend(Tree, address)
  IN  IF c # Nil /\ address - (c + HeaderSize) <= size[c] THEN c ELSE Nil

RangeFind(address) ==
  LET c == Descend(Tree, address)
  IN  IF c # Nil /\ address - (c + HeaderSize) < size[c] THEN c ELSE Nil

\* The links of b cleared.
Unlinked(t, b) ==
  [left |-> [t.left EXCEPT ![b] = Nil], right |-> [t.right EXCEPT ![b] = Nil], top |-> t.top]

-----------------------------------------------------------------------------
Init ==
  /\ hash \in {h \in [Block -> 1 .. Cardinality(Block)] :
                 \A a, b \in Block : a # b => h[a] # h[b]}
  /\ size = [b \in Block |-> 0]
  /\ left = [b \in Block |-> Nil] /\ right = [b \in Block |-> Nil]
  /\ root = Nil

Becomes(t) == left' = t.left /\ right' = t.right /\ root' = t.top

\* yc_alloc clears the links of the new header before it inserts it.
Alloc(b, s) ==
  /\ b \notin Live
  /\ size' = [size EXCEPT ![b] = s]
  /\ Becomes(RangeInsert(Unlinked(Tree, b), b))
  /\ UNCHANGED hash

\* yc_release_header; what freed memory holds is not modelled.
Free(b) ==
  /\ b \in Live
  /\ Becomes(Unlinked(RangeRemove(Tree, b), b))
  /\ size' = [size EXCEPT ![b] = 0]
  /\ UNCHANGED hash

\* yc_runtime_shutdown
Shutdown ==
  /\ size' = [b \in Block |-> 0]
  /\ Becomes([left |-> [b \in Block |-> Nil], right |-> [b \in Block |-> Nil], top |-> Nil])
  /\ UNCHANGED hash

Next ==
  \/ \E b \in Block : Free(b) \/ \E s \in Size : Alloc(b, s)
  \/ Shutdown

Spec == Init /\ [][Next]_vars

-----------------------------------------------------------------------------
\* A search tree by address, no block in two places: insertion's rotations
\* and removal's merge never leave a block where a descent cannot reach it.
SearchTree ==
  \A n \in Live :
    /\ \A b \in Nodes(Tree, left[n]) : b < n
    /\ \A b \in Nodes(Tree, right[n]) : n < b

\* The hash decreases towards the root, which is what keeps the tree shallow
\* whatever the order of allocation.
HeapOrdered ==
  \A n \in Live : \A c \in {left[n], right[n]} \ {Nil} : hash[n] < hash[c]
=============================================================================
