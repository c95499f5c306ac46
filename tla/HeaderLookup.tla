---------------------------- MODULE HeaderLookup ----------------------------
(***************************************************************************)
(* How the runtime finds the header behind a pointer                       *)
(* (yc_header_containing_ptr in bootstrap/cpp/runtime/yc_runtime.c): the   *)
(* registry knows the pointers yc_alloc returned, the treap the addresses  *)
(* inside a block's data.  Every allocation and release rewrites both.     *)
(***************************************************************************)
EXTENDS Registry

CONSTANTS
  HeaderSize,  \* sizeof(YcAllocHeader)
  SizeOf,      \* the size each block is asked with, zero among them
  Nil          \* the null pointer

VARIABLES
  priority,    \* yc_ptr_hash of the headers, not of the data after them
  size, left, right, root

Ranges == INSTANCE RangeTreap WITH hash <- priority, Size <- {SizeOf[b] : b \in Block}

ASSUME NilAssumption == Nil \notin Block
\* Allocations do not overlap: that is malloc's business.
ASSUME LayoutAssumption ==
  /\ Block \subseteq Nat /\ IsFiniteSet(Block) /\ HeaderSize \in Nat /\ SizeOf \in [Block -> Nat]
  /\ \A a, b \in Block : a < b => a + HeaderSize + SizeOf[a] <= b

tables == <<vars, priority, size, left, right, root>>

-----------------------------------------------------------------------------
InitTables == Init /\ Ranges!Init

\* yc_alloc; the registry may fail to grow, the treap needs no memory.
Alloc(b)  == (Insert(b) \/ InsertFails(b)) /\ Ranges!Alloc(b, SizeOf[b])
Release(b) == Remove(b) /\ Ranges!Free(b)
Close == Shutdown /\ Ranges!Shutdown

NextTables == Close \/ \E b \in Block : Alloc(b) \/ Release(b)

Tables == InitTables /\ [][NextTables]_tables

-----------------------------------------------------------------------------
\* yc_header_from_ptr
FromPtr(address) ==
  LET hits == {b \in Block : Found(b) /\ b + HeaderSize = address}
  IN  IF hits = {} THEN Nil ELSE CHOOSE b \in hits : TRUE

\* yc_header_containing_ptr
ContainingPtr(address) ==
  IF FromPtr(address) # Nil THEN FromPtr(address) ELSE Ranges!RangeFind(address)

Addresses == UNION {b .. b + HeaderSize + SizeOf[b] : b \in Block}

Inside(b, address) == b + HeaderSize <= address /\ address < b + HeaderSize + SizeOf[b]

\* The treap holds exactly the live blocks, ordered by address and heaped by
\* hash: neither insertion's rotations nor removal's merges lose a block or
\* put it where a descent cannot reach it.
TreeOfLive == Ranges!Live = live /\ Ranges!SearchTree /\ Ranges!HeapOrdered

\* Every address inside a live block finds that block, whether the registry
\* could store it or not; a block without data is found by its pointer while
\* it is registered; headers, gaps, freed blocks and one-past-the-end find
\* nothing.  The treap is exactly that of the live blocks meanwhile.
LookupExact ==
  /\ TreeOfLive
  /\ \A address \in Addresses :
       LET hits == {b \in live : Inside(b, address) \/ (Found(b) /\ b + HeaderSize = address)}
       IN  IF hits = {} THEN ContainingPtr(address) = Nil ELSE hits = {ContainingPtr(address)}
=============================================================================
