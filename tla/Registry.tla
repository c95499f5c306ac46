------------------------------ MODULE Registry ------------------------------
(***************************************************************************)
(* The registry of live blocks (yc_registry_* and yc_header_from_ptr in    *)
(* bootstrap/cpp/runtime/yc_runtime.c): open addressing with linear        *)
(* probing and tombstones in a table whose size is a power of two.  Every  *)
(* entry point of the runtime asks it whether a pointer is a managed one,  *)
(* so a block lost to a broken probe chain is a block nobody can release,  *)
(* own or move.                                                            *)
(***************************************************************************)
EXTENDS Naturals, FiniteSets, FiniteSetsExt

CONSTANTS
  Block,       \* the addresses malloc hands out
  HashValue,   \* the hashes those addresses may have
  InitialCap,  \* slots of the first table: 1024 in the code
  Empty,       \* a slot never used since the table was made
  Tombstone    \* a slot whose block was removed

ASSUME SlotAssumption == Empty # Tombstone /\ Empty \notin Block /\ Tombstone \notin Block
ASSUME HashAssumption == HashValue \subseteq Nat
ASSUME CapAssumption  == InitialCap \in {2, 4, 8, 16, 32, 64, 128, 256, 512, 1024}

VARIABLES
  hash,   \* yc_ptr_hash of each address: fixed, but malloc chooses the addresses
  cap,    \* yc_registry_cap; 0 stands for no table
  table,  \* yc_registry
  count,  \* yc_registry_count
  used,   \* yc_registry_used: blocks and tombstones
  live    \* the blocks allocated, registered or not

vars == <<hash, cap, table, count, used, live>>

EmptyTable(c) == [s \in 0 .. c - 1 |-> Empty]

-----------------------------------------------------------------------------
(* Probing.                                                                *)

\* The d-th slot probed for b in table t of c slots.
Probed(t, c, b, d) == t[(hash[b] + d) % c]

\* How many slots are passed before an empty one ends the probe.
Run(t, c, b) ==
  Min({d \in 0 .. c - 1 : Probed(t, c, b, d) = Empty})

\* Steps of b's probe that meet the given content.
Meets(t, c, b, content) ==
  {d \in 0 .. Run(t, c, b) - 1 : Probed(t, c, b, d) = content}

\* yc_header_from_ptr finds b.
Found(b) == cap > 0 /\ Meets(table, cap, b, b) # {}

\* A slot of the old table copied: tombstones are dropped.
Copied(t, c, b) ==
  IF b \in {Empty, Tombstone} THEN t ELSE [t EXCEPT ![(hash[b] + Run(t, c, b)) % c] = b]

\* The table of yc_registry_resize: the old slots are copied in order.
Rehashed(c) ==
  LET upto[i \in 0 .. cap] ==
        IF i = 0 THEN EmptyTable(c) ELSE Copied(upto[i - 1], c, table[i - 1])
  IN  upto[cap]

\* A slip: the load test counts blocks and forgets tombstones.
WantedByCount ==
  IF cap = 0 THEN InitialCap
  ELSE IF (count + 1) * 3 >= cap * 2 THEN cap * 2
  ELSE cap

\* yc_registry_ensure: the size the table must have before an insertion.
Wanted ==
  IF cap = 0 THEN InitialCap
  ELSE IF (used + 1) * 3 >= cap * 2 THEN cap * 2
  ELSE cap

-----------------------------------------------------------------------------
Init ==
  /\ hash \in [Block -> HashValue]
  /\ cap = 0 /\ table = EmptyTable(0)
  /\ count = 0 /\ used = 0
  /\ live = {}

\* The first tombstone passed is reused; only an empty slot adds to used.
Store(b, t, c, n, u) ==
  LET graves == Meets(t, c, b, Tombstone)
      d == IF graves = {} THEN Run(t, c, b) ELSE Min(graves)
  IN  /\ cap' = c
      /\ table' = [t EXCEPT ![(hash[b] + d) % c] = b]
      /\ count' = n + 1
      /\ used' = IF graves = {} THEN u + 1 ELSE u

\* A resize recounts: the new table holds the blocks and nothing else.
Insert(b) ==
  /\ b \notin live
  /\ live' = live \cup {b}
  /\ IF Wanted = cap THEN Store(b, table, cap, count, used)
     ELSE LET n == Cardinality({s \in DOMAIN table : table[s] \in Block})
          IN  Store(b, Rehashed(Wanted), Wanted, n, n)
  /\ UNCHANGED hash

\* The new table could not be allocated: the block stays unregistered.
InsertFails(b) ==
  /\ b \notin live
  /\ Wanted # cap
  /\ live' = live \cup {b}
  /\ UNCHANGED <<hash, cap, table, count, used>>

\* A slip: the slot is emptied, which cuts the probes that pass it.
RemoveToEmpty(b) ==
  /\ b \in live
  /\ live' = live \ {b}
  /\ IF Found(b)
     THEN /\ table' = [table EXCEPT ![(hash[b] + Min(Meets(table, cap, b, b))) % cap] = Empty]
          /\ count' = count - 1 /\ used' = used - 1
     ELSE UNCHANGED <<table, count, used>>
  /\ UNCHANGED <<hash, cap>>

\* Freeing a block removes it, or nothing at all when it was never stored.
Remove(b) ==
  /\ b \in live
  /\ live' = live \ {b}
  /\ IF Found(b)
     THEN /\ table' = [table EXCEPT ![(hash[b] + Min(Meets(table, cap, b, b))) % cap] = Tombstone]
          /\ count' = IF count > 0 THEN count - 1 ELSE count
     ELSE UNCHANGED <<table, count>>
  /\ UNCHANGED <<hash, cap, used>>

\* yc_runtime_shutdown
Shutdown ==
  /\ cap' = 0 /\ table' = EmptyTable(0)
  /\ count' = 0 /\ used' = 0
  /\ live' = {}
  /\ UNCHANGED hash

Next ==
  \/ \E b \in Block : Insert(b) \/ InsertFails(b) \/ Remove(b)
  \/ Shutdown

Spec == Init /\ [][Next]_vars

-----------------------------------------------------------------------------
\* Every probe ends: more than a third of a table is empty (the load test of
\* yc_registry_ensure, which counts tombstones).
ProbesEnd ==
  cap > 0 => Cardinality({s \in DOMAIN table : table[s] # Empty}) * 3 < cap * 2

\* count is the number of blocks a lookup finds, which is what
\* yc_runtime_live_allocations reports, and used the number of slots taken.
CountsExact ==
  /\ count = Cardinality({b \in Block : Found(b)})
  /\ used = Cardinality({s \in DOMAIN table : table[s] # Empty})

\* A table whose counts are wrong fills up unnoticed: both at once.
RegistryExact == ProbesEnd /\ CountsExact

\* What lookups find is a set: storing or removing a block, growing the table
\* and reusing tombstones never hide or reveal another block.
Lookups == INSTANCE RegisteredSet WITH known <- {b \in Block : Found(b)}

ImplementsSet == Lookups!Spec
=============================================================================
