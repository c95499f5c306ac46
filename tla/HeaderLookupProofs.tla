------------------------- MODULE HeaderLookupProofs -------------------------
(***************************************************************************)
(* Proofs about Registry and HeaderLookup, for every set of addresses that *)
(* do not overlap, every hash function, every assignment of priorities and *)
(* every size CapAssumption lets the first table have.                     *)
(*                                                                         *)
(* The registry: a table is in order when each block is in one slot, and   *)
(* no slot its probe passes before is empty.  A removal leaves a tombstone *)
(* and a reused tombstone a block, so that no slot is ever emptied and no  *)
(* probe cut short; the table of a resize is built by such steps alone.    *)
(* The load test leaves an empty slot, at which the probe of any other     *)
(* block ends.                                                             *)
(*                                                                         *)
(* The treap: the blocks of a subtree are the least set its links lead to, *)
(* and a subtree depends on the links of its blocks alone.  What insertion *)
(* and removal make of a subtree is hung below a block, or turned above    *)
(* it, without changing links elsewhere.  Hashes grow along every link, so *)
(* that the routines, which go down, are well defined and can be followed  *)
(* by induction over the height of the block they are at.                  *)
(***************************************************************************)
EXTENDS HeaderLookup, FiniteSetTheorems, WellFoundedInduction, TLAPS

(* Numbers. *)

\* A nonempty set of numbers has a least.
LEMMA Least ==
  ASSUME NEW S, S \subseteq Nat, S # {}
  PROVE  Min(S) \in S /\ \A y \in S : Min(S) <= y
<1>1. PICK x \in S : \A y \in S : ~ (<<y, x>> \in OpToRel(<, Nat))
  BY NatLessThanWellFounded, WFMin, Zenon
<1>2. \A y \in S : ~ (y < x)
  BY <1>1 DEF OpToRel
<1>3. x \in Nat /\ S \subseteq Nat
  OBVIOUS
<1>4. \A y \in S : x <= y
  BY <1>2, <1>3
<1> QED
  BY <1>4 DEF Min

\* Induction over the natural numbers, for a set.
LEMMA Induction ==
  ASSUME NEW S, 0 \in S, \A n \in Nat : n \in S => n + 1 \in S
  PROVE  Nat \subseteq S
<1>1. SUFFICES ASSUME Nat \ S # {} PROVE FALSE
  OBVIOUS
<1>2. PICK x \in Nat \ S : \A y \in Nat \ S : x <= y
  BY <1>1, Least
<1>3. x - 1 \in Nat /\ x - 1 \in S
  BY <1>2
<1>4. (x - 1) + 1 \in S
  BY <1>3
<1> QED
  BY <1>2, <1>4

\* Division with remainder.
LEMMA Division ==
  ASSUME NEW x \in Nat, NEW c \in Nat \ {0}
  PROVE  /\ x \div c \in Nat /\ x % c \in 0 .. c - 1
         /\ x = c * (x \div c) + (x % c)
OBVIOUS

\* Different numbers with the same remainder are at least the divisor apart.
LEMMA Apart ==
  ASSUME NEW c \in Nat \ {0}, NEW p \in Nat, NEW q \in Nat, NEW r \in 0 .. c - 1,
         NEW x \in Nat, NEW y \in Nat, x = c * p + r, y = c * q + r, p < q
  PROVE  y - x >= c
<1>1. PICK k \in Nat : q = p + 1 + k
  <2>1. q - p - 1 \in Nat /\ q = p + 1 + (q - p - 1)
    OBVIOUS
  <2> QED
    BY <2>1
<1>2. c * q = c * p + c + c * k
  BY <1>1
<1>3. c * k >= 0 /\ c * k \in Int /\ c * p \in Int
  OBVIOUS
<1> QED
  BY <1>2, <1>3

\* A probe comes to no slot twice,
LEMMA ProbeSlotsDiffer ==
  ASSUME NEW h \in Nat, NEW c \in Nat \ {0}, NEW d \in 0 .. c - 1, NEW e \in 0 .. c - 1,
         (h + d) % c = (h + e) % c
  PROVE  d = e
<1> DEFINE p == (h + d) \div c
           q == (h + e) \div c
           r == (h + d) % c
<1>1. h + d \in Nat /\ h + e \in Nat
  OBVIOUS
<1>2. p \in Nat /\ h + d = c * p + r /\ r \in 0 .. c - 1
  BY <1>1, Division
<1>3. q \in Nat /\ h + e = c * q + r
  BY <1>1, Division
<1> HIDE DEF p, q, r
<1>4. ~ (p < q) /\ ~ (q < p)
  BY <1>1, <1>2, <1>3, Apart
<1>5. p = q
  BY <1>2, <1>3, <1>4
<1>6. h + d = h + e
  BY <1>2, <1>3, <1>5
<1> QED
  BY <1>6

\* and to every slot.
LEMMA ProbeComesBy ==
  ASSUME NEW h \in Nat, NEW c \in Nat \ {0}, NEW s \in 0 .. c - 1
  PROVE  \E d \in 0 .. c - 1 : (h + d) % c = s
<1> DEFINE r == h % c
           q == h \div c
<1>1. q \in Nat /\ r \in 0 .. c - 1 /\ h = c * q + r
  BY Division
<1> HIDE DEF r, q
<1>2. CASE s >= r
  <2> DEFINE d == s - r
  <2>1. d \in 0 .. c - 1 /\ h + d = c * q + s
    BY <1>1, <1>2
  <2>2. (h + d) % c = s
    BY <2>1, <1>1
  <2> QED
    BY <2>1, <2>2
<1>3. CASE s < r
  <2> DEFINE d == c + s - r
  <2>1. d \in 0 .. c - 1 /\ h + d = c * (q + 1) + s
    BY <1>1, <1>3
  <2>2. (h + d) % c = s
    BY <2>1, <1>1
  <2> QED
    BY <2>1, <2>2
<1> QED
  BY <1>1, <1>2, <1>3

-----------------------------------------------------------------------------
(* Tables in order. *)

Filled(t, c)     == {s \in 0 .. c - 1 : t[s] # Empty}
BlockSlots(t, c) == {s \in 0 .. c - 1 : t[s] \in Block}
Stored(t, c)     == {b \in Block : \E s \in 0 .. c - 1 : t[s] = b}

Ordered(t, c) ==
  /\ t \in [0 .. c - 1 -> Block \cup {Empty, Tombstone}]
  /\ \A r, s \in 0 .. c - 1 : t[r] = t[s] /\ t[r] \in Block => r = s
  /\ \A s \in BlockSlots(t, c) :
       \E d \in 0 .. c - 1 : /\ (hash[t[s]] + d) % c = s
                             /\ \A e \in 0 .. d - 1 : Probed(t, c, t[s], e) # Empty

Hashes == hash \in [Block -> Nat]

\* The run of a probe ends at the first empty slot.
LEMMA RunEnds ==
  ASSUME Hashes, NEW c \in Nat \ {0}, NEW t, NEW b \in Block,
         \E s \in 0 .. c - 1 : t[s] = Empty
  PROVE  /\ Run(t, c, b) \in 0 .. c - 1
         /\ Probed(t, c, b, Run(t, c, b)) = Empty
         /\ \A e \in 0 .. Run(t, c, b) - 1 : Probed(t, c, b, e) # Empty
<1> DEFINE ends == {d \in 0 .. c - 1 : Probed(t, c, b, d) = Empty}
<1>1. PICK s \in 0 .. c - 1 : t[s] = Empty
  OBVIOUS
<1>2. \E d \in 0 .. c - 1 : (hash[b] + d) % c = s
  BY ProbeComesBy DEF Hashes
<1>3. ends # {} /\ ends \subseteq Nat
  BY <1>1, <1>2 DEF Probed
<1>4. Min(ends) \in ends /\ \A d \in ends : Min(ends) <= d
  <2> HIDE DEF ends
  <2> QED
    BY <1>3, Least
<1>5. Run(t, c, b) = Min(ends)
  BY DEF Run
<1>6. \A e \in 0 .. Min(ends) - 1 : e \in 0 .. c - 1
  BY <1>4
<1> QED
  BY <1>4, <1>5, <1>6

\* In an ordered table a probe meets a block exactly if it is stored, and then in its slot.
LEMMA ProbeFinds ==
  ASSUME Hashes, NEW c \in Nat \ {0}, NEW t, NEW b \in Block, Ordered(t, c),
         \E s \in 0 .. c - 1 : t[s] = Empty
  PROVE  /\ (Meets(t, c, b, b) # {}) <=> b \in Stored(t, c)
         /\ Meets(t, c, b, b) # {} =>
              LET s == (hash[b] + Min(Meets(t, c, b, b))) % c
              IN  s \in 0 .. c - 1 /\ t[s] = b
<1>1. /\ Run(t, c, b) \in 0 .. c - 1
      /\ Probed(t, c, b, Run(t, c, b)) = Empty
      /\ \A e \in 0 .. Run(t, c, b) - 1 : Probed(t, c, b, e) # Empty
  BY RunEnds
<1>2. \A d \in Nat : hash[b] + d \in Nat /\ (hash[b] + d) % c \in 0 .. c - 1
  <2> TAKE d \in Nat
  <2>1. hash[b] + d \in Nat
    BY DEF Hashes
  <2> QED
    BY <2>1, Division
<1>3. ASSUME b \in Stored(t, c) PROVE Meets(t, c, b, b) # {}
  <2>1. PICK s \in 0 .. c - 1 : t[s] = b
    BY <1>3 DEF Stored
  <2>2. PICK d \in 0 .. c - 1 : /\ (hash[b] + d) % c = s
                                /\ \A e \in 0 .. d - 1 : Probed(t, c, b, e) # Empty
    BY <2>1 DEF Ordered, BlockSlots
  <2>3. Run(t, c, b) > d
    <3>1. Probed(t, c, b, d) # Empty
      BY <2>1, <2>2, SlotAssumption DEF Probed
    <3>2. \A e \in 0 .. d : Probed(t, c, b, e) # Empty
      BY <2>2, <3>1
    <3> QED
      BY <1>1, <3>2
  <2>4. d \in Meets(t, c, b, b)
    BY <1>1, <2>1, <2>2, <2>3 DEF Meets, Probed
  <2> QED
    BY <2>4
<1>4. ASSUME Meets(t, c, b, b) # {}
      PROVE  LET s == (hash[b] + Min(Meets(t, c, b, b))) % c
             IN  s \in 0 .. c - 1 /\ t[s] = b
  <2>1. Meets(t, c, b, b) \subseteq Nat
    BY <1>1 DEF Meets
  <2>2. Min(Meets(t, c, b, b)) \in Meets(t, c, b, b)
    BY <1>4, <2>1, Least
  <2>3. Min(Meets(t, c, b, b)) \in Nat /\ Probed(t, c, b, Min(Meets(t, c, b, b))) = b
    BY <2>1, <2>2 DEF Meets
  <2> QED
    BY <1>2, <2>3 DEF Probed
<1> QED
  BY <1>3, <1>4 DEF Stored

Slot(c, b, d)   == (hash[b] + d) % c
Put(t, c, b, d) == [t EXCEPT ![Slot(c, b, d)] = b]

\* A block is put into a slot of its probe, before which no slot is empty.
LEMMA PutOrdered ==
  ASSUME Hashes, NEW c \in Nat \ {0}, NEW t, NEW b \in Block, Ordered(t, c),
         b \notin Stored(t, c), NEW d \in 0 .. c - 1, t[Slot(c, b, d)] \notin Block,
         \A e \in 0 .. d - 1 : Probed(t, c, b, e) # Empty
  PROVE  /\ Slot(c, b, d) \in 0 .. c - 1 /\ Ordered(Put(t, c, b, d), c)
         /\ Stored(Put(t, c, b, d), c) = Stored(t, c) \cup {b}
         /\ Filled(Put(t, c, b, d), c) = Filled(t, c) \cup {Slot(c, b, d)}
         /\ BlockSlots(Put(t, c, b, d), c) = BlockSlots(t, c) \cup {Slot(c, b, d)}
<1> DEFINE s == Slot(c, b, d)
           u == Put(t, c, b, d)
<1>0. s = (hash[b] + d) % c /\ u = [t EXCEPT ![s] = b] /\ t[s] \notin Block
  BY DEF Slot, Put
<1> SUFFICES /\ s \in 0 .. c - 1 /\ Ordered(u, c)
             /\ Stored(u, c) = Stored(t, c) \cup {b}
             /\ Filled(u, c) = Filled(t, c) \cup {s}
             /\ BlockSlots(u, c) = BlockSlots(t, c) \cup {s}
  OBVIOUS
<1> HIDE DEF s, u
<1>1. s \in 0 .. c - 1
  <2>1. hash[b] + d \in Nat
    BY DEF Hashes
  <2> QED
    BY <1>0, <2>1, Division
<1>2. /\ u \in [0 .. c - 1 -> Block \cup {Empty, Tombstone}] /\ u[s] = b
      /\ \A r \in 0 .. c - 1 : r # s => u[r] = t[r]
  BY <1>0, <1>1 DEF Ordered
<1>3. \A r \in 0 .. c - 1 : t[r] # Empty => u[r] # Empty
  BY <1>2, SlotAssumption
<1>4. \A a \in Block, e \in Nat : (hash[a] + e) % c \in 0 .. c - 1
  <2> TAKE a \in Block, e \in Nat
  <2>1. hash[a] + e \in Nat
    BY DEF Hashes
  <2> QED
    BY <2>1, Division
<1>5. \A a \in Block, e \in Nat : Probed(t, c, a, e) # Empty => Probed(u, c, a, e) # Empty
  BY <1>3, <1>4 DEF Probed
<1>6. BlockSlots(u, c) = BlockSlots(t, c) \cup {s}
  BY <1>0, <1>1, <1>2 DEF BlockSlots
<1>7. Filled(u, c) = Filled(t, c) \cup {s}
  BY <1>1, <1>2, SlotAssumption DEF Filled
<1>8. Stored(u, c) = Stored(t, c) \cup {b}
  BY <1>0, <1>1, <1>2 DEF Stored
<1>9. Ordered(u, c)
  <2>1. \A r, q \in 0 .. c - 1 : u[r] = u[q] /\ u[r] \in Block => r = q
    BY <1>2 DEF Ordered, Stored
  <2>2. ASSUME NEW q \in BlockSlots(u, c)
        PROVE  \E e \in 0 .. c - 1 : /\ (hash[u[q]] + e) % c = q
                                     /\ \A g \in 0 .. e - 1 : Probed(u, c, u[q], g) # Empty
    <3>1. CASE q = s
      <4>1. ASSUME NEW g \in 0 .. d - 1 PROVE g \in Nat /\ Probed(u, c, b, g) # Empty
        <5>1. g \in Nat /\ Probed(t, c, b, g) # Empty
          OBVIOUS
        <5> QED
          BY <5>1, <1>5
      <4> QED
        BY <3>1, <4>1, <1>0, <1>2
    <3>2. CASE q # s
      <4>1. q \in BlockSlots(t, c) /\ u[q] = t[q] /\ t[q] \in Block
        BY <3>2, <1>2, <1>6 DEF BlockSlots
      <4>2. PICK e \in 0 .. c - 1 : /\ (hash[t[q]] + e) % c = q
                                   /\ \A g \in 0 .. e - 1 : Probed(t, c, t[q], g) # Empty
        BY <4>1 DEF Ordered
      <4>3. ASSUME NEW g \in 0 .. e - 1 PROVE Probed(u, c, t[q], g) # Empty
        <5>1. g \in Nat /\ Probed(t, c, t[q], g) # Empty
          BY <4>2
        <5> QED
          BY <4>1, <5>1, <1>5
      <4> QED
        BY <4>1, <4>2, <4>3
    <3> QED
      BY <3>1, <3>2
  <2> QED
    BY <1>2, <2>1, <2>2 DEF Ordered
<1> QED
  BY <1>1, <1>6, <1>7, <1>8, <1>9

Bury(t, s) == [t EXCEPT ![s] = Tombstone]

\* A block is replaced by a tombstone.
LEMMA BuryOrdered ==
  ASSUME Hashes, NEW c \in Nat \ {0}, NEW t, Ordered(t, c),
         NEW s \in 0 .. c - 1, t[s] \in Block
  PROVE  /\ Ordered(Bury(t, s), c) /\ Filled(Bury(t, s), c) = Filled(t, c)
         /\ Stored(Bury(t, s), c) = Stored(t, c) \ {t[s]}
<1> DEFINE u == Bury(t, s)
           b == t[s]
<1>0. u = [t EXCEPT ![s] = Tombstone] /\ t[s] = b /\ b \in Block
  BY DEF Bury
<1> SUFFICES Ordered(u, c) /\ Filled(u, c) = Filled(t, c) /\ Stored(u, c) = Stored(t, c) \ {b}
  OBVIOUS
<1> HIDE DEF u, b
<1>1. /\ u \in [0 .. c - 1 -> Block \cup {Empty, Tombstone}] /\ u[s] = Tombstone
      /\ \A r \in 0 .. c - 1 : r # s => u[r] = t[r]
  BY <1>0 DEF Ordered
<1>2. \A r \in 0 .. c - 1 : t[r] # Empty <=> u[r] # Empty
  BY <1>0, <1>1, SlotAssumption
<1>3. \A a \in Block, e \in Nat : (hash[a] + e) % c \in 0 .. c - 1
  <2> TAKE a \in Block, e \in Nat
  <2>1. hash[a] + e \in Nat
    BY DEF Hashes
  <2> QED
    BY <2>1, Division
<1>4. \A a \in Block, e \in Nat : Probed(t, c, a, e) # Empty => Probed(u, c, a, e) # Empty
  BY <1>2, <1>3 DEF Probed
<1>5. Filled(u, c) = Filled(t, c)
  BY <1>2 DEF Filled
<1>6. Stored(u, c) = Stored(t, c) \ {b}
  BY <1>0, <1>1, SlotAssumption DEF Stored, Ordered
<1>7. Ordered(u, c)
  <2>1. \A r, q \in 0 .. c - 1 : u[r] = u[q] /\ u[r] \in Block => r = q
    BY <1>1, SlotAssumption DEF Ordered
  <2>2. ASSUME NEW q \in BlockSlots(u, c)
        PROVE  \E e \in 0 .. c - 1 : /\ (hash[u[q]] + e) % c = q
                                     /\ \A g \in 0 .. e - 1 : Probed(u, c, u[q], g) # Empty
    <3>1. q \in BlockSlots(t, c) /\ u[q] = t[q] /\ t[q] \in Block
      BY <1>1, SlotAssumption DEF BlockSlots
    <3>2. PICK e \in 0 .. c - 1 : /\ (hash[t[q]] + e) % c = q
                                 /\ \A g \in 0 .. e - 1 : Probed(t, c, t[q], g) # Empty
      BY <3>1 DEF Ordered
    <3>3. ASSUME NEW g \in 0 .. e - 1 PROVE Probed(u, c, t[q], g) # Empty
      <4>1. g \in Nat /\ Probed(t, c, t[q], g) # Empty
        BY <3>2
      <4> QED
        BY <3>1, <4>1, <1>4
    <3> QED
      BY <3>1, <3>2, <3>3
  <2> QED
    BY <1>1, <2>1, <2>2 DEF Ordered
<1> QED
  BY <1>5, <1>6, <1>7

\* A table that is not full has an empty slot.
LEMMA Room ==
  ASSUME NEW c \in Nat, NEW t, Cardinality(Filled(t, c)) < c
  PROVE  \E s \in 0 .. c - 1 : t[s] = Empty
<1>1. Cardinality(0 .. c - 1) = c
  BY FS_Interval
<1>2. ASSUME \A s \in 0 .. c - 1 : t[s] # Empty PROVE Filled(t, c) = 0 .. c - 1
  BY <1>2 DEF Filled
<1> QED
  BY <1>1, <1>2

-----------------------------------------------------------------------------
(* Growth. *)

Step(f, c, i) == IF i = 0 THEN EmptyTable(c) ELSE Copied(f[i - 1], c, table[i - 1])

\* The tables a resize goes through are well defined.
LEMMA CopiesExist ==
  ASSUME cap \in Nat, NEW c
  PROVE  \E f : f = [i \in 0 .. cap |-> Step(f, c, i)]
<1> DEFINE S == {n \in Nat : \E f : f = [i \in 0 .. n |-> Step(f, c, i)]}
<1>1. 0 \in S
  <2>1. [i \in 0 .. 0 |-> EmptyTable(c)] =
          [i \in 0 .. 0 |-> Step([j \in 0 .. 0 |-> EmptyTable(c)], c, i)]
    BY DEF Step
  <2> QED
    BY <2>1
<1>2. ASSUME NEW n \in Nat, n \in S PROVE n + 1 \in S
  <2>1. PICK f : f = [i \in 0 .. n |-> Step(f, c, i)]
    BY <1>2
  <2> DEFINE g == [i \in 0 .. n + 1 |-> IF i <= n THEN f[i] ELSE Copied(f[n], c, table[n])]
  <2>2. \A i \in 0 .. n : f[i] = Step(f, c, i) /\ g[i] = f[i]
    BY <2>1
  <2>3. \A i \in 0 .. n + 1 : g[i] = Step(g, c, i)
    <3> TAKE i \in 0 .. n + 1
    <3>1. CASE i = 0
      <4>1. g[0] = f[0] /\ f[0] = Step(f, c, 0)
        BY <2>2
      <4> HIDE DEF g
      <4> QED
        BY <3>1, <4>1 DEF Step
    <3>2. CASE i \in 1 .. n
      <4>1. i - 1 \in 0 .. n /\ i \in 0 .. n
        BY <3>2
      <4>2. g[i - 1] = f[i - 1] /\ g[i] = f[i] /\ f[i] = Step(f, c, i)
        BY <4>1, <2>2
      <4> HIDE DEF g
      <4> QED
        BY <3>2, <4>2 DEF Step
    <3>3. CASE i = n + 1
      <4>1. g[i] = Copied(f[n], c, table[n]) /\ g[n] = f[n] /\ i - 1 = n /\ i # 0
        BY <3>3
      <4> HIDE DEF g
      <4> QED
        BY <4>1 DEF Step
    <3> QED
      BY <3>1, <3>2, <3>3
  <2>4. g = [i \in 0 .. n + 1 |-> Step(g, c, i)]
    <3>1. g = [i \in 0 .. n + 1 |-> g[i]]
      OBVIOUS
    <3> HIDE DEF g
    <3> QED
      BY <3>1, <2>3
  <2>5. \E h : h = [i \in 0 .. n + 1 |-> Step(h, c, i)]
    <3> HIDE DEF g
    <3> QED
      BY <2>4
  <2> QED
    BY <2>5
<1>3. cap \in S
  <2> HIDE DEF S
  <2> QED
    BY <1>1, <1>2, Induction
<1> QED
  BY <1>3

\* The table of a resize is the last of a series, each one slot further than the one before.
LEMMA CopiesStep ==
  ASSUME cap \in Nat, NEW c
  PROVE  \E f : /\ Rehashed(c) = f[cap] /\ f[0] = EmptyTable(c)
                /\ \A i \in 0 .. cap - 1 : f[i + 1] = Copied(f[i], c, table[i])
<1> DEFINE Def(f) == f = [i \in 0 .. cap |-> Step(f, c, i)]
           upto == CHOOSE f : Def(f)
<1>1. Def(upto)
  <2>1. \E f : Def(f)
    BY CopiesExist
  <2> HIDE DEF Def
  <2> QED
    BY <2>1, Zenon
<1>2. Rehashed(c) = upto[cap]
  BY DEF Rehashed, Step
<1> HIDE DEF upto
<1>3. \A i \in 0 .. cap : upto[i] = Step(upto, c, i)
  BY <1>1
<1>4. upto[0] = EmptyTable(c)
  BY <1>3 DEF Step
<1>5. \A i \in 0 .. cap - 1 : upto[i + 1] = Copied(upto[i], c, table[i])
  <2> TAKE i \in 0 .. cap - 1
  <2>1. i + 1 \in 0 .. cap /\ i + 1 # 0 /\ (i + 1) - 1 = i
    OBVIOUS
  <2> QED
    BY <2>1, <1>3 DEF Step
<1> QED
  BY <1>2, <1>4, <1>5

\* The slots below i that hold a block.
BlocksBelow(i) == {j \in 0 .. i - 1 : table[j] \in Block}

\* After i slots the new table holds the blocks of those slots and no tombstone.
CopiedRight(t, c, i) ==
  /\ Ordered(t, c) /\ Filled(t, c) = BlockSlots(t, c)
  /\ Stored(t, c) = {b \in Block : \E j \in 0 .. i - 1 : table[j] = b}
  /\ IsFiniteSet(Filled(t, c)) /\ IsFiniteSet(Stored(t, c)) /\ IsFiniteSet(BlocksBelow(i))
  /\ Cardinality(Filled(t, c)) = Cardinality(BlocksBelow(i))
  /\ Cardinality(Stored(t, c)) = Cardinality(BlocksBelow(i))
  /\ Cardinality(BlocksBelow(i)) <= i

\* The series begins in order,
LEMMA EmptyTableRight ==
  ASSUME NEW c \in Nat
  PROVE  CopiedRight(EmptyTable(c), c, 0)
<1> DEFINE t == EmptyTable(c)
<1>1. \A s \in 0 .. c - 1 : t[s] = Empty
  BY DEF EmptyTable
<1>2. t \in [0 .. c - 1 -> Block \cup {Empty, Tombstone}]
  BY DEF EmptyTable
<1> HIDE DEF t
<1>3. /\ Filled(t, c) = {} /\ BlockSlots(t, c) = {} /\ Stored(t, c) = {}
  BY <1>1, SlotAssumption DEF Filled, BlockSlots, Stored
<1>4. BlocksBelow(0) = {} /\ {b \in Block : \E j \in 0 .. 0 - 1 : table[j] = b} = {}
  BY DEF BlocksBelow
<1>5. Ordered(t, c)
  BY <1>1, <1>2, <1>3, SlotAssumption DEF Ordered
<1>6. CopiedRight(t, c, 0)
  BY <1>3, <1>4, <1>5, FS_EmptySet DEF CopiedRight
<1> QED
  BY <1>6 DEF t

\* each copy keeps it so,
LEMMA CopyRight ==
  ASSUME Hashes, cap \in Nat, Ordered(table, cap), NEW c \in Nat, cap < c,
         NEW i \in 0 .. cap - 1, NEW t, CopiedRight(t, c, i)
  PROVE  CopiedRight(Copied(t, c, table[i]), c, i + 1)
<1> DEFINE b == table[i]
<1>1. b \in Block \cup {Empty, Tombstone}
  BY DEF Ordered
<1>2. CASE b \notin Block
  <2>1. Copied(t, c, b) = t
    BY <1>1, <1>2 DEF Copied
  <2>2. /\ BlocksBelow(i + 1) = BlocksBelow(i)
        /\ \A a \in Block : (\E j \in 0 .. (i + 1) - 1 : table[j] = a)
                           <=> (\E j \in 0 .. i - 1 : table[j] = a)
    BY <1>2 DEF BlocksBelow
  <2>3. Cardinality(BlocksBelow(i)) <= i + 1
    BY FS_CardinalityType DEF CopiedRight
  <2> QED
    BY <2>1, <2>2, <2>3 DEF CopiedRight
<1>3. CASE b \in Block
  <2> DEFINE d == Run(t, c, b)
             s == Slot(c, b, d)
             u == Put(t, c, b, d)
  <2>1. Copied(t, c, b) = u
    BY <1>3, SlotAssumption DEF Copied, Slot, Put
  <2>2. Cardinality(Filled(t, c)) < c /\ c \in Nat \ {0}
    BY FS_CardinalityType DEF CopiedRight
  <2>3. /\ d \in 0 .. c - 1 /\ t[s] = Empty
        /\ \A e \in 0 .. d - 1 : Probed(t, c, b, e) # Empty
    BY <1>3, <2>2, Room, RunEnds DEF Probed, Slot
  <2>4. b \notin Stored(t, c)
    BY <1>3 DEF CopiedRight, Ordered
  <2>5. s \notin Filled(t, c)
    BY <2>3 DEF Filled
  <2>6. /\ s \in 0 .. c - 1 /\ Ordered(u, c)
        /\ Stored(u, c) = Stored(t, c) \cup {b}
        /\ Filled(u, c) = Filled(t, c) \cup {s}
        /\ BlockSlots(u, c) = BlockSlots(t, c) \cup {s}
    <3>1. Ordered(t, c) /\ t[s] \notin Block
      BY <2>3, SlotAssumption DEF CopiedRight
    <3> HIDE DEF d, b
    <3> QED
      BY <1>3, <2>2, <2>3, <2>4, <3>1, PutOrdered
  <2>7. BlocksBelow(i + 1) = BlocksBelow(i) \cup {i} /\ i \notin BlocksBelow(i)
    BY <1>3 DEF BlocksBelow
  <2>8. {a \in Block : \E j \in 0 .. (i + 1) - 1 : table[j] = a}
          = {a \in Block : \E j \in 0 .. i - 1 : table[j] = a} \cup {b}
    BY <1>3
  <2> HIDE DEF u, s, d, b
  <2>9. /\ IsFiniteSet(Filled(u, c)) /\ IsFiniteSet(Stored(u, c))
        /\ IsFiniteSet(BlocksBelow(i + 1))
        /\ Cardinality(Filled(u, c)) = Cardinality(Filled(t, c)) + 1
        /\ Cardinality(Stored(u, c)) = Cardinality(Stored(t, c)) + 1
        /\ Cardinality(BlocksBelow(i + 1)) = Cardinality(BlocksBelow(i)) + 1
    <3>1. /\ IsFiniteSet(Filled(t, c)) /\ IsFiniteSet(Stored(t, c))
          /\ IsFiniteSet(BlocksBelow(i))
      BY DEF CopiedRight
    <3>2. IsFiniteSet(Filled(u, c)) /\ Cardinality(Filled(u, c)) = Cardinality(Filled(t, c)) + 1
      BY <2>5, <2>6, <3>1, FS_AddElement
    <3>3. IsFiniteSet(Stored(u, c)) /\ Cardinality(Stored(u, c)) = Cardinality(Stored(t, c)) + 1
      BY <2>4, <2>6, <3>1, FS_AddElement
    <3>4. /\ IsFiniteSet(BlocksBelow(i + 1))
          /\ Cardinality(BlocksBelow(i + 1)) = Cardinality(BlocksBelow(i)) + 1
      BY <2>7, <3>1, FS_AddElement
    <3> QED
      BY <3>2, <3>3, <3>4
  <2>10. Cardinality(BlocksBelow(i)) \in Nat
    BY FS_CardinalityType DEF CopiedRight
  <2>11. CopiedRight(u, c, i + 1)
    BY <2>6, <2>8, <2>9, <2>10 DEF CopiedRight
  <2> QED
    BY <2>1, <2>11 DEF b
<1> QED
  BY <1>2, <1>3

\* and the last holds every block of the old table.
LEMMA ResizeRight ==
  ASSUME Hashes, cap \in Nat, Ordered(table, cap), NEW c \in Nat, cap < c
  PROVE  CopiedRight(Rehashed(c), c, cap)
<1>1. PICK f : /\ Rehashed(c) = f[cap] /\ f[0] = EmptyTable(c)
               /\ \A i \in 0 .. cap - 1 : f[i + 1] = Copied(f[i], c, table[i])
  BY CopiesStep
<1> DEFINE S == {i \in Nat : i <= cap => CopiedRight(f[i], c, i)}
<1>2. 0 \in S
  BY <1>1, EmptyTableRight
<1>3. ASSUME NEW i \in Nat, i \in S PROVE i + 1 \in S
  <2>1. SUFFICES ASSUME i + 1 <= cap PROVE CopiedRight(f[i + 1], c, i + 1)
    OBVIOUS
  <2>2. i \in 0 .. cap - 1 /\ CopiedRight(f[i], c, i)
    BY <1>3, <2>1
  <2> QED
    BY <1>1, <2>2, CopyRight
<1>4. cap \in S
  <2> HIDE DEF S
  <2> QED
    BY <1>2, <1>3, Induction
<1> QED
  BY <1>1, <1>4

-----------------------------------------------------------------------------
(* The registry. *)

\* A block put into an ordered table with room.
LEMMA StoreRight ==
  ASSUME Hashes, NEW b \in Block, NEW t, NEW c \in Nat, NEW n, NEW u,
         Ordered(t, c), b \notin Stored(t, c), IsFiniteSet(Filled(t, c)), IsFiniteSet(Stored(t, c)),
         n = Cardinality(Stored(t, c)), u = Cardinality(Filled(t, c)), u < c,
         Store(b, t, c, n, u)
  PROVE  /\ cap' = c /\ Ordered(table', c)
         /\ Stored(table', c) = Stored(t, c) \cup {b}
         /\ IsFiniteSet(Filled(table', c)) /\ IsFiniteSet(Stored(table', c))
         /\ count' = Cardinality(Stored(table', c)) /\ used' = Cardinality(Filled(table', c))
         /\ used' <= u + 1
<1>1. u \in Nat /\ c \in Nat \ {0}
  BY FS_CardinalityType
<1>2. /\ Run(t, c, b) \in 0 .. c - 1
      /\ Probed(t, c, b, Run(t, c, b)) = Empty
      /\ \A e \in 0 .. Run(t, c, b) - 1 : Probed(t, c, b, e) # Empty
  BY <1>1, Room, RunEnds
<1> DEFINE graves == Meets(t, c, b, Tombstone)
           d == IF graves = {} THEN Run(t, c, b) ELSE Min(graves)
<1>3. /\ d \in 0 .. Run(t, c, b)
      /\ Probed(t, c, b, d) = IF graves = {} THEN Empty ELSE Tombstone
  <2>1. CASE graves = {}
    BY <1>2, <2>1
  <2>2. CASE graves # {}
    <3>1. graves \subseteq Nat
      BY <1>2 DEF Meets
    <3>2. Min(graves) \in graves
      <4> HIDE DEF graves
      <4> QED
        BY <2>2, <3>1, Least
    <3>3. Min(graves) \in 0 .. Run(t, c, b) - 1 /\ Probed(t, c, b, Min(graves)) = Tombstone
      BY <3>2 DEF Meets
    <3> HIDE DEF graves
    <3> QED
      BY <1>2, <2>2, <3>3
  <2> QED
    BY <2>1, <2>2
<1>4. /\ cap' = c /\ table' = Put(t, c, b, d) /\ count' = n + 1
      /\ used' = IF graves = {} THEN u + 1 ELSE u
  BY DEF Store, Put, Slot
<1> HIDE DEF d, graves
<1>5. d \in 0 .. c - 1 /\ \A e \in 0 .. d - 1 : Probed(t, c, b, e) # Empty
  BY <1>2, <1>3
<1>6. t[Slot(c, b, d)] = IF graves = {} THEN Empty ELSE Tombstone
  BY <1>3 DEF Probed, Slot
<1>7. /\ Slot(c, b, d) \in 0 .. c - 1 /\ Ordered(table', c)
      /\ Stored(table', c) = Stored(t, c) \cup {b}
      /\ Filled(table', c) = Filled(t, c) \cup {Slot(c, b, d)}
  BY <1>1, <1>4, <1>5, <1>6, SlotAssumption, PutOrdered
<1>8. Slot(c, b, d) \in Filled(t, c) <=> graves # {}
  BY <1>6, <1>7, SlotAssumption DEF Filled
<1>9. IsFiniteSet(Stored(table', c)) /\ Cardinality(Stored(table', c)) = n + 1
  BY <1>7, FS_AddElement
<1>10. /\ IsFiniteSet(Filled(table', c))
       /\ Cardinality(Filled(table', c)) = IF graves = {} THEN u + 1 ELSE u
  BY <1>7, <1>8, FS_AddElement
<1> QED
  BY <1>1, <1>4, <1>7, <1>9, <1>10

\* The inductive invariant: the table is in order, the counts are its own, and
\* the load test has left room.
TableInv ==
  /\ Hashes
  /\ cap \in Nat \ {1} /\ Ordered(table, cap)
  /\ Stored(table, cap) \subseteq live /\ live \subseteq Block
  /\ IsFiniteSet(Filled(table, cap)) /\ IsFiniteSet(Stored(table, cap))
  /\ count = Cardinality(Stored(table, cap)) /\ used = Cardinality(Filled(table, cap))
  /\ cap > 0 => used * 3 < cap * 2

\* What a lookup finds is what is stored.
LEMMA FoundStored == TableInv => \A b \in Block : Found(b) <=> b \in Stored(table, cap)
<1> SUFFICES ASSUME TableInv, NEW b \in Block PROVE Found(b) <=> b \in Stored(table, cap)
  OBVIOUS
<1>1. CASE cap = 0
  BY <1>1 DEF Found, Stored
<1>2. CASE cap # 0
  <2>1. cap \in Nat \ {0} /\ used \in Nat /\ Cardinality(Filled(table, cap)) < cap
    BY <1>2, FS_CardinalityType DEF TableInv
  <2>2. (Meets(table, cap, b, b) # {}) <=> b \in Stored(table, cap)
    BY <2>1, Room, ProbeFinds DEF TableInv
  <2> QED
    BY <2>1, <2>2 DEF Found
<1> QED
  BY <1>1, <1>2

\* The prime of what is said of a table, when the hashes stay.
LEMMA SameHashes ==
  ASSUME UNCHANGED hash
  PROVE  /\ Hashes' <=> Hashes
         /\ Ordered(table, cap)' <=> Ordered(table', cap')
BY DEF Hashes, Ordered, Probed, BlockSlots

\* The operations keep the table in order and store what they say.
LEMMA TableInit == Init => TableInv
<1> SUFFICES ASSUME Init PROVE TableInv
  OBVIOUS
<1>1. Hashes /\ cap = 0 /\ table = EmptyTable(0) /\ count = 0 /\ used = 0 /\ live = {}
  BY HashAssumption DEF Init, Hashes
<1>2. CopiedRight(EmptyTable(0), 0, 0)
  BY EmptyTableRight
<1>3. /\ Ordered(EmptyTable(0), 0) /\ Filled(EmptyTable(0), 0) = {} /\ Stored(EmptyTable(0), 0) = {}
  BY <1>2 DEF CopiedRight, Filled, Stored
<1> QED
  BY <1>1, <1>3, FS_EmptySet DEF TableInv

\* yc_registry_insert
LEMMA InsertHolds ==
  ASSUME TableInv, NEW b \in Block, Insert(b)
  PROVE  /\ TableInv' /\ b \notin Stored(table, cap)
         /\ Stored(table, cap)' = Stored(table, cap) \cup {b}
<1>1. /\ cap \in Nat \ {1} /\ used \in Nat /\ count \in Nat
      /\ b \notin Stored(table, cap) /\ live' = live \cup {b} /\ UNCHANGED hash
  BY FS_CardinalityType DEF TableInv, Insert
<1>2. InitialCap \in Nat /\ InitialCap >= 2
  BY CapAssumption
<1>3. SUFFICES /\ cap' \in Nat \ {0, 1} /\ Ordered(table', cap')
               /\ Stored(table', cap') = Stored(table, cap) \cup {b}
               /\ IsFiniteSet(Filled(table', cap')) /\ IsFiniteSet(Stored(table', cap'))
               /\ count' = Cardinality(Stored(table', cap'))
               /\ used' = Cardinality(Filled(table', cap'))
               /\ used' * 3 < cap' * 2
  <2>1. Filled(table, cap)' = Filled(table', cap') /\ Stored(table, cap)' = Stored(table', cap')
    BY DEF Filled, Stored
  <2> QED
    BY <1>1, <1>3, <2>1, SameHashes DEF TableInv
<1>4. CASE Wanted = cap
  <2>1. cap > 0 /\ (used + 1) * 3 < cap * 2
    BY <1>1, <1>2, <1>4 DEF Wanted
  <2>2. used < cap /\ Store(b, table, cap, count, used)
    BY <1>1, <1>4, <2>1 DEF Insert
  <2>3. /\ cap' = cap /\ Ordered(table', cap)
        /\ Stored(table', cap) = Stored(table, cap) \cup {b}
        /\ IsFiniteSet(Filled(table', cap)) /\ IsFiniteSet(Stored(table', cap))
        /\ count' = Cardinality(Stored(table', cap)) /\ used' = Cardinality(Filled(table', cap))
        /\ used' <= used + 1
    BY <1>1, <2>2, StoreRight DEF TableInv
  <2>4. used' \in Nat
    BY <2>3, FS_CardinalityType
  <2> QED
    BY <1>1, <2>1, <2>3, <2>4
<1>5. CASE Wanted # cap
  <2> DEFINE c == Wanted
             t == Rehashed(c)
             n == Cardinality(BlocksBelow(cap))
  <2>1. c \in Nat \ {0, 1} /\ cap < c
    BY <1>1, <1>2, <1>5 DEF Wanted
  <2>2. CopiedRight(t, c, cap)
    BY <2>1, ResizeRight DEF TableInv
  <2>3. {s \in DOMAIN table : table[s] \in Block} = BlocksBelow(cap)
    BY DEF TableInv, Ordered, BlocksBelow
  <2>4. Store(b, t, c, n, n)
    BY <1>5, <2>3 DEF Insert
  <2>5. Stored(t, c) = Stored(table, cap)
    BY <2>2 DEF CopiedRight, Stored
  <2>6. /\ Ordered(t, c) /\ IsFiniteSet(Filled(t, c)) /\ IsFiniteSet(Stored(t, c))
        /\ n = Cardinality(Filled(t, c)) /\ n = Cardinality(Stored(t, c)) /\ n <= cap
        /\ n \in Nat
    BY <2>2, FS_CardinalityType DEF CopiedRight
  <2>7. n <= used
    <3>1. BlocksBelow(cap) \subseteq Filled(table, cap)
      BY SlotAssumption DEF BlocksBelow, Filled
    <3> QED
      BY <3>1, FS_Subset DEF TableInv
  <2>8. (n + 1) * 3 < c * 2
    <3>1. CASE cap = 0
      BY <3>1, <2>1, <2>6
    <3>2. CASE cap # 0
      <4>1. c = cap * 2 /\ used * 3 < cap * 2
        BY <1>5, <3>2, <1>1 DEF Wanted, TableInv
      <4> HIDE DEF n, c
      <4> QED
        BY <1>1, <2>6, <2>7, <3>2, <4>1
    <3> QED
      BY <3>1, <3>2
  <2> HIDE DEF t, n, c
  <2>9. n < c
    BY <1>1, <2>1, <2>6
  <2>10. /\ cap' = c /\ Ordered(table', c)
         /\ Stored(table', c) = Stored(t, c) \cup {b}
         /\ IsFiniteSet(Filled(table', c)) /\ IsFiniteSet(Stored(table', c))
         /\ count' = Cardinality(Stored(table', c)) /\ used' = Cardinality(Filled(table', c))
         /\ used' <= n + 1
    BY <1>1, <2>1, <2>4, <2>5, <2>6, <2>9, StoreRight DEF TableInv
  <2>11. used' \in Nat
    BY <2>10, FS_CardinalityType
  <2> QED
    BY <1>1, <2>1, <2>5, <2>6, <2>8, <2>10, <2>11
<1> QED
  BY <1>4, <1>5

\* Nothing of the table changes.
LEMMA TableAtRest ==
  ASSUME TableInv, UNCHANGED <<hash, cap, table, count, used>>, Stored(table, cap) \subseteq live',
         live' \subseteq Block
  PROVE  TableInv' /\ Stored(table, cap)' = Stored(table, cap)
<1>1. Filled(table, cap)' = Filled(table, cap) /\ Stored(table, cap)' = Stored(table, cap)
  BY DEF Filled, Stored
<1> QED
  BY <1>1, SameHashes DEF TableInv

\* yc_registry_remove
LEMMA RemoveHolds ==
  ASSUME TableInv, NEW b \in Block, Remove(b)
  PROVE  TableInv' /\ Stored(table, cap)' = Stored(table, cap) \ {b}
<1>1. CASE ~ Found(b)
  <2>1. b \notin Stored(table, cap)
    BY <1>1, FoundStored
  <2>2. UNCHANGED <<hash, cap, table, count, used>> /\ live' = live \ {b}
    BY <1>1 DEF Remove
  <2>3. Stored(table, cap) \subseteq live' /\ live' \subseteq Block
    BY <2>1, <2>2 DEF TableInv
  <2> QED
    BY <2>1, <2>2, <2>3, TableAtRest
<1>2. CASE Found(b)
  <2> DEFINE s == (hash[b] + Min(Meets(table, cap, b, b))) % cap
  <2>1. cap \in Nat \ {0, 1} /\ used \in Nat /\ Cardinality(Filled(table, cap)) < cap
    BY <1>2, FS_CardinalityType DEF TableInv, Found
  <2>2. s \in 0 .. cap - 1 /\ table[s] = b
    BY <1>2, <2>1, Room, ProbeFinds DEF TableInv, Found
  <2>3. /\ table' = Bury(table, s) /\ UNCHANGED <<hash, cap, used>> /\ live' = live \ {b}
        /\ count' = IF count > 0 THEN count - 1 ELSE count
    BY <1>2 DEF Remove, Bury
  <2> HIDE DEF s
  <2>4. /\ Ordered(table', cap) /\ Filled(table', cap) = Filled(table, cap)
        /\ Stored(table', cap) = Stored(table, cap) \ {b}
    BY <2>1, <2>2, <2>3, BuryOrdered DEF TableInv
  <2>5. /\ IsFiniteSet(Stored(table', cap))
        /\ Cardinality(Stored(table', cap)) = count - 1
        /\ count \in Nat /\ count > 0
    <3>1. b \in Stored(table, cap)
      BY <2>2 DEF Stored
    <3>2. IsFiniteSet(Stored(table, cap)) /\ count = Cardinality(Stored(table, cap))
      BY DEF TableInv
    <3>3. count \in Nat /\ Cardinality(Stored(table, cap) \ {b}) \in Nat
      BY <3>2, FS_CardinalityType, FS_RemoveElement
    <3> QED
      BY <2>4, <3>1, <3>2, <3>3, FS_RemoveElement
  <2>6. Filled(table, cap)' = Filled(table, cap) /\ Stored(table, cap)' = Stored(table, cap) \ {b}
    BY <2>3, <2>4 DEF Filled, Stored
  <2>7. count' = Cardinality(Stored(table, cap)')
    BY <2>3, <2>4, <2>5, <2>6
  <2> QED
    BY <2>3, <2>4, <2>5, <2>6, <2>7, SameHashes DEF TableInv
<1> QED
  BY <1>1, <1>2

\* yc_runtime_shutdown
LEMMA ShutdownHolds ==
  ASSUME TableInv, Shutdown
  PROVE  TableInv' /\ Stored(table, cap)' = {}
<1>1. cap' = 0 /\ table' = EmptyTable(0) /\ count' = 0 /\ used' = 0 /\ live' = {} /\ UNCHANGED hash
  BY DEF Shutdown
<1>2. CopiedRight(EmptyTable(0), 0, 0)
  BY EmptyTableRight
<1>3. Ordered(EmptyTable(0), 0)
  BY <1>2 DEF CopiedRight
<1>4. Filled(table, cap)' = {} /\ Stored(table, cap)' = {}
  BY <1>1 DEF Filled, Stored
<1>5. Ordered(table', cap')
  BY <1>1, <1>3
<1> QED
  BY <1>1, <1>4, <1>5, SameHashes, FS_EmptySet DEF TableInv

\* A step of the registry is a step of the set, or leaves it alone.
LEMMA StepHolds ==
  ASSUME TableInv, [Next]_vars
  PROVE  /\ TableInv'
         /\ \/ Stored(table, cap)' = {}
            \/ Stored(table, cap)' = Stored(table, cap)
            \/ \E b \in Block : /\ b \notin Stored(table, cap)
                               /\ Stored(table, cap)' = Stored(table, cap) \cup {b}
            \/ \E b \in Stored(table, cap) : Stored(table, cap)' = Stored(table, cap) \ {b}
<1>1. ASSUME NEW b \in Block, Insert(b)
      PROVE  /\ TableInv' /\ b \notin Stored(table, cap)
             /\ Stored(table, cap)' = Stored(table, cap) \cup {b}
  BY <1>1, InsertHolds
<1>2. ASSUME NEW b \in Block, InsertFails(b)
      PROVE  TableInv' /\ Stored(table, cap)' = Stored(table, cap)
  BY <1>2, TableAtRest DEF InsertFails, TableInv
<1>3. ASSUME NEW b \in Block, Remove(b)
      PROVE  TableInv' /\ Stored(table, cap)' = Stored(table, cap) \ {b}
  BY <1>3, RemoveHolds
<1>4. CASE Shutdown
  BY <1>4, ShutdownHolds
<1>5. CASE UNCHANGED vars
  BY <1>5, TableAtRest DEF TableInv, vars
<1>6. ASSUME NEW b \in Block, Remove(b), b \notin Stored(table, cap)
      PROVE  TableInv' /\ Stored(table, cap)' = Stored(table, cap)
  BY <1>3, <1>6
<1> QED
  BY <1>1, <1>2, <1>3, <1>4, <1>5, <1>6 DEF Next

\* Every reachable table is in order, with room and exact counts.
LEMMA Invariance == Spec => []TableInv
BY TableInit, StepHolds, PTL DEF Spec

\* Every probe of yc_header_from_ptr, yc_registry_insert and yc_registry_remove ends, and the
\* counts are those of the table, whatever is stored and removed, however addresses hash,
\* and whichever growth fails.
THEOREM RegistryKept == Spec => []RegistryExact
<1>1. TableInv => RegistryExact
  <2> SUFFICES ASSUME TableInv PROVE RegistryExact
    OBVIOUS
  <2>1. {s \in DOMAIN table : table[s] # Empty} = Filled(table, cap)
    BY DEF TableInv, Ordered, Filled
  <2>2. {b \in Block : Found(b)} = Stored(table, cap)
    BY FoundStored DEF Stored
  <2> QED
    BY <2>1, <2>2 DEF RegistryExact, ProbesEnd, CountsExact, TableInv
<1> QED
  BY <1>1, Invariance, PTL

\* The open-addressing table behaves as a set: storing a block, growth, tombstones and their
\* reuse never hide or reveal another block.
THEOREM RegistryIsASet == Spec => ImplementsSet
<1> DEFINE known == {b \in Block : Found(b)}
<1>1. TableInv => known = Stored(table, cap)
  BY FoundStored DEF Stored
<1>2. Init => Lookups!Init
  BY DEF Init, Lookups!Init, Found
<1>3. TableInv /\ [Next]_vars => [Lookups!Next]_known
  <2> SUFFICES ASSUME TableInv, [Next]_vars PROVE [Lookups!Next]_known
    OBVIOUS
  <2>1. TableInv'
    BY StepHolds
  <2>2. known = Stored(table, cap)
    BY <1>1
  <2>3. known' = Stored(table, cap)'
    <3>1. (\A b \in Block : Found(b) <=> b \in Stored(table, cap))'
      BY <2>1, FoundStored, PTL
    <3> QED
      BY <3>1 DEF Stored
  <2> QED
    BY <2>2, <2>3, StepHolds DEF Lookups!Next, Lookups!Clear, Lookups!Insert, Lookups!Remove, Stored
<1> QED
  BY <1>2, <1>3, Invariance, PTL DEF Spec, ImplementsSet, Lookups!Spec

-----------------------------------------------------------------------------
(* The subtrees of a tree. *)

Links == Ranges!Links
Nodes(t, n) == Ranges!Nodes(t, n)
Trees == [left : [Block -> Links], right : [Block -> Links], top : Links]

\* The links of the blocks of S lead to S and nowhere else.
Linked(t, S) == \A x \in S : t.left[x] \in S \cup {Nil} /\ t.right[x] \in S \cup {Nil}

\* The trees t and u have the same links at the blocks of S.
Same(t, u, S) == \A x \in S : u.left[x] = t.left[x] /\ u.right[x] = t.right[x]

\* A subtree is the least set that holds its top and is closed under links:
LEMMA NodesLeast ==
  ASSUME NEW t, NEW n, NEW S \in SUBSET Block, n \in S \cup {Nil}, Linked(t, S)
  PROVE  Nodes(t, n) \subseteq S
BY DEF Nodes, Ranges!Nodes, Linked

\* it is one of those sets,
LEMMA NodesLinked ==
  ASSUME NEW t \in Trees, NEW n \in Links
  PROVE  /\ Nodes(t, n) \in SUBSET Block /\ Linked(t, Nodes(t, n))
         /\ n \in Nodes(t, n) \cup {Nil}
<1>1. \A x \in Block : t.left[x] \in Block \cup {Nil} /\ t.right[x] \in Block \cup {Nil}
  BY DEF Trees, Links, Ranges!Links
<1>2. Nodes(t, n) \subseteq Block
  BY DEF Nodes, Ranges!Nodes
<1>3. ASSUME NEW x \in Nodes(t, n), NEW y \in {t.left[x], t.right[x]}
      PROVE  y \in Nodes(t, n) \cup {Nil}
  BY <1>1, <1>2, <1>3 DEF Nodes, Ranges!Nodes
<1>4. n \in Nodes(t, n) \cup {Nil}
  BY DEF Nodes, Ranges!Nodes, Links, Ranges!Links
<1> QED
  BY <1>2, <1>3, <1>4 DEF Linked

\* and empty at the null pointer.
LEMMA NodesNil ==
  ASSUME NEW t
  PROVE  Nodes(t, Nil) = {}
<1>1. Linked(t, {}) /\ {} \in SUBSET Block
  BY DEF Linked
<1> QED
  BY <1>1, NodesLeast

\* What is below a block of the subtree is in the subtree.
LEMMA NodesBelow ==
  ASSUME NEW t \in Trees, NEW n \in Links, NEW x \in Nodes(t, n) \cup {Nil}
  PROVE  Nodes(t, x) \subseteq Nodes(t, n)
BY NodesLinked, NodesLeast

\* A subtree is its top and the two subtrees of the top.
LEMMA NodesSplit ==
  ASSUME NEW t \in Trees, NEW n \in Block
  PROVE  Nodes(t, n) = {n} \cup Nodes(t, t.left[n]) \cup Nodes(t, t.right[n])
<1> DEFINE L == Nodes(t, t.left[n])
           R == Nodes(t, t.right[n])
           S == {n} \cup L \cup R
<1>1. n \in Links /\ n # Nil /\ t.left[n] \in Links /\ t.right[n] \in Links
  BY NilAssumption DEF Trees, Links, Ranges!Links
<1>2. /\ L \in SUBSET Block /\ Linked(t, L) /\ t.left[n] \in L \cup {Nil}
      /\ R \in SUBSET Block /\ Linked(t, R) /\ t.right[n] \in R \cup {Nil}
  BY <1>1, NodesLinked
<1>3. Linked(t, Nodes(t, n)) /\ n \in Nodes(t, n)
  BY <1>1, NodesLinked
<1>4. L \subseteq Nodes(t, n) /\ R \subseteq Nodes(t, n)
  BY <1>1, <1>3, NodesBelow DEF Linked
<1> HIDE DEF L, R
<1>5. Linked(t, S) /\ S \in SUBSET Block
  BY <1>2 DEF Linked
<1>6. Nodes(t, n) \subseteq S
  BY <1>5, NodesLeast
<1> QED
  BY <1>3, <1>4, <1>6 DEF L, R

\* Links elsewhere do not matter.
LEMMA NodesSame ==
  ASSUME NEW t \in Trees, NEW u \in Trees, NEW n \in Links, Same(t, u, Nodes(t, n))
  PROVE  Nodes(u, n) = Nodes(t, n)
<1>1. /\ Nodes(t, n) \in SUBSET Block /\ Linked(t, Nodes(t, n)) /\ n \in Nodes(t, n) \cup {Nil}
      /\ Nodes(u, n) \in SUBSET Block /\ Linked(u, Nodes(u, n)) /\ n \in Nodes(u, n) \cup {Nil}
  BY NodesLinked
<1>2. Linked(u, Nodes(t, n))
  BY <1>1 DEF Linked, Same
<1>3. Nodes(u, n) \subseteq Nodes(t, n)
  BY <1>1, <1>2, NodesLeast
<1>4. Linked(t, Nodes(u, n))
  BY <1>1, <1>3 DEF Linked, Same
<1>5. Nodes(t, n) \subseteq Nodes(u, n)
  BY <1>1, <1>4, NodesLeast
<1> QED
  BY <1>3, <1>5

(* Order. *)

\* At x, addresses part left and right, and the hash grows downwards.
InOrder(h, t, x) ==
  /\ \A b \in Nodes(t, t.left[x]) : b < x
  /\ \A b \in Nodes(t, t.right[x]) : x < b
  /\ \A c \in {t.left[x], t.right[x]} \ {Nil} : h[x] < h[c]

Sorted(h, t, n) == \A x \in Nodes(t, n) : InOrder(h, t, x)

\* Being sorted passes down to every block of a subtree,
LEMMA SortedBelow ==
  ASSUME NEW h, NEW t \in Trees, NEW n \in Links, NEW x \in Nodes(t, n) \cup {Nil}, Sorted(h, t, n)
  PROVE  Sorted(h, t, x)
BY NodesBelow DEF Sorted

\* and on to every tree with the same links at those blocks.
LEMMA SortedSame ==
  ASSUME NEW h, NEW t \in Trees, NEW u \in Trees, NEW n \in Links,
         Same(t, u, Nodes(t, n)), Sorted(h, t, n)
  PROVE  Nodes(u, n) = Nodes(t, n) /\ Sorted(h, u, n)
<1>1. Nodes(u, n) = Nodes(t, n)
  BY NodesSame
<1>2. ASSUME NEW x \in Nodes(t, n) PROVE InOrder(h, u, x)
  <2>1. /\ u.left[x] = t.left[x] /\ u.right[x] = t.right[x]
        /\ t.left[x] \in Nodes(t, n) \cup {Nil} /\ t.right[x] \in Nodes(t, n) \cup {Nil}
        /\ t.left[x] \in Links /\ t.right[x] \in Links
    BY NodesLinked DEF Same, Linked, Links, Ranges!Links
  <2>2. Nodes(t, t.left[x]) \subseteq Nodes(t, n) /\ Nodes(t, t.right[x]) \subseteq Nodes(t, n)
    BY <2>1, NodesBelow
  <2>3. Nodes(u, t.left[x]) = Nodes(t, t.left[x])
    BY <2>1, <2>2, NodesSame DEF Same
  <2>4. Nodes(u, t.right[x]) = Nodes(t, t.right[x])
    BY <2>1, <2>2, NodesSame DEF Same
  <2> QED
    BY <2>1, <2>3, <2>4 DEF Sorted, InOrder
<1> QED
  BY <1>1, <1>2 DEF Sorted

\* A block above two sorted subtrees.
LEMMA SortedJoin ==
  ASSUME NEW h, NEW t \in Trees, NEW n \in Block, InOrder(h, t, n),
         Sorted(h, t, t.left[n]), Sorted(h, t, t.right[n])
  PROVE  Sorted(h, t, n)
BY NodesSplit DEF Sorted

\* The top of a sorted tree has the least hash.
LEMMA TopLeast ==
  ASSUME NEW h \in [Block -> Nat], NEW t \in Trees, NEW n \in Block, Sorted(h, t, n)
  PROVE  /\ \A x \in Nodes(t, n) : x = n \/ h[n] < h[x]
         /\ \A x \in Nodes(t, t.left[n]) \cup Nodes(t, t.right[n]) : h[n] < h[x]
         /\ n \notin Nodes(t, t.left[n]) \cup Nodes(t, t.right[n])
<1> DEFINE S == {x \in Nodes(t, n) : x = n \/ h[n] < h[x]}
<1>1. n \in Links /\ n # Nil
  BY NilAssumption DEF Links, Ranges!Links
<1>2. Nodes(t, n) \in SUBSET Block /\ Linked(t, Nodes(t, n)) /\ n \in Nodes(t, n)
  BY <1>1, NodesLinked
<1>3. ASSUME NEW x \in S, NEW y \in {t.left[x], t.right[x]} PROVE y \in S \cup {Nil}
  <2>1. y \in Nodes(t, n) \cup {Nil}
    BY <1>2 DEF Linked
  <2>2. SUFFICES ASSUME y # Nil PROVE h[n] < h[y]
    BY <2>1
  <2>3. h[x] < h[y]
    BY <2>2 DEF Sorted, InOrder
  <2>4. h[x] \in Nat /\ h[y] \in Nat /\ h[n] \in Nat
    BY <1>2, <2>1, <2>2
  <2> QED
    BY <2>3, <2>4
<1>4. S \in SUBSET Block /\ n \in S \cup {Nil} /\ Linked(t, S)
  BY <1>2, <1>3 DEF Linked
<1>5. Nodes(t, n) \subseteq S
  <2> HIDE DEF S
  <2> QED
    BY <1>4, NodesLeast
<1>6. n \notin Nodes(t, t.left[n]) /\ n \notin Nodes(t, t.right[n])
  BY <1>2, LayoutAssumption DEF Sorted, InOrder
<1> QED
  BY <1>5, <1>6, NodesSplit

(* Recursion. *)

\* Induction over a rank.
LEMMA RankInduction ==
  ASSUME NEW D, NEW rank \in [D -> Nat], NEW S,
         \A d \in D : (\A e \in D : rank[e] < rank[d] => e \in S) => d \in S
  PROVE  D \subseteq S
<1>1. SUFFICES ASSUME D \ S # {} PROVE FALSE
  OBVIOUS
<1> DEFINE R == {rank[d] : d \in D \ S}
<1>2. R # {} /\ R \subseteq Nat
  BY <1>1
<1>3. Min(R) \in R /\ \A r \in R : Min(R) <= r
  <2> HIDE DEF R
  <2> QED
    BY <1>2, Least
<1>4. PICK d \in D \ S : rank[d] = Min(R)
  BY <1>3
<1>5. ASSUME NEW e \in D, rank[e] < rank[d] PROVE e \in S
  <2>1. SUFFICES ASSUME e \notin S PROVE FALSE
    OBVIOUS
  <2>2. rank[e] \in R /\ rank[e] \in Nat /\ rank[d] \in Nat
    BY <2>1
  <2>3. rank[d] <= rank[e]
    BY <1>3, <1>4, <2>2
  <2> QED
    BY <1>5, <2>2, <2>3
<1> QED
  BY <1>4, <1>5

\* What F makes of a function at d depends on its values of lower rank only.
Determined(D, V, rank, F) ==
  /\ F \in [D -> [[D -> V] -> V]]
  /\ \A d \in D : \A g, k \in [D -> V] :
       (\A e \in D : rank[e] < rank[d] => g[e] = k[e]) => F[d][g] = F[d][k]

\* f agrees with what F makes of it below the rank n.
RightBelow(D, V, rank, F, f, n) ==
  f \in [D -> V] /\ \A d \in D : rank[d] < n => f[d] = F[d][f]

\* A function is well defined by what it is at arguments of lower rank.
LEMMA Recursion ==
  ASSUME NEW D, NEW V, V # {}, NEW rank \in [D -> Nat],
         NEW limit \in Nat, \A d \in D : rank[d] <= limit,
         NEW F, Determined(D, V, rank, F)
  PROVE  \E f \in [D -> V] : \A d \in D : f[d] = F[d][f]
<1> DEFINE Right(f, n) == RightBelow(D, V, rank, F, f, n)
           S == {n \in Nat : \E f : Right(f, n)}
<1>1. 0 \in S
  <2>1. PICK v : v \in V
    OBVIOUS
  <2>2. [d \in D |-> v] \in [D -> V] /\ \A d \in D : ~ (rank[d] < 0)
    BY <2>1
  <2>3. Right([d \in D |-> v], 0)
    BY <2>2 DEF RightBelow
  <2> QED
    BY <2>3
<1>2. ASSUME NEW n \in Nat, n \in S PROVE n + 1 \in S
  <2>1. PICK f : Right(f, n)
    BY <1>2
  <2> DEFINE g == [d \in D |-> F[d][f]]
  <2>2. f \in [D -> V] /\ g \in [D -> V] /\ \A d \in D : g[d] = F[d][f]
    BY <2>1 DEF RightBelow, Determined
  <2> HIDE DEF g
  <2>3. \A e \in D : rank[e] < n => f[e] = g[e]
    BY <2>1, <2>2 DEF RightBelow
  <2>4. ASSUME NEW d \in D, rank[d] < n + 1 PROVE g[d] = F[d][g]
    <3>1. \A e \in D : rank[e] < rank[d] => rank[e] < n
      BY <2>4
    <3>2. \A e \in D : rank[e] < rank[d] => f[e] = g[e]
      BY <2>3, <3>1
    <3>3. F[d][f] = F[d][g]
      BY <2>2, <3>2 DEF Determined
    <3> QED
      BY <2>2, <3>3
  <2>5. Right(g, n + 1)
    BY <2>2, <2>4 DEF RightBelow
  <2> QED
    BY <2>5
<1>3. limit + 1 \in S
  <2> HIDE DEF S
  <2> QED
    BY <1>1, <1>2, Induction
<1>4. PICK f : Right(f, limit + 1)
  BY <1>3
<1>5. \A d \in D : rank[d] < limit + 1
  OBVIOUS
<1> QED
  BY <1>4, <1>5 DEF RightBelow

\* The farther up a block of a tree, the higher: the hash grows on the way down.
Height(h) == [x \in Links |-> IF x = Nil THEN 0 ELSE 1 + Cardinality(Block) - h[x]]

Priorities == {h \in [Block -> 1 .. Cardinality(Block)] : \A a, b \in Block : a # b => h[a] # h[b]}

\* Along every link, of live blocks and of others.
Downwards(h, t) ==
  \A x \in Block : \A c \in {t.left[x], t.right[x]} \ {Nil} : h[x] < h[c]

\* Heights are numbers and fall along every link.
LEMMA HeightFalls ==
  ASSUME NEW h \in Priorities
  PROVE  /\ h \in [Block -> Nat] /\ Height(h) \in [Links -> Nat]
         /\ \A x \in Links : Height(h)[x] <= Cardinality(Block)
         /\ \A t \in Trees : Downwards(h, t) =>
              \A x \in Block : /\ Height(h)[t.left[x]] < Height(h)[x]
                               /\ Height(h)[t.right[x]] < Height(h)[x]
<1>1. Cardinality(Block) \in Nat
  BY LayoutAssumption, FS_CardinalityType
<1>2. \A x \in Block : h[x] \in 1 .. Cardinality(Block) /\ x \in Links /\ x # Nil
  BY NilAssumption DEF Priorities, Links, Ranges!Links
<1>3. h \in [Block -> Nat]
  BY <1>1 DEF Priorities
<1>4. Height(h) \in [Links -> Nat] /\ \A x \in Links : Height(h)[x] <= Cardinality(Block)
  BY <1>1, <1>2 DEF Height, Links, Ranges!Links
<1>5. ASSUME NEW t \in Trees, Downwards(h, t), NEW x \in Block, NEW c \in {t.left[x], t.right[x]}
      PROVE  Height(h)[c] < Height(h)[x]
  <2>1. c \in Links
    BY DEF Trees
  <2>2. CASE c = Nil
    BY <1>1, <1>2, <2>1, <2>2 DEF Height
  <2>3. CASE c # Nil
    <3>1. c \in Block /\ h[x] < h[c]
      BY <1>5, <2>1, <2>3 DEF Downwards, Links, Ranges!Links
    <3> QED
      BY <1>1, <1>2, <2>1, <2>3, <3>1 DEF Height
  <2> QED
    BY <2>2, <2>3
<1> QED
  BY <1>3, <1>4, <1>5

(* The routines unfold as they are written. *)

\* A block with a tree hung below it is a tree again.
LEMMA HungTrees ==
  ASSUME NEW s \in Trees, NEW n \in Block
  PROVE  Ranges!HungLeft(s, n) \in Trees /\ Ranges!HungRight(s, n) \in Trees
<1>1. n \in Links
  BY DEF Links, Ranges!Links
<1> QED
  BY <1>1 DEF Trees, Ranges!HungLeft, Ranges!HungRight

MergeStep(t, f, p) ==
  LET x == p[1]
      y == p[2]
  IN  IF x = Nil THEN [t EXCEPT !.top = y]
      ELSE IF y = Nil THEN [t EXCEPT !.top = x]
      ELSE IF priority[x] < priority[y] THEN Ranges!HungRight(f[<<t.right[x], y>>], x)
      ELSE Ranges!HungLeft(f[<<x, t.left[y]>>], y)

\* Both subtrees shrink, one at a time.
LEMMA MergeUnfolds ==
  ASSUME priority \in Priorities, NEW t \in Trees, Downwards(priority, t),
         NEW l \in Links, NEW r \in Links
  PROVE  Ranges!RangeMerge(t, l, r) =
           IF l = Nil THEN [t EXCEPT !.top = r]
           ELSE IF r = Nil THEN [t EXCEPT !.top = l]
           ELSE IF priority[l] < priority[r]
                THEN Ranges!HungRight(Ranges!RangeMerge(t, t.right[l], r), l)
           ELSE Ranges!HungLeft(Ranges!RangeMerge(t, l, t.left[r]), r)
<1> DEFINE D == Links \X Links
           h == Height(priority)
           rank == [p \in D |-> h[p[1]] + h[p[2]]]
           F == [p \in D |-> [g \in [D -> Trees] |-> MergeStep(t, g, p)]]
<1>1. /\ h \in [Links -> Nat] /\ \A x \in Links : h[x] <= Cardinality(Block)
      /\ \A x \in Block : h[t.left[x]] < h[x] /\ h[t.right[x]] < h[x]
  BY HeightFalls
<1>2. Cardinality(Block) \in Nat
  BY LayoutAssumption, FS_CardinalityType
<1>3. \A x \in Links : x # Nil => x \in Block /\ t.left[x] \in Links /\ t.right[x] \in Links
  BY DEF Trees, Links, Ranges!Links
<1> HIDE DEF h
<1>4. rank \in [D -> Nat] /\ \A p \in D : rank[p] <= Cardinality(Block) + Cardinality(Block)
  BY <1>1, <1>2
<1>5. ASSUME NEW p \in D, NEW g \in [D -> Trees] PROVE MergeStep(t, g, p) \in Trees
  <2>1. PICK x \in Links, y \in Links : p = <<x, y>>
    OBVIOUS
  <2>2. CASE x = Nil \/ y = Nil
    BY <2>1, <2>2 DEF MergeStep, Trees
  <2>3. CASE x # Nil /\ y # Nil
    <3>1. g[<<t.right[x], y>>] \in Trees /\ g[<<x, t.left[y]>>] \in Trees
      BY <1>3, <2>3
    <3> QED
      BY <1>3, <2>1, <2>3, <3>1, HungTrees DEF MergeStep
  <2> QED
    BY <2>2, <2>3
<1>6. ASSUME NEW p \in D, NEW g \in [D -> Trees], NEW k \in [D -> Trees],
             \A q \in D : rank[q] < rank[p] => g[q] = k[q]
      PROVE  MergeStep(t, g, p) = MergeStep(t, k, p)
  <2>1. PICK x \in Links, y \in Links : p = <<x, y>>
    OBVIOUS
  <2>2. CASE x = Nil \/ y = Nil
    BY <2>1, <2>2 DEF MergeStep
  <2>3. CASE x # Nil /\ y # Nil
    <3>1. <<t.right[x], y>> \in D /\ <<x, t.left[y]>> \in D
      BY <1>3, <2>3
    <3>2. rank[<<t.right[x], y>>] < rank[p] /\ rank[<<x, t.left[y]>>] < rank[p]
      BY <1>1, <1>3, <2>1, <2>3, <3>1
    <3>3. g[<<t.right[x], y>>] = k[<<t.right[x], y>>] /\ g[<<x, t.left[y]>>] = k[<<x, t.left[y]>>]
      BY <1>6, <3>1, <3>2
    <3> QED
      BY <2>1, <3>3 DEF MergeStep
  <2> QED
    BY <2>2, <2>3
<1>7. Determined(D, Trees, rank, F)
  <2>1. F \in [D -> [[D -> Trees] -> Trees]]
    BY <1>5
  <2>2. \A p \in D : \A g \in [D -> Trees] : F[p][g] = MergeStep(t, g, p)
    OBVIOUS
  <2>3. ASSUME NEW p \in D, NEW g \in [D -> Trees], NEW k \in [D -> Trees],
               \A q \in D : rank[q] < rank[p] => g[q] = k[q]
        PROVE  F[p][g] = F[p][k]
    <3>1. MergeStep(t, g, p) = MergeStep(t, k, p)
      BY <1>6, <2>3
    <3> QED
      BY <2>2, <3>1
  <2> HIDE DEF D, rank, F
  <2> QED
    BY <2>1, <2>3 DEF Determined
<1> DEFINE Def(f) == f = [p \in D |-> MergeStep(t, f, p)]
           merge == CHOOSE f : Def(f)
<1>8. Def(merge)
  <2>1. \E f \in [D -> Trees] : \A p \in D : f[p] = F[p][f]
    <3> HIDE DEF D, rank, F
    <3> QED
      BY <1>2, <1>4, <1>7, Recursion
  <2>2. PICK f \in [D -> Trees] : \A p \in D : f[p] = F[p][f]
    BY <2>1
  <2>3. \A p \in D : f[p] = MergeStep(t, f, p)
    BY <2>2
  <2>4. f = [p \in D |-> f[p]]
    OBVIOUS
  <2>5. Def(f)
    BY <2>3, <2>4
  <2> HIDE DEF Def
  <2> QED
    BY <2>5, Zenon
<1>9. \A x, y \in Links : Ranges!RangeMerge(t, x, y) = merge[<<x, y>>]
  BY DEF Ranges!RangeMerge, MergeStep, Links
<1> HIDE DEF merge
<1>10. \A p \in D : merge[p] = MergeStep(t, merge, p)
  BY <1>8
<1>11. merge[<<l, r>>] = MergeStep(t, merge, <<l, r>>)
  BY <1>10
<1> QED
  BY <1>3, <1>9, <1>11 DEF MergeStep

(* A subtree hung below another block. *)

\* The subtree s can take the place of the one at the right of n.
FitsRight(h, t, s, n) ==
  /\ s \in Trees /\ Sorted(h, t, n) /\ Sorted(h, s, s.top)
  /\ Same(t, s, {n} \cup Nodes(t, t.left[n]))
  /\ \A x \in Nodes(s, s.top) : n < x
  /\ s.top # Nil => h[n] < h[s.top]

\* What fits on the right of n, hung there, makes a sorted tree of both.
LEMMA HungRightSorted ==
  ASSUME NEW h, NEW t \in Trees, NEW s, NEW n \in Block, FitsRight(h, t, s, n)
  PROVE  /\ Nodes(Ranges!HungRight(s, n), n) = {n} \cup Nodes(t, t.left[n]) \cup Nodes(s, s.top)
         /\ Sorted(h, Ranges!HungRight(s, n), n)
         /\ Same(s, Ranges!HungRight(s, n), Block \ {n})
<1> DEFINE u == Ranges!HungRight(s, n)
<1> USE DEF FitsRight
<1>1. n \in Links /\ s.top \in Links /\ t.left[n] \in Links
  BY DEF Trees, Links, Ranges!Links
<1>2. u \in Trees
  BY HungTrees
<1>3. u.left[n] = t.left[n] /\ u.right[n] = s.top /\ Same(s, u, Block \ {n})
  BY DEF Ranges!HungRight, Same, Trees
<1> HIDE DEF u
<1>4. /\ Nodes(s, s.top) \in SUBSET Block /\ Nodes(t, t.left[n]) \in SUBSET Block
      /\ n \in Nodes(t, n) /\ t.left[n] \in Nodes(t, n) \cup {Nil}
  BY <1>1, NodesLinked, NilAssumption DEF Linked
<1>5. Same(s, u, Nodes(s, s.top))
  <2>1. n \in Nat /\ ~ (n < n)
    BY LayoutAssumption
  <2>2. n \notin Nodes(s, s.top)
    BY <2>1
  <2> QED
    BY <1>3, <1>4, <2>2 DEF Same
<1>6. Nodes(u, s.top) = Nodes(s, s.top) /\ Sorted(h, u, s.top)
  BY <1>1, <1>2, <1>5, SortedSame
<1>7. InOrder(h, t, n)
  BY <1>4 DEF Sorted
<1>8. n \notin Nodes(t, t.left[n])
  BY <1>4, <1>7, LayoutAssumption DEF InOrder
<1>9. Same(t, u, Nodes(t, t.left[n]))
  BY <1>3, <1>4, <1>8 DEF Same
<1>10. Sorted(h, t, t.left[n])
  BY <1>1, <1>4, SortedBelow
<1>11. Nodes(u, t.left[n]) = Nodes(t, t.left[n]) /\ Sorted(h, u, t.left[n])
  BY <1>1, <1>2, <1>9, <1>10, SortedSame
<1>12. InOrder(h, u, n)
  BY <1>3, <1>6, <1>7, <1>11 DEF InOrder
<1>13. Nodes(u, n) = {n} \cup Nodes(t, t.left[n]) \cup Nodes(s, s.top)
  BY <1>2, <1>3, <1>6, <1>11, NodesSplit
<1>14. Sorted(h, u, n)
  BY <1>2, <1>3, <1>6, <1>11, <1>12, SortedJoin
<1> QED
  BY <1>3, <1>13, <1>14 DEF u

\* The subtree s can take the place of the one at the left of n.
FitsLeft(h, t, s, n) ==
  /\ s \in Trees /\ Sorted(h, t, n) /\ Sorted(h, s, s.top)
  /\ Same(t, s, {n} \cup Nodes(t, t.right[n]))
  /\ \A x \in Nodes(s, s.top) : x < n
  /\ s.top # Nil => h[n] < h[s.top]

\* What fits on the left of n, hung there, makes a sorted tree of both.
LEMMA HungLeftSorted ==
  ASSUME NEW h, NEW t \in Trees, NEW s, NEW n \in Block, FitsLeft(h, t, s, n)
  PROVE  /\ Nodes(Ranges!HungLeft(s, n), n) = {n} \cup Nodes(s, s.top) \cup Nodes(t, t.right[n])
         /\ Sorted(h, Ranges!HungLeft(s, n), n)
         /\ Same(s, Ranges!HungLeft(s, n), Block \ {n})
<1> DEFINE u == Ranges!HungLeft(s, n)
<1> USE DEF FitsLeft
<1>1. n \in Links /\ s.top \in Links /\ t.right[n] \in Links
  BY DEF Trees, Links, Ranges!Links
<1>2. u \in Trees
  BY HungTrees
<1>3. u.right[n] = t.right[n] /\ u.left[n] = s.top /\ Same(s, u, Block \ {n})
  BY DEF Ranges!HungLeft, Same, Trees
<1> HIDE DEF u
<1>4. /\ Nodes(s, s.top) \in SUBSET Block /\ Nodes(t, t.right[n]) \in SUBSET Block
      /\ n \in Nodes(t, n) /\ t.right[n] \in Nodes(t, n) \cup {Nil}
  BY <1>1, NodesLinked, NilAssumption DEF Linked
<1>5. Same(s, u, Nodes(s, s.top))
  <2>1. n \in Nat /\ ~ (n < n)
    BY LayoutAssumption
  <2>2. n \notin Nodes(s, s.top)
    BY <2>1
  <2> QED
    BY <1>3, <1>4, <2>2 DEF Same
<1>6. Nodes(u, s.top) = Nodes(s, s.top) /\ Sorted(h, u, s.top)
  BY <1>1, <1>2, <1>5, SortedSame
<1>7. InOrder(h, t, n)
  BY <1>4 DEF Sorted
<1>8. n \notin Nodes(t, t.right[n])
  BY <1>4, <1>7, LayoutAssumption DEF InOrder
<1>9. Same(t, u, Nodes(t, t.right[n]))
  BY <1>3, <1>4, <1>8 DEF Same
<1>10. Sorted(h, t, t.right[n])
  BY <1>1, <1>4, SortedBelow
<1>11. Nodes(u, t.right[n]) = Nodes(t, t.right[n]) /\ Sorted(h, u, t.right[n])
  BY <1>1, <1>2, <1>9, <1>10, SortedSame
<1>12. InOrder(h, u, n)
  BY <1>3, <1>6, <1>7, <1>11 DEF InOrder
<1>13. Nodes(u, n) = {n} \cup Nodes(s, s.top) \cup Nodes(t, t.right[n])
  BY <1>2, <1>3, <1>6, <1>11, NodesSplit
<1>14. Sorted(h, u, n)
  BY <1>2, <1>3, <1>6, <1>11, <1>12, SortedJoin
<1> QED
  BY <1>3, <1>13, <1>14 DEF u


\* A subtree, seen as a tree with its own top.
LEMMA Retopped ==
  ASSUME NEW h, NEW t \in Trees, NEW n \in Links, Sorted(h, t, n)
  PROVE  /\ [t EXCEPT !.top = n] \in Trees /\ [t EXCEPT !.top = n].top = n
         /\ Nodes([t EXCEPT !.top = n], n) = Nodes(t, n)
         /\ Sorted(h, [t EXCEPT !.top = n], n)
         /\ Same(t, [t EXCEPT !.top = n], Block)
<1> DEFINE u == [t EXCEPT !.top = n]
<1>1. u \in Trees /\ u.top = n /\ u.left = t.left /\ u.right = t.right
  BY DEF Trees
<1> HIDE DEF u
<1>2. Same(t, u, Block) /\ Same(t, u, Nodes(t, n))
  BY <1>1 DEF Same
<1> QED
  BY <1>1, <1>2, SortedSame DEF u

(* Merging. *)

\* Two subtrees that can be merged: one lies before the other.
Mergeable(t, l, r) ==
  /\ Sorted(priority, t, l) /\ Sorted(priority, t, r)
  /\ \A a \in Nodes(t, l), b \in Nodes(t, r) : a < b

\* m is what t becomes when the subtrees at l and r are made one.
Merged(t, l, r, m) ==
  /\ m \in Trees /\ m.top \in {l, r}
  /\ Nodes(m, m.top) = Nodes(t, l) \cup Nodes(t, r)
  /\ Sorted(priority, m, m.top)
  /\ Same(t, m, Block \ (Nodes(t, l) \cup Nodes(t, r)))

\* yc_range_merge: a sorted tree of the blocks of both, and no link elsewhere changed.
LEMMA MergeRight ==
  ASSUME priority \in Priorities, NEW t \in Trees, Downwards(priority, t),
         NEW l \in Links, NEW r \in Links, Mergeable(t, l, r)
  PROVE  Merged(t, l, r, Ranges!RangeMerge(t, l, r))
<1> DEFINE D == Links \X Links
           h == Height(priority)
           rank == [p \in D |-> h[p[1]] + h[p[2]]]
           Right(p) == Merged(t, p[1], p[2], Ranges!RangeMerge(t, p[1], p[2]))
           S == {p \in D : Mergeable(t, p[1], p[2]) => Right(p)}
<1>1. /\ h \in [Links -> Nat] /\ priority \in [Block -> Nat]
      /\ \A x \in Block : h[t.left[x]] < h[x] /\ h[t.right[x]] < h[x]
  BY HeightFalls
<1>2. \A x \in Links : x # Nil => x \in Block /\ t.left[x] \in Links /\ t.right[x] \in Links
  BY DEF Trees, Links, Ranges!Links
<1> HIDE DEF h
<1>3. rank \in [D -> Nat]
  BY <1>1
<1>4. ASSUME NEW p \in D, \A q \in D : rank[q] < rank[p] => q \in S PROVE p \in S
  <2>1. PICK x \in Links, y \in Links : p = <<x, y>>
    OBVIOUS
  <2>2. SUFFICES ASSUME Mergeable(t, x, y) PROVE Merged(t, x, y, Ranges!RangeMerge(t, x, y))
    BY <2>1
  <2> DEFINE m == Ranges!RangeMerge(t, x, y)
  <2>3. CASE x = Nil
    <3>1. m = [t EXCEPT !.top = y] /\ Nodes(t, x) = {}
      BY <2>3, MergeUnfolds, NodesNil
    <3>2. /\ m \in Trees /\ m.top = y /\ Nodes(m, y) = Nodes(t, y) /\ Sorted(priority, m, y)
          /\ Same(t, m, Block)
      BY <2>2, <3>1, Retopped DEF Mergeable
    <3> HIDE DEF m
    <3> QED
      BY <3>1, <3>2 DEF Merged, Same, m
  <2>4. CASE x # Nil /\ y = Nil
    <3>1. m = [t EXCEPT !.top = x] /\ Nodes(t, y) = {}
      BY <2>4, MergeUnfolds, NodesNil
    <3>2. /\ m \in Trees /\ m.top = x /\ Nodes(m, x) = Nodes(t, x) /\ Sorted(priority, m, x)
          /\ Same(t, m, Block)
      BY <2>2, <3>1, Retopped DEF Mergeable
    <3> HIDE DEF m
    <3> QED
      BY <3>1, <3>2 DEF Merged, Same, m
  <2>5. CASE x # Nil /\ y # Nil /\ priority[x] < priority[y]
    <3> DEFINE s == Ranges!RangeMerge(t, t.right[x], y)
    <3>1. x \in Block /\ y \in Block /\ t.left[x] \in Links /\ t.right[x] \in Links
      BY <1>2, <2>5
    <3>2. m = Ranges!HungRight(s, x)
      BY <2>5, MergeUnfolds
    <3>3. /\ Nodes(t, x) \in SUBSET Block /\ x \in Nodes(t, x)
          /\ Nodes(t, t.left[x]) \subseteq Nodes(t, x) /\ Nodes(t, t.right[x]) \subseteq Nodes(t, x)
          /\ x \in Nat /\ Nodes(t, x) \in SUBSET Nat /\ Nodes(t, y) \in SUBSET Nat
          /\ Nodes(t, x) = {x} \cup Nodes(t, t.left[x]) \cup Nodes(t, t.right[x])
      <4>1. Nodes(t, x) \in SUBSET Block /\ Nodes(t, y) \in SUBSET Block
        BY NodesLinked
      <4>2. Nodes(t, x) = {x} \cup Nodes(t, t.left[x]) \cup Nodes(t, t.right[x])
        BY <3>1, NodesSplit
      <4> QED
        BY <4>1, <4>2, LayoutAssumption
    <3>4. Mergeable(t, t.right[x], y)
      <4>1. t.right[x] \in Nodes(t, x) \cup {Nil}
        BY <3>1, <3>3, NodesLinked DEF Linked
      <4>2. Sorted(priority, t, t.right[x])
        BY <2>2, <4>1, SortedBelow DEF Mergeable
      <4> QED
        BY <2>2, <3>3, <4>2 DEF Mergeable
    <3>5. Merged(t, t.right[x], y, s)
      <4>1. <<t.right[x], y>> \in D /\ rank[<<t.right[x], y>>] < rank[p]
        BY <1>1, <2>1, <3>1
      <4> QED
        BY <1>4, <3>4, <4>1
    <3> HIDE DEF s, m
    <3>6. InOrder(priority, t, x) /\ \A a \in Nodes(t, x), b \in Nodes(t, y) : a < b
      BY <2>2, <3>3 DEF Mergeable, Sorted
    <3>7. \A z \in Nodes(s, s.top) : x < z
      BY <3>3, <3>5, <3>6 DEF InOrder, Merged
    <3>8. s.top # Nil => priority[x] < priority[s.top]
      BY <2>5, <3>5, <3>6 DEF InOrder, Merged
    <3>9. Same(t, s, {x} \cup Nodes(t, t.left[x]))
      <4>1. \A z \in {x} \cup Nodes(t, t.left[x]) : z \in Nat /\ ~ (x < z)
        BY <3>3, <3>6 DEF InOrder
      <4>2. \A z \in {x} \cup Nodes(t, t.left[x]) :
              z \in Block \ (Nodes(t, t.right[x]) \cup Nodes(t, y))
        BY <3>1, <3>3, <3>5, <3>7, <4>1 DEF Merged
      <4> QED
        BY <3>5, <4>2 DEF Same, Merged
    <3>10. /\ Nodes(m, x) = {x} \cup Nodes(t, t.left[x]) \cup Nodes(s, s.top)
           /\ Sorted(priority, m, x) /\ Same(s, m, Block \ {x})
      <4>1. s \in Trees /\ Sorted(priority, s, s.top) /\ Sorted(priority, t, x)
        BY <2>2, <3>5 DEF Merged, Mergeable
      <4>2. FitsRight(priority, t, s, x)
        BY <3>7, <3>8, <3>9, <4>1 DEF FitsRight
      <4>3. /\ Nodes(Ranges!HungRight(s, x), x) =
                 {x} \cup Nodes(t, t.left[x]) \cup Nodes(s, s.top)
            /\ Sorted(priority, Ranges!HungRight(s, x), x)
            /\ Same(s, Ranges!HungRight(s, x), Block \ {x})
        BY <3>1, <4>2, HungRightSorted
      <4> QED
        BY <3>2, <4>3
    <3>11. m \in Trees /\ m.top = x
      BY <3>1, <3>2, <3>5, HungTrees DEF Merged, Ranges!HungRight
    <3>12. Same(t, m, Block \ (Nodes(t, x) \cup Nodes(t, y)))
      BY <3>3, <3>5, <3>10 DEF Same, Merged
    <3>13. Nodes(m, x) = Nodes(t, x) \cup Nodes(t, y)
      BY <3>3, <3>5, <3>10 DEF Merged
    <3> QED
      BY <3>10, <3>11, <3>12, <3>13 DEF Merged, m
  <2>6. CASE x # Nil /\ y # Nil /\ ~ (priority[x] < priority[y])
    <3> DEFINE s == Ranges!RangeMerge(t, x, t.left[y])
    <3>1. y \in Block /\ x \in Block /\ t.right[y] \in Links /\ t.left[y] \in Links
      BY <1>2, <2>6
    <3>2. m = Ranges!HungLeft(s, y)
      BY <2>6, MergeUnfolds
    <3>3. /\ Nodes(t, y) \in SUBSET Block /\ y \in Nodes(t, y)
          /\ Nodes(t, t.right[y]) \subseteq Nodes(t, y) /\ Nodes(t, t.left[y]) \subseteq Nodes(t, y)
          /\ y \in Nat /\ Nodes(t, y) \in SUBSET Nat /\ Nodes(t, x) \in SUBSET Nat
          /\ Nodes(t, y) = {y} \cup Nodes(t, t.right[y]) \cup Nodes(t, t.left[y])
      <4>1. Nodes(t, x) \in SUBSET Block /\ Nodes(t, y) \in SUBSET Block
        BY NodesLinked
      <4>2. Nodes(t, y) = {y} \cup Nodes(t, t.right[y]) \cup Nodes(t, t.left[y])
        BY <3>1, NodesSplit
      <4> QED
        BY <4>1, <4>2, LayoutAssumption
    <3>4. Mergeable(t, x, t.left[y])
      <4>1. t.left[y] \in Nodes(t, y) \cup {Nil}
        BY <3>1, <3>3, NodesLinked DEF Linked
      <4>2. Sorted(priority, t, t.left[y])
        BY <2>2, <4>1, SortedBelow DEF Mergeable
      <4> QED
        BY <2>2, <3>3, <4>2 DEF Mergeable
    <3>5. Merged(t, x, t.left[y], s)
      <4>1. <<x, t.left[y]>> \in D /\ rank[<<x, t.left[y]>>] < rank[p]
        BY <1>1, <2>1, <3>1
      <4> QED
        BY <1>4, <3>4, <4>1
    <3> HIDE DEF s, m
    <3>6. InOrder(priority, t, y) /\ \A a \in Nodes(t, x), b \in Nodes(t, y) : a < b
      BY <2>2, <3>3 DEF Mergeable, Sorted
    <3>7. \A z \in Nodes(s, s.top) : z < y
      BY <3>3, <3>5, <3>6 DEF InOrder, Merged
    <3>8. s.top # Nil => priority[y] < priority[s.top]
      <4>1. priority[y] < priority[x]
        <5>1. x # y
          BY <3>1, <3>3, <3>6, NodesLinked, NilAssumption
        <5> QED
          BY <1>1, <2>6, <3>1, <5>1 DEF Priorities
      <4> QED
        BY <3>5, <3>6, <4>1 DEF InOrder, Merged
    <3>9. Same(t, s, {y} \cup Nodes(t, t.right[y]))
      <4>1. \A z \in {y} \cup Nodes(t, t.right[y]) : z \in Nat /\ ~ (z < y)
        BY <3>3, <3>6 DEF InOrder
      <4>2. \A z \in {y} \cup Nodes(t, t.right[y]) :
              z \in Block \ (Nodes(t, t.left[y]) \cup Nodes(t, x))
        BY <3>1, <3>3, <3>5, <3>7, <4>1 DEF Merged
      <4> QED
        BY <3>5, <4>2 DEF Same, Merged
    <3>10. /\ Nodes(m, y) = {y} \cup Nodes(s, s.top) \cup Nodes(t, t.right[y])
           /\ Sorted(priority, m, y) /\ Same(s, m, Block \ {y})
      <4>1. s \in Trees /\ Sorted(priority, s, s.top) /\ Sorted(priority, t, y)
        BY <2>2, <3>5 DEF Merged, Mergeable
      <4>2. FitsLeft(priority, t, s, y)
        BY <3>7, <3>8, <3>9, <4>1 DEF FitsLeft
      <4>3. /\ Nodes(Ranges!HungLeft(s, y), y) =
                 {y} \cup Nodes(s, s.top) \cup Nodes(t, t.right[y])
            /\ Sorted(priority, Ranges!HungLeft(s, y), y)
            /\ Same(s, Ranges!HungLeft(s, y), Block \ {y})
        BY <3>1, <4>2, HungLeftSorted
      <4> QED
        BY <3>2, <4>3
    <3>11. m \in Trees /\ m.top = y
      BY <3>1, <3>2, <3>5, HungTrees DEF Merged, Ranges!HungLeft
    <3>12. Same(t, m, Block \ (Nodes(t, x) \cup Nodes(t, y)))
      BY <3>3, <3>5, <3>10 DEF Same, Merged
    <3>13. Nodes(m, y) = Nodes(t, x) \cup Nodes(t, y)
      BY <3>3, <3>5, <3>10 DEF Merged
    <3> QED
      BY <3>10, <3>11, <3>12, <3>13 DEF Merged, m
  <2> QED
    BY <2>3, <2>4, <2>5, <2>6
<1>5. D \subseteq S
  <2> HIDE DEF D, rank, S
  <2> QED
    BY <1>3, <1>4, RankInduction
<1>6. <<l, r>> \in S
  BY <1>5
<1> QED
  BY <1>6

(* Insertion and removal unfold. *)

InsertStep(t, b, f, n) ==
  IF n = Nil THEN [t EXCEPT !.top = b]
  ELSE IF b < n
  THEN LET s == f[t.left[n]]
       IN  IF priority[s.top] < priority[n] THEN Ranges!TurnedRight(s, n) ELSE Ranges!HungLeft(s, n)
  ELSE LET s == f[t.right[n]]
       IN  IF priority[s.top] < priority[n] THEN Ranges!TurnedLeft(s, n) ELSE Ranges!HungRight(s, n)

\* A rotation makes a tree of a tree.
LEMMA TurnedTrees ==
  ASSUME NEW s \in Trees, NEW n \in Block, s.top \in Block
  PROVE  Ranges!TurnedLeft(s, n) \in Trees /\ Ranges!TurnedRight(s, n) \in Trees
<1>1. n \in Links
  BY DEF Links, Ranges!Links
<1> QED
  BY <1>1 DEF Trees, Ranges!TurnedLeft, Ranges!TurnedRight

\* Insertion is well defined, since it goes down.
LEMMA InsertUnfolds ==
  ASSUME priority \in Priorities, NEW t \in Trees, Downwards(priority, t), NEW b \in Block
  PROVE  \E f : /\ Ranges!RangeInsert(t, b) = f[t.top]
                /\ \A n \in Links : f[n] = InsertStep(t, b, f, n)
<1> DEFINE V == {s \in Trees : s.top \in Block}
           h == Height(priority)
           F == [n \in Links |-> [g \in [Links -> V] |-> InsertStep(t, b, g, n)]]
<1>1. /\ h \in [Links -> Nat] /\ \A x \in Links : h[x] <= Cardinality(Block)
      /\ \A x \in Block : h[t.left[x]] < h[x] /\ h[t.right[x]] < h[x]
  BY HeightFalls
<1>2. Cardinality(Block) \in Nat
  BY LayoutAssumption, FS_CardinalityType
<1>3. \A x \in Links : x # Nil => x \in Block /\ t.left[x] \in Links /\ t.right[x] \in Links
  BY DEF Trees, Links, Ranges!Links
<1> HIDE DEF h
<1>4. [t EXCEPT !.top = b] \in V
  BY DEF Trees, Links, Ranges!Links
<1>5. ASSUME NEW n \in Links, NEW g \in [Links -> V] PROVE InsertStep(t, b, g, n) \in V
  <2>1. CASE n = Nil
    BY <1>4, <2>1 DEF InsertStep
  <2>2. CASE n # Nil
    <3>1. n \in Block /\ g[t.left[n]] \in V /\ g[t.right[n]] \in V
      BY <1>3, <2>2
    <3>2. \A s \in V : /\ Ranges!TurnedLeft(s, n) \in V /\ Ranges!TurnedRight(s, n) \in V
                       /\ Ranges!HungLeft(s, n) \in V /\ Ranges!HungRight(s, n) \in V
      BY <3>1, TurnedTrees, HungTrees
        DEF Ranges!TurnedLeft, Ranges!TurnedRight, Ranges!HungLeft, Ranges!HungRight
    <3> QED
      BY <2>2, <3>1, <3>2 DEF InsertStep
  <2> QED
    BY <2>1, <2>2
<1>6. ASSUME NEW n \in Links, NEW g \in [Links -> V], NEW k \in [Links -> V],
             \A x \in Links : h[x] < h[n] => g[x] = k[x]
      PROVE  InsertStep(t, b, g, n) = InsertStep(t, b, k, n)
  <2>1. CASE n = Nil
    BY <2>1 DEF InsertStep
  <2>2. CASE n # Nil
    <3>1. g[t.left[n]] = k[t.left[n]] /\ g[t.right[n]] = k[t.right[n]]
      BY <1>1, <1>3, <1>6, <2>2
    <3> QED
      BY <2>2, <3>1 DEF InsertStep
  <2> QED
    BY <2>1, <2>2
<1>7. Determined(Links, V, h, F)
  <2>1. F \in [Links -> [[Links -> V] -> V]]
    BY <1>5
  <2>2. \A n \in Links : \A g \in [Links -> V] : F[n][g] = InsertStep(t, b, g, n)
    OBVIOUS
  <2>3. ASSUME NEW n \in Links, NEW g \in [Links -> V], NEW k \in [Links -> V],
               \A x \in Links : h[x] < h[n] => g[x] = k[x]
        PROVE  F[n][g] = F[n][k]
    <3>1. InsertStep(t, b, g, n) = InsertStep(t, b, k, n)
      BY <1>6, <2>3
    <3> QED
      BY <2>2, <3>1
  <2> HIDE DEF V, F
  <2> QED
    BY <2>1, <2>3 DEF Determined
<1> DEFINE Def(f) == f = [n \in Links |-> InsertStep(t, b, f, n)]
           insert == CHOOSE f : Def(f)
<1>8. Def(insert)
  <2>1. \E f \in [Links -> V] : \A n \in Links : f[n] = F[n][f]
    <3> HIDE DEF F, V
    <3> QED
      BY <1>1, <1>2, <1>4, <1>7, Recursion
  <2>2. PICK f \in [Links -> V] : \A n \in Links : f[n] = F[n][f]
    BY <2>1
  <2>3. \A n \in Links : f[n] = InsertStep(t, b, f, n)
    BY <2>2
  <2>4. f = [n \in Links |-> f[n]]
    OBVIOUS
  <2>5. Def(f)
    BY <2>3, <2>4
  <2> HIDE DEF Def
  <2> QED
    BY <2>5, Zenon
<1>9. Ranges!RangeInsert(t, b) = insert[t.top]
  BY DEF Ranges!RangeInsert, InsertStep, Links
<1> HIDE DEF insert
<1>10. \A n \in Links : insert[n] = InsertStep(t, b, insert, n)
  BY <1>8
<1> QED
  BY <1>9, <1>10

RemoveStep(t, b, f, n) ==
  IF n = Nil THEN [t EXCEPT !.top = Nil]
  ELSE IF n = b THEN Ranges!RangeMerge(t, t.left[n], t.right[n])
  ELSE IF b < n THEN Ranges!HungLeft(f[t.left[n]], n)
  ELSE Ranges!HungRight(f[t.right[n]], n)

\* Removal is well defined, since it goes down.
LEMMA RemoveUnfolds ==
  ASSUME priority \in Priorities, NEW t \in Trees, Downwards(priority, t), NEW b \in Block,
         Ranges!RangeMerge(t, t.left[b], t.right[b]) \in Trees
  PROVE  \E f : /\ Ranges!RangeRemove(t, b) = f[t.top]
                /\ \A n \in Links : f[n] = RemoveStep(t, b, f, n)
<1> DEFINE h == Height(priority)
           F == [n \in Links |-> [g \in [Links -> Trees] |-> RemoveStep(t, b, g, n)]]
<1>1. /\ h \in [Links -> Nat] /\ \A x \in Links : h[x] <= Cardinality(Block)
      /\ \A x \in Block : h[t.left[x]] < h[x] /\ h[t.right[x]] < h[x]
  BY HeightFalls
<1>2. Cardinality(Block) \in Nat
  BY LayoutAssumption, FS_CardinalityType
<1>3. \A x \in Links : x # Nil => x \in Block /\ t.left[x] \in Links /\ t.right[x] \in Links
  BY DEF Trees, Links, Ranges!Links
<1> HIDE DEF h
<1>4. [t EXCEPT !.top = Nil] \in Trees
  BY DEF Trees, Links, Ranges!Links
<1>5. ASSUME NEW n \in Links, NEW g \in [Links -> Trees] PROVE RemoveStep(t, b, g, n) \in Trees
  <2>1. CASE n = Nil
    BY <1>4, <2>1 DEF RemoveStep
  <2>2. CASE n # Nil
    <3>1. n \in Block /\ g[t.left[n]] \in Trees /\ g[t.right[n]] \in Trees
      BY <1>3, <2>2
    <3>2. Ranges!HungLeft(g[t.left[n]], n) \in Trees /\ Ranges!HungRight(g[t.right[n]], n) \in Trees
      BY <3>1, HungTrees
    <3> QED
      BY <2>2, <3>2 DEF RemoveStep
  <2> QED
    BY <2>1, <2>2
<1>6. ASSUME NEW n \in Links, NEW g \in [Links -> Trees], NEW k \in [Links -> Trees],
             \A x \in Links : h[x] < h[n] => g[x] = k[x]
      PROVE  RemoveStep(t, b, g, n) = RemoveStep(t, b, k, n)
  <2>1. CASE n = Nil
    BY <2>1 DEF RemoveStep
  <2>2. CASE n # Nil
    <3>1. g[t.left[n]] = k[t.left[n]] /\ g[t.right[n]] = k[t.right[n]]
      BY <1>1, <1>3, <1>6, <2>2
    <3> QED
      BY <2>2, <3>1 DEF RemoveStep
  <2> QED
    BY <2>1, <2>2
<1>7. Determined(Links, Trees, h, F)
  <2>1. F \in [Links -> [[Links -> Trees] -> Trees]]
    BY <1>5
  <2>2. \A n \in Links : \A g \in [Links -> Trees] : F[n][g] = RemoveStep(t, b, g, n)
    OBVIOUS
  <2>3. ASSUME NEW n \in Links, NEW g \in [Links -> Trees], NEW k \in [Links -> Trees],
               \A x \in Links : h[x] < h[n] => g[x] = k[x]
        PROVE  F[n][g] = F[n][k]
    <3>1. RemoveStep(t, b, g, n) = RemoveStep(t, b, k, n)
      BY <1>6, <2>3
    <3> QED
      BY <2>2, <3>1
  <2> HIDE DEF F
  <2> QED
    BY <2>1, <2>3 DEF Determined
<1> DEFINE Def(f) == f = [n \in Links |-> RemoveStep(t, b, f, n)]
           remove == CHOOSE f : Def(f)
<1>8. Def(remove)
  <2>1. \E f \in [Links -> Trees] : \A n \in Links : f[n] = F[n][f]
    <3> HIDE DEF F
    <3> QED
      BY <1>1, <1>2, <1>4, <1>7, Recursion
  <2>2. PICK f \in [Links -> Trees] : \A n \in Links : f[n] = F[n][f]
    BY <2>1
  <2>3. \A n \in Links : f[n] = RemoveStep(t, b, f, n)
    BY <2>2
  <2>4. f = [n \in Links |-> f[n]]
    OBVIOUS
  <2>5. Def(f)
    BY <2>3, <2>4
  <2> HIDE DEF Def
  <2> QED
    BY <2>5, Zenon
<1>9. Ranges!RangeRemove(t, b) = remove[t.top]
  BY DEF Ranges!RangeRemove, RemoveStep, Links
<1> HIDE DEF remove
<1>10. \A n \in Links : remove[n] = RemoveStep(t, b, remove, n)
  BY <1>8
<1> QED
  BY <1>9, <1>10

(* A rotation. *)

\* The top of s can go above n, which takes the right child of that top.
TurnsRight(h, t, s, n) ==
  /\ s \in Trees /\ s.top \in Block /\ Sorted(h, t, n) /\ Sorted(h, s, s.top)
  /\ Same(t, s, {n} \cup Nodes(t, t.right[n]))
  /\ \A x \in Nodes(s, s.top) : x < n
  /\ h[s.top] < h[n]
  /\ s.right[s.top] # Nil => h[n] < h[s.right[s.top]]

\* The right rotation: n goes below the top of what was its left subtree.
LEMMA TurnedRightSorted ==
  ASSUME NEW h \in [Block -> Nat], NEW t \in Trees, NEW s, NEW n \in Block,
         TurnsRight(h, t, s, n)
  PROVE  /\ Nodes(Ranges!TurnedRight(s, n), s.top) =
              Nodes(s, s.top) \cup {n} \cup Nodes(t, t.right[n])
         /\ Sorted(h, Ranges!TurnedRight(s, n), s.top)
         /\ Same(s, Ranges!TurnedRight(s, n), Block \ {n, s.top})
<1> USE DEF TurnsRight
<1> DEFINE u == Ranges!TurnedRight(s, n)
           c == s.top
           A == Nodes(s, s.left[c])
           B == Nodes(s, s.right[c])
           R == Nodes(t, t.right[n])
<1>1. /\ n \in Links /\ c \in Links /\ n # Nil /\ c # Nil
      /\ s.left[c] \in Links /\ s.right[c] \in Links /\ t.right[n] \in Links
  BY NilAssumption DEF Trees, Links, Ranges!Links
<1>2. Nodes(s, c) = {c} \cup A \cup B /\ Nodes(t, n) = {n} \cup Nodes(t, t.left[n]) \cup R
  BY NodesSplit
<1>3. /\ Nodes(s, c) \in SUBSET Block /\ A \in SUBSET Block /\ B \in SUBSET Block
      /\ R \in SUBSET Block
  BY <1>1, NodesLinked
<1>4. InOrder(h, t, n) /\ InOrder(h, s, c)
  BY <1>2 DEF Sorted
<1>5. n \in Nat /\ c \in Nat /\ A \subseteq Nat /\ B \subseteq Nat /\ R \subseteq Nat
  BY <1>3, LayoutAssumption
<1>6. /\ c < n /\ (\A x \in A : x < c) /\ (\A x \in B : c < x /\ x < n) /\ (\A x \in R : n < x)
  BY <1>2, <1>4 DEF InOrder
<1>7. u \in Trees
  BY TurnedTrees
<1>8. c # n
  BY <1>5, <1>6
<1>9. /\ u.left[n] = s.right[c] /\ u.right[n] = t.right[n]
      /\ u.left[c] = s.left[c] /\ u.right[c] = n
      /\ Same(s, u, Block \ {n, c})
  BY <1>8 DEF Ranges!TurnedRight, Same, Trees
<1> HIDE DEF u, c, A, B, R
<1>10. Same(s, u, A) /\ Same(s, u, B)
  <2>1. n \notin A /\ n \notin B /\ c \notin A /\ c \notin B
    BY <1>5, <1>6
  <2> QED
    BY <1>3, <1>9, <2>1 DEF Same
<1>11. Same(t, u, R)
  <2>1. n \notin R /\ c \notin R
    BY <1>5, <1>6
  <2> QED
    BY <1>3, <1>9, <2>1 DEF Same, R
<1>12. Sorted(h, s, s.left[c]) /\ Sorted(h, s, s.right[c])
  <2>1. s.left[c] \in Nodes(s, c) \cup {Nil} /\ s.right[c] \in Nodes(s, c) \cup {Nil}
    BY <1>1, <1>2, NodesLinked DEF Linked
  <2> QED
    BY <1>1, <2>1, SortedBelow DEF c
<1>13. Sorted(h, t, t.right[n])
  <2>1. t.right[n] \in Nodes(t, n) \cup {Nil}
    BY <1>1, <1>2, NodesLinked DEF Linked
  <2> QED
    BY <1>1, <2>1, SortedBelow
<1>14. Nodes(u, s.left[c]) = A /\ Sorted(h, u, s.left[c])
  BY <1>1, <1>7, <1>10, <1>12, SortedSame DEF A
<1>15. Nodes(u, s.right[c]) = B /\ Sorted(h, u, s.right[c])
  BY <1>1, <1>7, <1>10, <1>12, SortedSame DEF B
<1>16. Nodes(u, t.right[n]) = R /\ Sorted(h, u, t.right[n])
  BY <1>1, <1>7, <1>11, <1>13, SortedSame DEF R
<1>17. InOrder(h, u, n)
  BY <1>4, <1>6, <1>9, <1>15, <1>16 DEF InOrder, c
<1>18. Nodes(u, n) = {n} \cup B \cup R /\ Sorted(h, u, n)
  BY <1>7, <1>9, <1>15, <1>16, <1>17, NodesSplit, SortedJoin
<1>19. InOrder(h, u, c)
  <2>1. ASSUME NEW x \in Nodes(u, n) PROVE c < x
    <3>1. x = n \/ x \in B \/ x \in R
      BY <1>18
    <3>2. CASE x \in R
      <4>1. x \in Nat /\ n \in Nat /\ c \in Nat
        BY <1>5, <3>2
      <4> QED
        BY <1>6, <3>2, <4>1
    <3> QED
      BY <1>6, <3>1, <3>2
  <2> QED
    BY <1>4, <1>6, <1>9, <1>14, <2>1 DEF InOrder, c
<1>20. c \in Block
  BY DEF c
<1>21. Nodes(u, c) = {c} \cup Nodes(u, u.left[c]) \cup Nodes(u, u.right[c])
  BY <1>7, <1>20, NodesSplit
<1>22. Sorted(h, u, c)
  BY <1>7, <1>9, <1>14, <1>18, <1>19, <1>20, SortedJoin
<1>23. Nodes(u, c) = Nodes(s, c) \cup {n} \cup R
  BY <1>2, <1>9, <1>14, <1>18, <1>21
<1> QED
  BY <1>9, <1>22, <1>23 DEF u, c, R

\* The top of s can go above n, which takes the left child of that top.
TurnsLeft(h, t, s, n) ==
  /\ s \in Trees /\ s.top \in Block /\ Sorted(h, t, n) /\ Sorted(h, s, s.top)
  /\ Same(t, s, {n} \cup Nodes(t, t.left[n]))
  /\ \A x \in Nodes(s, s.top) : n < x
  /\ h[s.top] < h[n]
  /\ s.left[s.top] # Nil => h[n] < h[s.left[s.top]]

\* The left rotation: n goes below the top of what was its right subtree.
LEMMA TurnedLeftSorted ==
  ASSUME NEW h \in [Block -> Nat], NEW t \in Trees, NEW s, NEW n \in Block,
         TurnsLeft(h, t, s, n)
  PROVE  /\ Nodes(Ranges!TurnedLeft(s, n), s.top) =
              Nodes(s, s.top) \cup {n} \cup Nodes(t, t.left[n])
         /\ Sorted(h, Ranges!TurnedLeft(s, n), s.top)
         /\ Same(s, Ranges!TurnedLeft(s, n), Block \ {n, s.top})
<1> USE DEF TurnsLeft
<1> DEFINE u == Ranges!TurnedLeft(s, n)
           c == s.top
           A == Nodes(s, s.right[c])
           B == Nodes(s, s.left[c])
           R == Nodes(t, t.left[n])
<1>1. /\ n \in Links /\ c \in Links /\ n # Nil /\ c # Nil
      /\ s.right[c] \in Links /\ s.left[c] \in Links /\ t.left[n] \in Links
  BY NilAssumption DEF Trees, Links, Ranges!Links
<1>2. Nodes(s, c) = {c} \cup A \cup B /\ Nodes(t, n) = {n} \cup Nodes(t, t.right[n]) \cup R
  BY NodesSplit
<1>3. /\ Nodes(s, c) \in SUBSET Block /\ A \in SUBSET Block /\ B \in SUBSET Block
      /\ R \in SUBSET Block
  BY <1>1, NodesLinked
<1>4. InOrder(h, t, n) /\ InOrder(h, s, c)
  BY <1>2 DEF Sorted
<1>5. n \in Nat /\ c \in Nat /\ A \subseteq Nat /\ B \subseteq Nat /\ R \subseteq Nat
  BY <1>3, LayoutAssumption
<1>6. /\ n < c /\ (\A x \in A : c < x) /\ (\A x \in B : x < c /\ n < x) /\ (\A x \in R : x < n)
  BY <1>2, <1>4 DEF InOrder
<1>7. u \in Trees
  BY TurnedTrees
<1>8. c # n
  BY <1>5, <1>6
<1>9. /\ u.right[n] = s.left[c] /\ u.left[n] = t.left[n]
      /\ u.right[c] = s.right[c] /\ u.left[c] = n
      /\ Same(s, u, Block \ {n, c})
  BY <1>8 DEF Ranges!TurnedLeft, Same, Trees
<1> HIDE DEF u, c, A, B, R
<1>10. Same(s, u, A) /\ Same(s, u, B)
  <2>1. n \notin A /\ n \notin B /\ c \notin A /\ c \notin B
    BY <1>5, <1>6
  <2> QED
    BY <1>3, <1>9, <2>1 DEF Same
<1>11. Same(t, u, R)
  <2>1. n \notin R /\ c \notin R
    BY <1>5, <1>6
  <2> QED
    BY <1>3, <1>9, <2>1 DEF Same, R
<1>12. Sorted(h, s, s.right[c]) /\ Sorted(h, s, s.left[c])
  <2>1. s.right[c] \in Nodes(s, c) \cup {Nil} /\ s.left[c] \in Nodes(s, c) \cup {Nil}
    BY <1>1, <1>2, NodesLinked DEF Linked
  <2> QED
    BY <1>1, <2>1, SortedBelow DEF c
<1>13. Sorted(h, t, t.left[n])
  <2>1. t.left[n] \in Nodes(t, n) \cup {Nil}
    BY <1>1, <1>2, NodesLinked DEF Linked
  <2> QED
    BY <1>1, <2>1, SortedBelow
<1>14. Nodes(u, s.right[c]) = A /\ Sorted(h, u, s.right[c])
  BY <1>1, <1>7, <1>10, <1>12, SortedSame DEF A
<1>15. Nodes(u, s.left[c]) = B /\ Sorted(h, u, s.left[c])
  BY <1>1, <1>7, <1>10, <1>12, SortedSame DEF B
<1>16. Nodes(u, t.left[n]) = R /\ Sorted(h, u, t.left[n])
  BY <1>1, <1>7, <1>11, <1>13, SortedSame DEF R
<1>17. InOrder(h, u, n)
  BY <1>4, <1>6, <1>9, <1>15, <1>16 DEF InOrder, c
<1>18. Nodes(u, n) = {n} \cup B \cup R /\ Sorted(h, u, n)
  BY <1>7, <1>9, <1>15, <1>16, <1>17, NodesSplit, SortedJoin
<1>19. InOrder(h, u, c)
  <2>1. ASSUME NEW x \in Nodes(u, n) PROVE x < c
    <3>1. x = n \/ x \in B \/ x \in R
      BY <1>18
    <3>2. CASE x \in R
      <4>1. x \in Nat /\ n \in Nat /\ c \in Nat
        BY <1>5, <3>2
      <4> QED
        BY <1>6, <3>2, <4>1
    <3> QED
      BY <1>6, <3>1, <3>2
  <2> QED
    BY <1>4, <1>6, <1>9, <1>14, <2>1 DEF InOrder, c
<1>20. c \in Block
  BY DEF c
<1>21. Nodes(u, c) = {c} \cup Nodes(u, u.right[c]) \cup Nodes(u, u.left[c])
  BY <1>7, <1>20, NodesSplit
<1>22. Sorted(h, u, c)
  BY <1>7, <1>9, <1>14, <1>18, <1>19, <1>20, SortedJoin
<1>23. Nodes(u, c) = Nodes(s, c) \cup {n} \cup R
  BY <1>2, <1>9, <1>14, <1>18, <1>21
<1> QED
  BY <1>9, <1>22, <1>23 DEF u, c, R


(* Insertion. *)

\* s is what the subtree of t at n becomes when b is inserted.
Inserted(t, n, b, s) ==
  /\ s \in Trees /\ s.top \in Block /\ s.top \in {n, b}
  /\ Nodes(s, s.top) = Nodes(t, n) \cup {b}
  /\ Sorted(priority, s, s.top)
  /\ Same(t, s, Block \ (Nodes(t, n) \cup {b}))

\* yc_range_insert: a sorted tree of one block more, and no link elsewhere changed.
LEMMA InsertRight ==
  ASSUME priority \in Priorities, NEW t \in Trees, Downwards(priority, t), NEW b \in Block,
         Sorted(priority, t, t.top), b \notin Nodes(t, t.top),
         t.left[b] = Nil, t.right[b] = Nil
  PROVE  Inserted(t, t.top, b, Ranges!RangeInsert(t, b))
<1> DEFINE h == Height(priority)
<1>1. /\ h \in [Links -> Nat] /\ priority \in [Block -> Nat]
      /\ \A x \in Block : h[t.left[x]] < h[x] /\ h[t.right[x]] < h[x]
  BY HeightFalls
<1> HIDE DEF h
<1>2. PICK f : /\ Ranges!RangeInsert(t, b) = f[t.top]
               /\ \A n \in Links : f[n] = InsertStep(t, b, f, n)
  BY InsertUnfolds
<1>3. \A x \in Links : x # Nil => x \in Block /\ t.left[x] \in Links /\ t.right[x] \in Links
  BY DEF Trees, Links, Ranges!Links
<1> DEFINE Right(n) == b \notin Nodes(t, n) /\ Sorted(priority, t, n) => Inserted(t, n, b, f[n])
<1> DEFINE S == {n \in Links : Right(n)}
<1>4. ASSUME NEW n \in Links, \A x \in Links : h[x] < h[n] => x \in S PROVE n \in S
  <2> SUFFICES ASSUME b \notin Nodes(t, n), Sorted(priority, t, n) PROVE Inserted(t, n, b, f[n])
    OBVIOUS
  <2>1. CASE n = Nil
    <3>1. f[n] = [t EXCEPT !.top = b] /\ Nodes(t, n) = {}
      BY <1>2, <2>1, NodesNil DEF InsertStep
    <3>2. Nodes(t, b) = {b}
      BY NodesNil, NodesSplit
    <3>3. Sorted(priority, t, b) /\ b \in Links
      BY <3>2, NodesNil DEF Sorted, InOrder, Links, Ranges!Links
    <3>4. /\ f[n] \in Trees /\ f[n].top = b /\ Nodes(f[n], b) = Nodes(t, b)
          /\ Sorted(priority, f[n], b) /\ Same(t, f[n], Block)
      BY <3>1, <3>3, Retopped
    <3> QED
      BY <3>1, <3>2, <3>4 DEF Inserted, Same
  <2>2. CASE n # Nil /\ b < n
    <3> DEFINE s == f[t.left[n]]
    <3>1. n \in Block /\ t.left[n] \in Links /\ t.right[n] \in Links
      BY <1>3, <2>2
    <3>2. /\ Nodes(t, n) = {n} \cup Nodes(t, t.left[n]) \cup Nodes(t, t.right[n])
          /\ Nodes(t, n) \in SUBSET Block /\ Linked(t, Nodes(t, n))
      BY <3>1, NodesSplit, NodesLinked
    <3>3. InOrder(priority, t, n) /\ Sorted(priority, t, t.left[n])
      BY <3>1, <3>2, SortedBelow DEF Sorted, Linked
    <3>4. Inserted(t, t.left[n], b, s)
      <4>1. b \notin Nodes(t, t.left[n]) /\ h[t.left[n]] < h[n]
        BY <1>1, <3>1, <3>2
      <4> QED
        BY <1>4, <3>1, <3>3, <4>1
    <3>5. f[n] = IF priority[s.top] < priority[n] THEN Ranges!TurnedRight(s, n)
                 ELSE Ranges!HungLeft(s, n)
      BY <1>2, <2>2 DEF InsertStep
    <3> HIDE DEF s
    <3>6. /\ s \in Trees /\ s.top \in Block /\ s.top \in {t.left[n], b}
          /\ Nodes(s, s.top) = Nodes(t, t.left[n]) \cup {b} /\ Sorted(priority, s, s.top)
          /\ Same(t, s, Block \ (Nodes(t, t.left[n]) \cup {b}))
      BY <3>4 DEF Inserted
    <3>7. /\ n \in Nat /\ b \in Nat /\ Nodes(t, t.right[n]) \subseteq Nat
          /\ \A x \in Nodes(s, s.top) : x < n
      BY <2>2, <3>1, <3>2, <3>3, <3>6, LayoutAssumption DEF InOrder
    <3>8. Same(t, s, {n} \cup Nodes(t, t.right[n]))
      <4>1. \A x \in {n} \cup Nodes(t, t.right[n]) : x \in Nat /\ ~ (x < n)
        BY <3>3, <3>7 DEF InOrder
      <4>2. \A x \in {n} \cup Nodes(t, t.right[n]) : x \in Block \ (Nodes(t, t.left[n]) \cup {b})
        BY <3>1, <3>2, <3>6, <3>7, <4>1
      <4> QED
        BY <3>6, <4>2 DEF Same
    <3>9. CASE ~ (priority[s.top] < priority[n])
      <4>1. f[n] = Ranges!HungLeft(s, n)
        BY <3>5, <3>9
      <4>2. s.top # n
        <5>1. s.top \in Nodes(s, s.top)
          BY <3>6, NodesLinked, NilAssumption DEF Links, Ranges!Links
        <5> QED
          BY <3>7, <5>1
      <4>3. priority[n] < priority[s.top]
        <5>1. priority[n] # priority[s.top]
          BY <3>1, <3>6, <4>2 DEF Priorities
        <5> QED
          BY <1>1, <3>1, <3>6, <3>9, <5>1
      <4>4. /\ Nodes(f[n], n) = {n} \cup Nodes(s, s.top) \cup Nodes(t, t.right[n])
            /\ Sorted(priority, f[n], n) /\ Same(s, f[n], Block \ {n})
        <5>1. s \in Trees /\ Sorted(priority, s, s.top)
          BY <3>6
        <5>2. FitsLeft(priority, t, s, n)
          BY <3>7, <3>8, <4>3, <5>1 DEF FitsLeft
        <5> QED
          BY <3>1, <4>1, <5>2, HungLeftSorted
      <4>5. f[n] \in Trees /\ f[n].top = n
        BY <3>1, <3>6, <4>1, HungTrees DEF Ranges!HungLeft
      <4>6. Same(t, f[n], Block \ (Nodes(t, n) \cup {b}))
        BY <3>2, <3>6, <4>4 DEF Same
      <4> QED
        BY <3>1, <3>2, <3>6, <4>4, <4>5, <4>6 DEF Inserted
    <3>10. CASE priority[s.top] < priority[n]
      <4>1. f[n] = Ranges!TurnedRight(s, n)
        BY <3>5, <3>10
      <4>2. s.top = b
        <5>1. SUFFICES ASSUME s.top # b PROVE FALSE
          OBVIOUS
        <5>2. s.top = t.left[n] /\ t.left[n] # Nil
          BY <3>6, <5>1, NilAssumption
        <5>3. priority[n] < priority[s.top]
          BY <3>3, <5>2 DEF InOrder
        <5> QED
          BY <1>1, <3>1, <3>6, <3>10, <5>3
      <4>3. s.right[b] # Nil => priority[n] < priority[s.right[b]]
        <5>1. SUFFICES ASSUME s.right[b] # Nil PROVE priority[n] < priority[s.right[b]]
          OBVIOUS
        <5>2. s.right[b] \in Nodes(s, s.right[b]) /\ s.right[b] \in Links
          BY <3>6, <5>1, NodesLinked DEF Trees
        <5>3. s.right[b] \in Nodes(s, b) \ {b}
          BY <1>1, <3>6, <4>2, <5>2, NodesSplit, TopLeast
        <5>4. s.right[b] \in Nodes(t, t.left[n])
          BY <3>6, <4>2, <5>3
        <5> QED
          BY <1>1, <3>1, <5>4, TopLeast
      <4>4. /\ Nodes(f[n], b) = Nodes(s, b) \cup {n} \cup Nodes(t, t.right[n])
            /\ Sorted(priority, f[n], b) /\ Same(s, f[n], Block \ {n, b})
        <5>1. s \in Trees /\ s.top \in Block /\ Sorted(priority, s, s.top)
          BY <3>6
        <5>2. s.right[s.top] # Nil => priority[n] < priority[s.right[s.top]]
          BY <4>2, <4>3
        <5>3. TurnsRight(priority, t, s, n)
          BY <3>7, <3>8, <3>10, <5>1, <5>2 DEF TurnsRight
        <5>4. /\ Nodes(f[n], s.top) = Nodes(s, s.top) \cup {n} \cup Nodes(t, t.right[n])
              /\ Sorted(priority, f[n], s.top) /\ Same(s, f[n], Block \ {n, s.top})
          BY <1>1, <3>1, <4>1, <5>3, TurnedRightSorted
        <5> QED
          BY <4>2, <5>4
      <4>5. f[n] \in Trees /\ f[n].top = b
        BY <3>1, <3>6, <4>1, <4>2, TurnedTrees DEF Ranges!TurnedRight
      <4>6. Same(t, f[n], Block \ (Nodes(t, n) \cup {b}))
        BY <3>2, <3>6, <4>4 DEF Same
      <4> QED
        BY <3>1, <3>2, <3>6, <4>2, <4>4, <4>5, <4>6 DEF Inserted
    <3> QED
      BY <3>9, <3>10
  <2>3. CASE n # Nil /\ ~ (b < n)
    <3> DEFINE s == f[t.right[n]]
    <3>1. n \in Block /\ t.right[n] \in Links /\ t.left[n] \in Links
      BY <1>3, <2>3
    <3>2. /\ Nodes(t, n) = {n} \cup Nodes(t, t.left[n]) \cup Nodes(t, t.right[n])
          /\ Nodes(t, n) \in SUBSET Block /\ Linked(t, Nodes(t, n))
      BY <3>1, NodesSplit, NodesLinked
    <3>3. InOrder(priority, t, n) /\ Sorted(priority, t, t.right[n])
      BY <3>1, <3>2, SortedBelow DEF Sorted, Linked
    <3>4. Inserted(t, t.right[n], b, s)
      <4>1. b \notin Nodes(t, t.right[n]) /\ h[t.right[n]] < h[n]
        BY <1>1, <3>1, <3>2
      <4> QED
        BY <1>4, <3>1, <3>3, <4>1
    <3>5. f[n] = IF priority[s.top] < priority[n] THEN Ranges!TurnedLeft(s, n)
                 ELSE Ranges!HungRight(s, n)
      BY <1>2, <2>3 DEF InsertStep
    <3> HIDE DEF s
    <3>6. /\ s \in Trees /\ s.top \in Block /\ s.top \in {t.right[n], b}
          /\ Nodes(s, s.top) = Nodes(t, t.right[n]) \cup {b} /\ Sorted(priority, s, s.top)
          /\ Same(t, s, Block \ (Nodes(t, t.right[n]) \cup {b}))
      BY <3>4 DEF Inserted
    <3>7. /\ n \in Nat /\ b \in Nat /\ Nodes(t, t.left[n]) \subseteq Nat
          /\ \A x \in Nodes(s, s.top) : n < x
      <4>1. n \in Nat /\ b \in Nat /\ Nodes(t, t.left[n]) \subseteq Nat
        BY <3>1, <3>2, LayoutAssumption
      <4>2. b # n
        BY <3>2
      <4>3. n < b
        BY <2>3, <4>1, <4>2
      <4> QED
        BY <3>3, <3>6, <4>1, <4>3 DEF InOrder
    <3>8. Same(t, s, {n} \cup Nodes(t, t.left[n]))
      <4>1. \A x \in {n} \cup Nodes(t, t.left[n]) : x \in Nat /\ ~ (n < x)
        BY <3>3, <3>7 DEF InOrder
      <4>2. \A x \in {n} \cup Nodes(t, t.left[n]) : x \in Block \ (Nodes(t, t.right[n]) \cup {b})
        BY <3>1, <3>2, <3>6, <3>7, <4>1
      <4> QED
        BY <3>6, <4>2 DEF Same
    <3>9. CASE ~ (priority[s.top] < priority[n])
      <4>1. f[n] = Ranges!HungRight(s, n)
        BY <3>5, <3>9
      <4>2. s.top # n
        <5>1. s.top \in Nodes(s, s.top)
          BY <3>6, NodesLinked, NilAssumption DEF Links, Ranges!Links
        <5> QED
          BY <3>7, <5>1
      <4>3. priority[n] < priority[s.top]
        <5>1. priority[n] # priority[s.top]
          BY <3>1, <3>6, <4>2 DEF Priorities
        <5> QED
          BY <1>1, <3>1, <3>6, <3>9, <5>1
      <4>4. /\ Nodes(f[n], n) = {n} \cup Nodes(t, t.left[n]) \cup Nodes(s, s.top)
            /\ Sorted(priority, f[n], n) /\ Same(s, f[n], Block \ {n})
        <5>1. s \in Trees /\ Sorted(priority, s, s.top)
          BY <3>6
        <5>2. FitsRight(priority, t, s, n)
          BY <3>7, <3>8, <4>3, <5>1 DEF FitsRight
        <5> QED
          BY <3>1, <4>1, <5>2, HungRightSorted
      <4>5. f[n] \in Trees /\ f[n].top = n
        BY <3>1, <3>6, <4>1, HungTrees DEF Ranges!HungRight
      <4>6. Same(t, f[n], Block \ (Nodes(t, n) \cup {b}))
        BY <3>2, <3>6, <4>4 DEF Same
      <4> QED
        BY <3>1, <3>2, <3>6, <4>4, <4>5, <4>6 DEF Inserted
    <3>10. CASE priority[s.top] < priority[n]
      <4>1. f[n] = Ranges!TurnedLeft(s, n)
        BY <3>5, <3>10
      <4>2. s.top = b
        <5>1. SUFFICES ASSUME s.top # b PROVE FALSE
          OBVIOUS
        <5>2. s.top = t.right[n] /\ t.right[n] # Nil
          BY <3>6, <5>1, NilAssumption
        <5>3. priority[n] < priority[s.top]
          BY <3>3, <5>2 DEF InOrder
        <5> QED
          BY <1>1, <3>1, <3>6, <3>10, <5>3
      <4>3. s.left[b] # Nil => priority[n] < priority[s.left[b]]
        <5>1. SUFFICES ASSUME s.left[b] # Nil PROVE priority[n] < priority[s.left[b]]
          OBVIOUS
        <5>2. s.left[b] \in Nodes(s, s.left[b]) /\ s.left[b] \in Links
          BY <3>6, <5>1, NodesLinked DEF Trees
        <5>3. s.left[b] \in Nodes(s, b) \ {b}
          BY <1>1, <3>6, <4>2, <5>2, NodesSplit, TopLeast
        <5>4. s.left[b] \in Nodes(t, t.right[n])
          BY <3>6, <4>2, <5>3
        <5> QED
          BY <1>1, <3>1, <5>4, TopLeast
      <4>4. /\ Nodes(f[n], b) = Nodes(s, b) \cup {n} \cup Nodes(t, t.left[n])
            /\ Sorted(priority, f[n], b) /\ Same(s, f[n], Block \ {n, b})
        <5>1. s \in Trees /\ s.top \in Block /\ Sorted(priority, s, s.top)
          BY <3>6
        <5>2. s.left[s.top] # Nil => priority[n] < priority[s.left[s.top]]
          BY <4>2, <4>3
        <5>3. TurnsLeft(priority, t, s, n)
          BY <3>7, <3>8, <3>10, <5>1, <5>2 DEF TurnsLeft
        <5>4. /\ Nodes(f[n], s.top) = Nodes(s, s.top) \cup {n} \cup Nodes(t, t.left[n])
              /\ Sorted(priority, f[n], s.top) /\ Same(s, f[n], Block \ {n, s.top})
          BY <1>1, <3>1, <4>1, <5>3, TurnedLeftSorted
        <5> QED
          BY <4>2, <5>4
      <4>5. f[n] \in Trees /\ f[n].top = b
        BY <3>1, <3>6, <4>1, <4>2, TurnedTrees DEF Ranges!TurnedLeft
      <4>6. Same(t, f[n], Block \ (Nodes(t, n) \cup {b}))
        BY <3>2, <3>6, <4>4 DEF Same
      <4> QED
        BY <3>1, <3>2, <3>6, <4>2, <4>4, <4>5, <4>6 DEF Inserted
    <3> QED
      BY <3>9, <3>10
  <2> QED
    BY <2>1, <2>2, <2>3
<1>5. Links \subseteq S
  <2> HIDE DEF S
  <2> QED
    BY <1>1, <1>4, RankInduction
<1>6. t.top \in Links
  BY DEF Trees
<1> QED
  BY <1>2, <1>5, <1>6

(* Removal. *)

\* s is what the subtree of t at n becomes when b is removed.
Removed(t, n, b, s) ==
  /\ s \in Trees
  /\ Nodes(s, s.top) = Nodes(t, n) \ {b}
  /\ Sorted(priority, s, s.top)
  /\ Same(t, s, Block \ Nodes(t, n))

\* The two subtrees of a block are merged in its place.
LEMMA MergeableBelow ==
  ASSUME NEW t \in Trees, NEW n \in Block, Sorted(priority, t, n)
  PROVE  Mergeable(t, t.left[n], t.right[n])
<1>1. n \in Links /\ n # Nil /\ t.left[n] \in Links /\ t.right[n] \in Links
  BY NilAssumption DEF Trees, Links, Ranges!Links
<1>2. Nodes(t, n) \in SUBSET Block /\ Linked(t, Nodes(t, n)) /\ n \in Nodes(t, n)
  BY <1>1, NodesLinked
<1>3. Sorted(priority, t, t.left[n]) /\ Sorted(priority, t, t.right[n])
  BY <1>1, <1>2, SortedBelow DEF Linked
<1>4. /\ \A a \in Nodes(t, t.left[n]) : a \in Nat /\ a < n
      /\ \A a \in Nodes(t, t.right[n]) : a \in Nat /\ n < a
      /\ n \in Nat
  BY <1>1, <1>2, NodesLinked, LayoutAssumption DEF Sorted, InOrder
<1> QED
  BY <1>3, <1>4 DEF Mergeable

\* The removal of b: a sorted tree of one block less, and no link elsewhere changed.
LEMMA RemoveRight ==
  ASSUME priority \in Priorities, NEW t \in Trees, Downwards(priority, t),
         Sorted(priority, t, t.top), NEW b \in Nodes(t, t.top)
  PROVE  Removed(t, t.top, b, Ranges!RangeRemove(t, b))
<1> DEFINE h == Height(priority)
           both == Ranges!RangeMerge(t, t.left[b], t.right[b])
<1>1. /\ h \in [Links -> Nat] /\ priority \in [Block -> Nat]
      /\ \A x \in Block : h[t.left[x]] < h[x] /\ h[t.right[x]] < h[x]
  BY HeightFalls
<1>2. \A x \in Links : x # Nil => x \in Block /\ t.left[x] \in Links /\ t.right[x] \in Links
  BY DEF Trees, Links, Ranges!Links
<1>3. t.top \in Links
  BY DEF Trees
<1>4. b \in Block /\ Sorted(priority, t, b)
  BY <1>3, NodesLinked, SortedBelow
<1>5. Merged(t, t.left[b], t.right[b], both)
  <2>1. Mergeable(t, t.left[b], t.right[b]) /\ t.left[b] \in Links /\ t.right[b] \in Links
    BY <1>4, MergeableBelow DEF Trees
  <2> QED
    BY <2>1, MergeRight
<1> HIDE DEF h, both
<1>6. PICK f : /\ Ranges!RangeRemove(t, b) = f[t.top]
               /\ \A n \in Links : f[n] = RemoveStep(t, b, f, n)
  BY <1>4, <1>5, RemoveUnfolds DEF Merged, both
<1> DEFINE Right(n) == Sorted(priority, t, n) => Removed(t, n, b, f[n])
<1> DEFINE S == {n \in Links : Right(n)}
<1>7. ASSUME NEW n \in Links, \A x \in Links : h[x] < h[n] => x \in S PROVE n \in S
  <2> SUFFICES ASSUME Sorted(priority, t, n) PROVE Removed(t, n, b, f[n])
    OBVIOUS
  <2>1. CASE n = Nil
    <3>1. f[n] = [t EXCEPT !.top = n]
      BY <1>6, <2>1 DEF RemoveStep
    <3>2. /\ f[n] \in Trees /\ f[n].top = n /\ Nodes(f[n], n) = Nodes(t, n)
          /\ Sorted(priority, f[n], n) /\ Same(t, f[n], Block)
      BY <3>1, Retopped
    <3>3. Nodes(t, n) = {}
      BY <2>1, NodesNil
    <3> QED
      BY <3>2, <3>3 DEF Removed, Same
  <2>2. CASE n # Nil /\ n = b
    <3>1. f[n] = both
      BY <1>6, <2>2 DEF RemoveStep, both
    <3>2. /\ Nodes(t, b) = {b} \cup Nodes(t, t.left[b]) \cup Nodes(t, t.right[b])
          /\ b \notin Nodes(t, t.left[b]) \cup Nodes(t, t.right[b])
      BY <1>1, <1>4, NodesSplit, TopLeast
    <3>3. /\ both \in Trees /\ Sorted(priority, both, both.top)
          /\ Nodes(both, both.top) = Nodes(t, b) \ {b} /\ Same(t, both, Block \ Nodes(t, b))
      BY <1>5, <3>2 DEF Merged, Same
    <3> QED
      BY <2>2, <3>1, <3>3 DEF Removed
  <2>3. CASE n # Nil /\ n # b /\ b < n
    <3> DEFINE s == f[t.left[n]]
    <3>1. n \in Block /\ t.left[n] \in Links /\ t.right[n] \in Links
      BY <1>2, <2>3
    <3>2. /\ Nodes(t, n) = {n} \cup Nodes(t, t.left[n]) \cup Nodes(t, t.right[n])
          /\ Nodes(t, n) \in SUBSET Block /\ Linked(t, Nodes(t, n))
      BY <3>1, NodesSplit, NodesLinked
    <3>3. InOrder(priority, t, n) /\ Sorted(priority, t, t.left[n])
      BY <3>1, <3>2, SortedBelow DEF Sorted, Linked
    <3>4. Removed(t, t.left[n], b, s)
      <4>1. h[t.left[n]] < h[n]
        BY <1>1, <3>1
      <4> QED
        BY <1>7, <3>1, <3>3, <4>1
    <3>5. f[n] = Ranges!HungLeft(s, n)
      BY <1>6, <2>3 DEF RemoveStep
    <3> HIDE DEF s
    <3>6. /\ s \in Trees /\ Nodes(s, s.top) = Nodes(t, t.left[n]) \ {b}
          /\ Sorted(priority, s, s.top) /\ Same(t, s, Block \ Nodes(t, t.left[n]))
      BY <3>4 DEF Removed
    <3>7. /\ n \in Nat /\ b \in Nat /\ Nodes(t, t.right[n]) \subseteq Nat
          /\ \A x \in Nodes(s, s.top) : x < n
      BY <1>4, <3>1, <3>2, <3>3, <3>6, LayoutAssumption DEF InOrder
    <3>8. b \notin Nodes(t, t.right[n])
      <4>1. b < n /\ n \in Nat /\ b \in Nat
        BY <2>3, <3>7
      <4> QED
        BY <3>3, <4>1 DEF InOrder
    <3>9. Same(t, s, {n} \cup Nodes(t, t.right[n]))
      <4>1. \A x \in {n} \cup Nodes(t, t.right[n]) : x \in Nat /\ ~ (x < n)
        BY <3>3, <3>7 DEF InOrder
      <4>2. \A x \in {n} \cup Nodes(t, t.right[n]) : x \in Block \ Nodes(t, t.left[n])
        BY <3>1, <3>2, <3>3, <4>1 DEF InOrder
      <4> QED
        BY <3>6, <4>2 DEF Same
    <3>10. s.top # Nil => priority[n] < priority[s.top]
      <4>1. SUFFICES ASSUME s.top # Nil PROVE priority[n] < priority[s.top]
        OBVIOUS
      <4>2. s.top \in Links
        BY <3>6 DEF Trees
      <4>3. s.top \in Nodes(t, t.left[n])
        BY <3>6, <4>1, <4>2, NodesLinked
      <4> QED
        BY <1>1, <3>1, <4>3, TopLeast
    <3>11. /\ Nodes(f[n], n) = {n} \cup Nodes(s, s.top) \cup Nodes(t, t.right[n])
           /\ Sorted(priority, f[n], n) /\ Same(s, f[n], Block \ {n})
      <4>1. s \in Trees /\ Sorted(priority, s, s.top) /\ \A x \in Nodes(s, s.top) : x < n
        BY <3>6, <3>7
      <4>2. FitsLeft(priority, t, s, n)
        BY <3>9, <3>10, <4>1 DEF FitsLeft
      <4>3. /\ Nodes(Ranges!HungLeft(s, n), n) =
                 {n} \cup Nodes(s, s.top) \cup Nodes(t, t.right[n])
            /\ Sorted(priority, Ranges!HungLeft(s, n), n)
            /\ Same(s, Ranges!HungLeft(s, n), Block \ {n})
        BY <3>1, <4>2, HungLeftSorted
      <4> QED
        BY <3>5, <4>3
    <3>12. f[n] \in Trees /\ f[n].top = n
      BY <3>1, <3>5, <3>6, HungTrees DEF Ranges!HungLeft
    <3>13. Same(t, f[n], Block \ Nodes(t, n))
      BY <3>2, <3>6, <3>11 DEF Same
    <3>14. Nodes(f[n], n) = Nodes(t, n) \ {b}
      BY <2>3, <3>2, <3>6, <3>8, <3>11
    <3> QED
      BY <3>11, <3>12, <3>13, <3>14 DEF Removed
  <2>4. CASE n # Nil /\ n # b /\ ~ (b < n)
    <3> DEFINE s == f[t.right[n]]
    <3>1. n \in Block /\ t.right[n] \in Links /\ t.left[n] \in Links
      BY <1>2, <2>4
    <3>2. /\ Nodes(t, n) = {n} \cup Nodes(t, t.left[n]) \cup Nodes(t, t.right[n])
          /\ Nodes(t, n) \in SUBSET Block /\ Linked(t, Nodes(t, n))
      BY <3>1, NodesSplit, NodesLinked
    <3>3. InOrder(priority, t, n) /\ Sorted(priority, t, t.right[n])
      BY <3>1, <3>2, SortedBelow DEF Sorted, Linked
    <3>4. Removed(t, t.right[n], b, s)
      <4>1. h[t.right[n]] < h[n]
        BY <1>1, <3>1
      <4> QED
        BY <1>7, <3>1, <3>3, <4>1
    <3>5. f[n] = Ranges!HungRight(s, n)
      BY <1>6, <2>4 DEF RemoveStep
    <3> HIDE DEF s
    <3>6. /\ s \in Trees /\ Nodes(s, s.top) = Nodes(t, t.right[n]) \ {b}
          /\ Sorted(priority, s, s.top) /\ Same(t, s, Block \ Nodes(t, t.right[n]))
      BY <3>4 DEF Removed
    <3>7. /\ n \in Nat /\ b \in Nat /\ Nodes(t, t.left[n]) \subseteq Nat
          /\ \A x \in Nodes(s, s.top) : n < x
      BY <1>4, <3>1, <3>2, <3>3, <3>6, LayoutAssumption DEF InOrder
    <3>8. b \notin Nodes(t, t.left[n])
      <4>1. n # b /\ ~ (b < n) /\ n \in Nat /\ b \in Nat
        BY <2>4, <3>7
      <4> QED
        BY <3>3, <4>1 DEF InOrder
    <3>9. Same(t, s, {n} \cup Nodes(t, t.left[n]))
      <4>1. \A x \in {n} \cup Nodes(t, t.left[n]) : x \in Nat /\ ~ (n < x)
        BY <3>3, <3>7 DEF InOrder
      <4>2. \A x \in {n} \cup Nodes(t, t.left[n]) : x \in Block \ Nodes(t, t.right[n])
        BY <3>1, <3>2, <3>3, <4>1 DEF InOrder
      <4> QED
        BY <3>6, <4>2 DEF Same
    <3>10. s.top # Nil => priority[n] < priority[s.top]
      <4>1. SUFFICES ASSUME s.top # Nil PROVE priority[n] < priority[s.top]
        OBVIOUS
      <4>2. s.top \in Links
        BY <3>6 DEF Trees
      <4>3. s.top \in Nodes(t, t.right[n])
        BY <3>6, <4>1, <4>2, NodesLinked
      <4> QED
        BY <1>1, <3>1, <4>3, TopLeast
    <3>11. /\ Nodes(f[n], n) = {n} \cup Nodes(t, t.left[n]) \cup Nodes(s, s.top)
           /\ Sorted(priority, f[n], n) /\ Same(s, f[n], Block \ {n})
      <4>1. s \in Trees /\ Sorted(priority, s, s.top) /\ \A x \in Nodes(s, s.top) : n < x
        BY <3>6, <3>7
      <4>2. FitsRight(priority, t, s, n)
        BY <3>9, <3>10, <4>1 DEF FitsRight
      <4>3. /\ Nodes(Ranges!HungRight(s, n), n) =
                 {n} \cup Nodes(t, t.left[n]) \cup Nodes(s, s.top)
            /\ Sorted(priority, Ranges!HungRight(s, n), n)
            /\ Same(s, Ranges!HungRight(s, n), Block \ {n})
        BY <3>1, <4>2, HungRightSorted
      <4> QED
        BY <3>5, <4>3
    <3>12. f[n] \in Trees /\ f[n].top = n
      BY <3>1, <3>5, <3>6, HungTrees DEF Ranges!HungRight
    <3>13. Same(t, f[n], Block \ Nodes(t, n))
      BY <3>2, <3>6, <3>11 DEF Same
    <3>14. Nodes(f[n], n) = Nodes(t, n) \ {b}
      BY <2>4, <3>2, <3>6, <3>8, <3>11
    <3> QED
      BY <3>11, <3>12, <3>13, <3>14 DEF Removed
  <2> QED
    BY <2>1, <2>2, <2>3, <2>4
<1>8. Links \subseteq S
  <2> HIDE DEF S
  <2> QED
    BY <1>1, <1>7, RankInduction
<1> QED
  BY <1>6, <1>8, <1>3

(* The descent to an address. *)

DescendStep(t, address, f, p) ==
  LET n == p[1]
      candidate == p[2]
  IN  IF n = Nil THEN candidate
      ELSE IF address < n + HeaderSize THEN f[<<t.left[n], candidate>>]
      ELSE f[<<t.right[n], n>>]

\* The descent is well defined.
LEMMA DescendUnfolds ==
  ASSUME priority \in Priorities, NEW t \in Trees, Downwards(priority, t), NEW address
  PROVE  \E f : /\ Ranges!Descend(t, address) = f[<<t.top, Nil>>]
                /\ \A p \in Links \X Links : f[p] = DescendStep(t, address, f, p)
<1> DEFINE D == Links \X Links
           h == Height(priority)
           rank == [p \in D |-> h[p[1]]]
           F == [p \in D |-> [g \in [D -> Links] |-> DescendStep(t, address, g, p)]]
<1>1. /\ h \in [Links -> Nat] /\ \A x \in Links : h[x] <= Cardinality(Block)
      /\ \A x \in Block : h[t.left[x]] < h[x] /\ h[t.right[x]] < h[x]
  BY HeightFalls
<1>2. Cardinality(Block) \in Nat
  BY LayoutAssumption, FS_CardinalityType
<1>3. \A x \in Links : x # Nil => x \in Block /\ t.left[x] \in Links /\ t.right[x] \in Links
  BY DEF Trees, Links, Ranges!Links
<1> HIDE DEF h
<1>4. rank \in [D -> Nat] /\ \A p \in D : rank[p] <= Cardinality(Block)
  BY <1>1
<1>5. ASSUME NEW p \in D, NEW g \in [D -> Links] PROVE DescendStep(t, address, g, p) \in Links
  <2>1. PICK x \in Links, y \in Links : p = <<x, y>>
    OBVIOUS
  <2>2. CASE x = Nil
    BY <2>1, <2>2 DEF DescendStep
  <2>3. CASE x # Nil
    <3>1. g[<<t.left[x], y>>] \in Links /\ g[<<t.right[x], x>>] \in Links
      BY <1>3, <2>3
    <3> QED
      BY <2>1, <2>3, <3>1 DEF DescendStep
  <2> QED
    BY <2>2, <2>3
<1>6. ASSUME NEW p \in D, NEW g \in [D -> Links], NEW k \in [D -> Links],
             \A q \in D : rank[q] < rank[p] => g[q] = k[q]
      PROVE  DescendStep(t, address, g, p) = DescendStep(t, address, k, p)
  <2>1. PICK x \in Links, y \in Links : p = <<x, y>>
    OBVIOUS
  <2>2. CASE x = Nil
    BY <2>1, <2>2 DEF DescendStep
  <2>3. CASE x # Nil
    <3>1. <<t.left[x], y>> \in D /\ <<t.right[x], x>> \in D
      BY <1>3, <2>3
    <3>2. rank[<<t.left[x], y>>] < rank[p] /\ rank[<<t.right[x], x>>] < rank[p]
      BY <1>1, <1>3, <2>1, <2>3, <3>1
    <3>3. g[<<t.left[x], y>>] = k[<<t.left[x], y>>] /\ g[<<t.right[x], x>>] = k[<<t.right[x], x>>]
      BY <1>6, <3>1, <3>2
    <3> QED
      BY <2>1, <3>3 DEF DescendStep
  <2> QED
    BY <2>2, <2>3
<1>7. Determined(D, Links, rank, F)
  <2>1. F \in [D -> [[D -> Links] -> Links]]
    BY <1>5
  <2>2. \A p \in D : \A g \in [D -> Links] : F[p][g] = DescendStep(t, address, g, p)
    OBVIOUS
  <2>3. ASSUME NEW p \in D, NEW g \in [D -> Links], NEW k \in [D -> Links],
               \A q \in D : rank[q] < rank[p] => g[q] = k[q]
        PROVE  F[p][g] = F[p][k]
    <3>1. DescendStep(t, address, g, p) = DescendStep(t, address, k, p)
      BY <1>6, <2>3
    <3> QED
      BY <2>2, <3>1
  <2> HIDE DEF D, rank, F
  <2> QED
    BY <2>1, <2>3 DEF Determined
<1> DEFINE Def(f) == f = [p \in D |-> DescendStep(t, address, f, p)]
           from == CHOOSE f : Def(f)
<1>8. Def(from)
  <2>1. Links # {}
    BY DEF Links, Ranges!Links
  <2>2. \E f \in [D -> Links] : \A p \in D : f[p] = F[p][f]
    <3> HIDE DEF D, rank, F
    <3> QED
      BY <1>2, <1>4, <1>7, <2>1, Recursion
  <2>3. PICK f \in [D -> Links] : \A p \in D : f[p] = F[p][f]
    BY <2>2
  <2>4. \A p \in D : f[p] = DescendStep(t, address, f, p)
    BY <2>3
  <2>5. f = [p \in D |-> f[p]]
    OBVIOUS
  <2>6. Def(f)
    BY <2>4, <2>5
  <2> HIDE DEF Def
  <2> QED
    BY <2>6, Zenon
<1>9. Ranges!Descend(t, address) = from[<<t.top, Nil>>]
  BY DEF Ranges!Descend, DescendStep, Links
<1> HIDE DEF from
<1>10. \A p \in D : from[p] = DescendStep(t, address, from, p)
  BY <1>8
<1> QED
  BY <1>9, <1>10

\* Of the blocks of S, d is the last whose data starts at or before the address; if there is
\* none, d is the candidate.
LastBefore(S, address, candidate, d) ==
  \/ d = candidate /\ \A x \in S : address < x + HeaderSize
  \/ d \in S /\ d + HeaderSize <= address /\ \A x \in S : address < x + HeaderSize \/ x <= d

\* It ends at the last block whose data starts at or before the address.
LEMMA DescendRight ==
  ASSUME priority \in Priorities, NEW t \in Trees, Downwards(priority, t),
         Sorted(priority, t, t.top), NEW address \in Nat
  PROVE  LastBefore(Nodes(t, t.top), address, Nil, Ranges!Descend(t, address))
<1> DEFINE D == Links \X Links
           h == Height(priority)
           rank == [p \in D |-> h[p[1]]]
<1>1. /\ h \in [Links -> Nat]
      /\ \A x \in Block : h[t.left[x]] < h[x] /\ h[t.right[x]] < h[x]
  BY HeightFalls
<1>2. \A x \in Links : x # Nil => x \in Block /\ t.left[x] \in Links /\ t.right[x] \in Links
  BY DEF Trees, Links, Ranges!Links
<1> HIDE DEF h
<1>3. PICK f : /\ Ranges!Descend(t, address) = f[<<t.top, Nil>>]
               /\ \A p \in D : f[p] = DescendStep(t, address, f, p)
  BY DescendUnfolds
<1> DEFINE Right(p) == Sorted(priority, t, p[1]) =>
                         LastBefore(Nodes(t, p[1]), address, p[2], f[p])
           S == {p \in D : Right(p)}
<1>4. rank \in [D -> Nat]
  BY <1>1
<1>5. ASSUME NEW p \in D, \A q \in D : rank[q] < rank[p] => q \in S PROVE p \in S
  <2>1. PICK n \in Links, c \in Links : p = <<n, c>>
    OBVIOUS
  <2> SUFFICES ASSUME Sorted(priority, t, n)
               PROVE  LastBefore(Nodes(t, n), address, c, f[<<n, c>>])
    BY <2>1
  <2>2. CASE n = Nil
    <3>1. f[<<n, c>>] = c /\ Nodes(t, n) = {}
      BY <1>3, <2>2, NodesNil DEF DescendStep
    <3> QED
      BY <3>1 DEF LastBefore
  <2>3. CASE n # Nil
    <3> DEFINE L == Nodes(t, t.left[n])
               R == Nodes(t, t.right[n])
    <3>1. n \in Block /\ t.left[n] \in Links /\ t.right[n] \in Links
      BY <1>2, <2>3
    <3>2. Nodes(t, n) = {n} \cup L \cup R /\ Nodes(t, n) \in SUBSET Block
      BY <3>1, NodesSplit, NodesLinked
    <3>3. InOrder(priority, t, n)
      BY <3>2 DEF Sorted
    <3>4. Sorted(priority, t, t.left[n]) /\ Sorted(priority, t, t.right[n])
      BY <3>1, MergeableBelow DEF Mergeable
    <3>5. /\ rank[<<t.left[n], c>>] < rank[p] /\ rank[<<t.right[n], n>>] < rank[p]
          /\ <<t.left[n], c>> \in D /\ <<t.right[n], n>> \in D
      BY <1>1, <2>1, <3>1
    <3>6. /\ LastBefore(L, address, c, f[<<t.left[n], c>>])
          /\ LastBefore(R, address, n, f[<<t.right[n], n>>])
      BY <1>5, <3>4, <3>5
    <3>7. f[<<n, c>>] = IF address < n + HeaderSize THEN f[<<t.left[n], c>>] ELSE f[<<t.right[n], n>>]
      BY <1>3, <2>3 DEF DescendStep
    <3>8. /\ n \in Nat /\ HeaderSize \in Nat /\ L \subseteq Nat /\ R \subseteq Nat
          /\ (\A x \in L : x < n) /\ (\A x \in R : n < x)
      BY <3>1, <3>2, <3>3, LayoutAssumption DEF InOrder
    <3> HIDE DEF L, R
    <3>9. CASE address < n + HeaderSize
      <4>1. \A x \in {n} \cup R : address < x + HeaderSize
        BY <3>8, <3>9
      <4> QED
        BY <3>2, <3>6, <3>7, <3>9, <4>1 DEF LastBefore
    <3>10. CASE ~ (address < n + HeaderSize)
      <4>1. n + HeaderSize <= address /\ (\A x \in {n} \cup L : x <= n) /\ n \in Nodes(t, n)
        BY <3>2, <3>8, <3>10
      <4>2. f[<<n, c>>] = f[<<t.right[n], n>>]
        BY <3>7, <3>10
      <4>3. CASE f[<<n, c>>] = n /\ \A x \in R : address < x + HeaderSize
        BY <3>2, <4>1, <4>3 DEF LastBefore
      <4>4. CASE /\ f[<<n, c>>] \in R /\ f[<<n, c>>] + HeaderSize <= address
                 /\ \A x \in R : address < x + HeaderSize \/ x <= f[<<n, c>>]
        <5> DEFINE d == f[<<n, c>>]
        <5>1. d \in Nat /\ n < d
          BY <3>8, <4>4
        <5>2. \A x \in {n} \cup L : x <= d
          <6> HIDE DEF d
          <6> QED
            BY <3>8, <5>1
        <5> QED
          BY <3>2, <4>4, <5>2 DEF LastBefore
      <4> QED
        BY <3>6, <4>2, <4>3, <4>4 DEF LastBefore
    <3> QED
      BY <3>9, <3>10
  <2> QED
    BY <2>2, <2>3
<1>6. D \subseteq S
  <2> HIDE DEF D, rank, S
  <2> QED
    BY <1>4, <1>5, RankInduction
<1>7. <<t.top, Nil>> \in D
  BY DEF Trees, Links, Ranges!Links
<1>8. <<t.top, Nil>> \in S
  BY <1>6, <1>7
<1> QED
  BY <1>3, <1>8

(* The treap is that of the live blocks. *)

\* t is a treap of the blocks of L under the priorities h; the links of the others are clear.
TreapOf(h, t, L) ==
  /\ h \in Priorities /\ t \in Trees
  /\ Nodes(t, t.top) = L /\ Sorted(h, t, t.top)
  /\ \A b \in Block \ L : t.left[b] = Nil /\ t.right[b] = Nil

\* Hashes grow along the links of a treap.
LEMMA TreapDownwards ==
  ASSUME NEW h, NEW t, NEW L, TreapOf(h, t, L)
  PROVE  Downwards(h, t) /\ L \in SUBSET Block
<1>1. t.top \in Links /\ L \in SUBSET Block
  BY NodesLinked DEF TreapOf, Trees
<1>2. \A x \in L : InOrder(h, t, x)
  BY DEF TreapOf, Sorted
<1>3. ASSUME NEW x \in Block, NEW c \in {t.left[x], t.right[x]} \ {Nil} PROVE h[x] < h[c]
  BY <1>2 DEF TreapOf, InOrder
<1> QED
  BY <1>1, <1>3 DEF Downwards

\* Clearing the links of a block changes no other.
LEMMA UnlinkedTrees ==
  ASSUME NEW t \in Trees, NEW b \in Block
  PROVE  LET u == Ranges!Unlinked(t, b)
         IN  /\ u \in Trees /\ u.top = t.top /\ u.left[b] = Nil /\ u.right[b] = Nil
             /\ Same(t, u, Block \ {b})
BY DEF Trees, Links, Ranges!Links, Ranges!Unlinked, Same

\* A treap of L becomes one of L and b,
LEMMA InsertedTreap ==
  ASSUME NEW t, NEW L, TreapOf(priority, t, L), NEW b \in Block \ L
  PROVE  TreapOf(priority, Ranges!RangeInsert(Ranges!Unlinked(t, b), b), L \cup {b})
<1> DEFINE u == Ranges!Unlinked(t, b)
           s == Ranges!RangeInsert(u, b)
<1>1. Downwards(priority, t) /\ L \in SUBSET Block /\ t \in Trees
  BY TreapDownwards DEF TreapOf
<1>2. /\ u \in Trees /\ u.top = t.top /\ u.left[b] = Nil /\ u.right[b] = Nil
      /\ Same(t, u, Block \ {b})
  BY <1>1, UnlinkedTrees
<1> HIDE DEF u
<1>3. Downwards(priority, u)
  BY <1>1, <1>2 DEF Downwards, Same
<1>4. Nodes(u, u.top) = L /\ Sorted(priority, u, u.top)
  <2>1. Same(t, u, Nodes(t, t.top)) /\ t.top \in Links
    BY <1>1, <1>2 DEF TreapOf, Same, Trees
  <2> QED
    BY <1>1, <1>2, <2>1, SortedSame DEF TreapOf
<1>5. Inserted(u, u.top, b, s)
  BY <1>2, <1>3, <1>4, InsertRight DEF TreapOf
<1> HIDE DEF s
<1>6. s \in Trees /\ Nodes(s, s.top) = L \cup {b} /\ Sorted(priority, s, s.top)
  BY <1>4, <1>5 DEF Inserted
<1>7. ASSUME NEW x \in Block \ (L \cup {b}) PROVE s.left[x] = Nil /\ s.right[x] = Nil
  <2>1. t.left[x] = Nil /\ t.right[x] = Nil
    BY DEF TreapOf
  <2>2. u.left[x] = Nil /\ u.right[x] = Nil
    BY <1>2, <2>1 DEF Same
  <2> QED
    BY <1>4, <1>5, <2>2 DEF Inserted, Same
<1> QED
  BY <1>6, <1>7 DEF TreapOf, s, u

\* or of L without b.
LEMMA RemovedTreap ==
  ASSUME NEW t, NEW L, TreapOf(priority, t, L), NEW b \in L
  PROVE  TreapOf(priority, Ranges!Unlinked(Ranges!RangeRemove(t, b), b), L \ {b})
<1> DEFINE s == Ranges!RangeRemove(t, b)
           u == Ranges!Unlinked(s, b)
<1>1. Downwards(priority, t) /\ L \in SUBSET Block /\ t \in Trees
  BY TreapDownwards DEF TreapOf
<1>2. Removed(t, t.top, b, s)
  BY <1>1, RemoveRight DEF TreapOf
<1> HIDE DEF s
<1>3. /\ s \in Trees /\ Nodes(s, s.top) = L \ {b} /\ Sorted(priority, s, s.top)
      /\ Same(t, s, Block \ L) /\ b \in Block
  BY <1>1, <1>2 DEF Removed, TreapOf
<1>4. /\ u \in Trees /\ u.top = s.top /\ u.left[b] = Nil /\ u.right[b] = Nil
      /\ Same(s, u, Block \ {b})
  BY <1>3, UnlinkedTrees
<1> HIDE DEF u
<1>5. Nodes(u, u.top) = L \ {b} /\ Sorted(priority, u, u.top)
  <2>1. Same(s, u, Nodes(s, s.top)) /\ s.top \in Links
    BY <1>1, <1>3, <1>4 DEF Same, Trees
  <2> QED
    BY <1>3, <1>4, <2>1, SortedSame
<1>6. ASSUME NEW x \in Block \ (L \ {b}) PROVE u.left[x] = Nil /\ u.right[x] = Nil
  <2>1. CASE x = b
    BY <1>4, <2>1
  <2>2. CASE x # b
    <3>1. t.left[x] = Nil /\ t.right[x] = Nil
      BY <2>2 DEF TreapOf
    <3> QED
      BY <1>3, <1>4, <2>2, <3>1 DEF Same
  <2> QED
    BY <2>1, <2>2
<1> QED
  BY <1>4, <1>5, <1>6 DEF TreapOf, u, s

\* The empty treap,
LEMMA EmptyTreap ==
  ASSUME NEW t \in Trees, t.top = Nil, priority \in Priorities,
         \A b \in Block : t.left[b] = Nil /\ t.right[b] = Nil
  PROVE  TreapOf(priority, t, {})
BY NodesNil DEF TreapOf, Sorted

\* The registry is in order, the treap holds the live blocks, and their headers their sizes.
LookupInv ==
  /\ TableInv
  /\ TreapOf(priority, Ranges!Tree, live)
  /\ size \in [Block -> Nat] /\ \A b \in live : size[b] = SizeOf[b]

\* in which no block has links.
LEMMA NoTree ==
  LET t == [left |-> [b \in Block |-> Nil], right |-> [b \in Block |-> Nil], top |-> Nil]
  IN  t \in Trees /\ \A b \in Block : t.left[b] = Nil /\ t.right[b] = Nil
BY DEF Trees, Links, Ranges!Links

\* Each call keeps the treap to the live blocks and the registry to a part of them.
LEMMA LookupInit == InitTables => LookupInv
<1> SUFFICES ASSUME InitTables PROVE LookupInv
  OBVIOUS
<1> DEFINE t == [left |-> [b \in Block |-> Nil], right |-> [b \in Block |-> Nil], top |-> Nil]
<1>1. TableInv /\ live = {}
  BY TableInit DEF InitTables, Init
<1>2. priority \in Priorities /\ size = [b \in Block |-> 0] /\ Ranges!Tree = t
  <2>1. priority \in Priorities
    BY DEF InitTables, Ranges!Init, Priorities, Cardinality, Ranges!Cardinality
  <2>2. size = [b \in Block |-> 0]
    BY DEF InitTables, Ranges!Init
  <2>3. Ranges!Tree = t
    BY DEF InitTables, Ranges!Init, Ranges!Tree
  <2> QED
    BY <2>1, <2>2, <2>3
<1>3. TreapOf(priority, t, {})
  <2>1. t \in Trees /\ t.top = Nil /\ \A b \in Block : t.left[b] = Nil /\ t.right[b] = Nil
    BY NoTree
  <2> HIDE DEF t
  <2> QED
    BY <1>2, <2>1, EmptyTreap
<1> QED
  BY <1>1, <1>2, <1>3 DEF LookupInv

\* What a step of the tables makes of the treap is the next tree.
LEMMA NextTree ==
  ASSUME NEW t, Ranges!Becomes(t), t \in Trees
  PROVE  Ranges!Tree' = t
BY DEF Ranges!Becomes, Ranges!Tree, Trees

\* yc_alloc
LEMMA LookupAlloc ==
  ASSUME LookupInv, NEW b \in Block, Alloc(b)
  PROVE  LookupInv'
<1>1. /\ b \notin live /\ live' = live \cup {b}
      /\ [Next]_vars
  BY DEF Alloc, Insert, InsertFails, Next
<1>2. TableInv'
  BY <1>1, StepHolds DEF LookupInv
<1>3. /\ size' = [size EXCEPT ![b] = SizeOf[b]] /\ priority' = priority
      /\ Ranges!Becomes(Ranges!RangeInsert(Ranges!Unlinked(Ranges!Tree, b), b))
  BY DEF Alloc, Ranges!Alloc
<1>4. TreapOf(priority, Ranges!RangeInsert(Ranges!Unlinked(Ranges!Tree, b), b), live \cup {b})
  BY <1>1, InsertedTreap DEF LookupInv
<1>5. Ranges!Tree' = Ranges!RangeInsert(Ranges!Unlinked(Ranges!Tree, b), b)
  BY <1>3, <1>4, NextTree DEF TreapOf
<1>6. TreapOf(priority, Ranges!Tree, live)'
  BY <1>1, <1>3, <1>4, <1>5
<1>7. (size \in [Block -> Nat] /\ \A c \in live : size[c] = SizeOf[c])'
  BY <1>1, <1>3, LayoutAssumption DEF LookupInv, TableInv
<1> QED
  BY <1>2, <1>6, <1>7 DEF LookupInv

\* yc_release_header
LEMMA LookupRelease ==
  ASSUME LookupInv, NEW b \in Block, Release(b)
  PROVE  LookupInv'
<1>1. b \in live /\ live' = live \ {b} /\ [Next]_vars
  BY DEF Release, Remove, Next
<1>2. TableInv'
  BY <1>1, StepHolds DEF LookupInv
<1>3. /\ size' = [size EXCEPT ![b] = 0] /\ priority' = priority
      /\ Ranges!Becomes(Ranges!Unlinked(Ranges!RangeRemove(Ranges!Tree, b), b))
  BY DEF Release, Ranges!Free
<1>4. TreapOf(priority, Ranges!Unlinked(Ranges!RangeRemove(Ranges!Tree, b), b), live \ {b})
  BY <1>1, RemovedTreap DEF LookupInv
<1>5. Ranges!Tree' = Ranges!Unlinked(Ranges!RangeRemove(Ranges!Tree, b), b)
  BY <1>3, <1>4, NextTree DEF TreapOf
<1>6. TreapOf(priority, Ranges!Tree, live)'
  BY <1>1, <1>3, <1>4, <1>5
<1>7. (size \in [Block -> Nat] /\ \A c \in live : size[c] = SizeOf[c])'
  BY <1>1, <1>3, LayoutAssumption DEF LookupInv, TableInv
<1> QED
  BY <1>2, <1>6, <1>7 DEF LookupInv

\* yc_runtime_shutdown
LEMMA LookupClose ==
  ASSUME LookupInv, Close
  PROVE  LookupInv'
<1> DEFINE t == [left |-> [b \in Block |-> Nil], right |-> [b \in Block |-> Nil], top |-> Nil]
<1>1. live' = {} /\ [Next]_vars
  BY DEF Close, Shutdown, Next
<1>2. TableInv'
  BY <1>1, StepHolds DEF LookupInv
<1>3. size' = [b \in Block |-> 0] /\ priority' = priority /\ Ranges!Becomes(t)
  BY DEF Close, Ranges!Shutdown
<1>4. t \in Trees /\ t.top = Nil /\ \A b \in Block : t.left[b] = Nil /\ t.right[b] = Nil
  BY NoTree
<1> HIDE DEF t
<1>5. TreapOf(priority, t, {}) /\ Ranges!Tree' = t
  BY <1>3, <1>4, EmptyTreap, NextTree DEF LookupInv, TreapOf
<1>6. TreapOf(priority, Ranges!Tree, live)'
  BY <1>1, <1>3, <1>5
<1> QED
  BY <1>1, <1>2, <1>3, <1>6 DEF LookupInv

\* Together they do in every reachable state.
LEMMA LookupInvariance == Tables => []LookupInv
<1>1. LookupInv /\ [NextTables]_tables => LookupInv'
  <2> SUFFICES ASSUME LookupInv, [NextTables]_tables PROVE LookupInv'
    OBVIOUS
  <2>1. CASE UNCHANGED tables
    <3>1. /\ [Next]_vars /\ live' = live /\ size' = size /\ priority' = priority
          /\ Ranges!Tree' = Ranges!Tree
      BY <2>1 DEF tables, vars, Ranges!Tree
    <3>2. TableInv'
      BY <3>1, StepHolds DEF LookupInv
    <3>3. TreapOf(priority, Ranges!Tree, live)'
      BY <3>1 DEF LookupInv
    <3> QED
      BY <3>1, <3>2, <3>3 DEF LookupInv
  <2> QED
    BY <2>1, LookupAlloc, LookupRelease, LookupClose DEF NextTables
<1> QED
  BY <1>1, LookupInit, PTL DEF Tables

(* What is found. *)

\* What LookupExact says of the treap.
LEMMA TreeHolds == LookupInv => TreeOfLive
<1> SUFFICES ASSUME LookupInv PROVE TreeOfLive
  OBVIOUS
<1> DEFINE t == Ranges!Tree
<1>1. t.left = left /\ t.right = right /\ t.top = root
  BY DEF Ranges!Tree
<1>2. /\ Ranges!Live = live
      /\ Sorted(priority, t, root) /\ Nodes(t, root) = live
  BY <1>1 DEF LookupInv, TreapOf, Ranges!Live, Nodes
<1>3. \A n \in live : InOrder(priority, t, n)
  BY <1>2 DEF Sorted
<1> HIDE DEF t
<1>4. \A n \in live : /\ \A b \in Nodes(t, left[n]) : b < n
                      /\ \A b \in Nodes(t, right[n]) : n < b
                      /\ \A c \in {left[n], right[n]} \ {Nil} : priority[n] < priority[c]
  BY <1>1, <1>3 DEF InOrder
<1>5. Ranges!SearchTree
  BY <1>2, <1>4 DEF Ranges!SearchTree, Nodes, t
<1>6. Ranges!HeapOrdered
  BY <1>2, <1>4 DEF Ranges!HeapOrdered
<1> QED
  BY <1>2, <1>5, <1>6 DEF TreeOfLive

\* At most one block has an address in its data or at its data's start.
LEMMA InsideOne ==
  ASSUME NEW a \in Block, NEW b \in Block, NEW address \in Nat,
         a + HeaderSize <= address, address < b + HeaderSize + SizeOf[b], b + HeaderSize <= address,
         address = a + HeaderSize \/ address < a + HeaderSize + SizeOf[a]
  PROVE  a = b
<1>1. /\ a \in Nat /\ b \in Nat /\ HeaderSize \in Nat /\ SizeOf[a] \in Nat /\ SizeOf[b] \in Nat
      /\ (a < b => a + HeaderSize + SizeOf[a] <= b) /\ (b < a => b + HeaderSize + SizeOf[b] <= a)
  BY LayoutAssumption
<1> QED
  BY <1>1

\* The treap finds the live block whose data an address lies in, and nothing else.
LEMMA RangeFinds ==
  ASSUME LookupInv, NEW address \in Nat
  PROVE  /\ \A b \in live : Inside(b, address) => Ranges!RangeFind(address) = b
         /\ \/ Ranges!RangeFind(address) = Nil
            \/ Ranges!RangeFind(address) \in live /\ Inside(Ranges!RangeFind(address), address)
<1> DEFINE t == Ranges!Tree
           c == Ranges!Descend(t, address)
<1>1. Nodes(t, t.top) = live /\ live \in SUBSET Block /\ Nil \notin live
  BY TreapDownwards, NilAssumption DEF LookupInv, TreapOf
<1>2. LastBefore(live, address, Nil, c)
  <2>1. Downwards(priority, t)
    BY TreapDownwards DEF LookupInv
  <2> QED
    BY <1>1, <2>1, DescendRight DEF LookupInv, TreapOf
<1>3. Ranges!RangeFind(address) = IF c # Nil /\ address - (c + HeaderSize) < size[c] THEN c ELSE Nil
  BY DEF Ranges!RangeFind
<1> HIDE DEF t, c
<1>4. \A b \in live : b \in Nat /\ size[b] = SizeOf[b] /\ size[b] \in Nat /\ b \in Block
  BY <1>1, LayoutAssumption DEF LookupInv
<1>5. HeaderSize \in Nat
  BY LayoutAssumption
<1>6. CASE c = Nil /\ \A x \in live : address < x + HeaderSize
  <2>1. \A b \in live : ~ (b + HeaderSize <= address)
    BY <1>4, <1>5, <1>6
  <2>2. Ranges!RangeFind(address) = Nil
    BY <1>3, <1>6
  <2> QED
    BY <2>1, <2>2 DEF Inside
<1>7. CASE /\ c \in live /\ c + HeaderSize <= address
           /\ \A x \in live : address < x + HeaderSize \/ x <= c
  <2>1. c # Nil /\ c \in Nat /\ size[c] = SizeOf[c] /\ size[c] \in Nat
    BY <1>1, <1>4, <1>7
  <2>2. address - (c + HeaderSize) < size[c] <=> Inside(c, address)
    BY <1>5, <1>7, <2>1 DEF Inside
  <2>3. ASSUME NEW b \in live, Inside(b, address) PROVE b = c
    <3>1. /\ b \in Nat /\ SizeOf[b] \in Nat /\ b + HeaderSize <= address
          /\ address < b + HeaderSize + SizeOf[b] /\ b <= c
      BY <1>4, <1>5, <1>7, <2>3 DEF Inside
    <3>2. b < c => b + HeaderSize + SizeOf[b] <= c
      BY <1>4, <1>7, LayoutAssumption
    <3> QED
      BY <1>5, <1>7, <2>1, <3>1, <3>2
  <2>4. CASE Inside(c, address)
    <3>1. Ranges!RangeFind(address) = c
      BY <1>3, <2>1, <2>2, <2>4
    <3> QED
      BY <1>7, <2>3, <2>4, <3>1
  <2>5. CASE ~ Inside(c, address)
    <3>1. Ranges!RangeFind(address) = Nil
      BY <1>3, <2>2, <2>5
    <3> QED
      BY <2>3, <2>5, <3>1
  <2> QED
    BY <2>4, <2>5
<1> QED
  BY <1>2, <1>6, <1>7 DEF LastBefore

\* What the registry finds is live and the only block there.
LEMMA FromPtrFinds ==
  ASSUME LookupInv, NEW address \in Nat
  PROVE  /\ \A b \in live : Found(b) /\ b + HeaderSize = address => FromPtr(address) = b
         /\ \/ FromPtr(address) = Nil
            \/ /\ FromPtr(address) \in live /\ Found(FromPtr(address))
               /\ FromPtr(address) + HeaderSize = address
<1> DEFINE hits == {b \in Block : Found(b) /\ b + HeaderSize = address}
<1>1. FromPtr(address) = IF hits = {} THEN Nil ELSE CHOOSE b \in hits : TRUE
  BY DEF FromPtr
<1>2. live \in SUBSET Block /\ \A b \in Block : Found(b) => b \in live
  BY FoundStored DEF LookupInv, TableInv
<1>3. ASSUME NEW a \in hits, NEW b \in hits PROVE a = b
  <2>1. a \in Nat /\ b \in Nat /\ HeaderSize \in Nat /\ a + HeaderSize = b + HeaderSize
    BY LayoutAssumption
  <2> QED
    BY <2>1
<1>4. hits # {} => (CHOOSE b \in hits : TRUE) \in hits
  OBVIOUS
<1>5. \A b \in live : Found(b) /\ b + HeaderSize = address => b \in hits
  BY <1>2
<1>6. \A b \in hits : b \in live /\ Found(b) /\ b + HeaderSize = address
  BY <1>2
<1> HIDE DEF hits
<1> QED
  BY <1>1, <1>3, <1>4, <1>5, <1>6

\* Every address in the data of a live block, and the start of the data of a registered one,
\* leads to that block and every other to none, and the treap is a search tree and a heap of
\* exactly the live blocks: whatever is allocated and released in which order, under every
\* assignment of priorities and hashes, and whichever growth of the registry fails.
THEOREM LookupsRight == Tables => []LookupExact
<1>1. LookupInv => LookupExact
  <2> SUFFICES ASSUME LookupInv PROVE LookupExact
    OBVIOUS
  <2>1. TreeOfLive
    BY TreeHolds
  <2>2. ASSUME NEW address \in Addresses
        PROVE  LET hits == {b \in live : Inside(b, address) \/ (Found(b) /\ b + HeaderSize = address)}
               IN  IF hits = {} THEN ContainingPtr(address) = Nil ELSE hits = {ContainingPtr(address)}
    <3> DEFINE hits == {b \in live : Inside(b, address) \/ (Found(b) /\ b + HeaderSize = address)}
               d == ContainingPtr(address)
    <3>1. address \in Nat /\ live \in SUBSET Block /\ Nil \notin live
      <4>1. PICK b \in Block : address \in b .. b + HeaderSize + SizeOf[b]
        BY DEF Addresses
      <4>2. b \in Nat /\ HeaderSize \in Nat /\ SizeOf[b] \in Nat
        BY LayoutAssumption
      <4>3. address \in Nat
        BY <4>1, <4>2
      <4> QED
        BY <4>3, NilAssumption DEF LookupInv, TableInv
    <3>2. /\ \A b \in live : Inside(b, address) => Ranges!RangeFind(address) = b
          /\ \/ Ranges!RangeFind(address) = Nil
             \/ Ranges!RangeFind(address) \in live /\ Inside(Ranges!RangeFind(address), address)
      BY <3>1, RangeFinds
    <3>3. /\ \A b \in live : Found(b) /\ b + HeaderSize = address => FromPtr(address) = b
          /\ \/ FromPtr(address) = Nil
             \/ /\ FromPtr(address) \in live /\ Found(FromPtr(address))
                /\ FromPtr(address) + HeaderSize = address
      BY <3>1, FromPtrFinds
    <3>4. d = IF FromPtr(address) # Nil THEN FromPtr(address) ELSE Ranges!RangeFind(address)
      BY DEF ContainingPtr
    <3>5. ASSUME NEW a \in live, NEW b \in live, a + HeaderSize = address, Inside(b, address)
          PROVE  a = b
      <4>1. a \in Nat /\ b \in Nat /\ HeaderSize \in Nat /\ a \in Block /\ b \in Block
        BY <3>1, LayoutAssumption
      <4> QED
        BY <3>1, <3>5, <4>1, InsideOne DEF Inside
    <3> HIDE DEF d
    <3>6. d = Nil \/ d \in hits
      BY <3>2, <3>3, <3>4
    <3>7. \A b \in hits : b = d
      BY <3>1, <3>2, <3>3, <3>4, <3>5
    <3>8. \A b \in hits : b # Nil
      BY <3>1
    <3> HIDE DEF hits
    <3>9. IF hits = {} THEN d = Nil ELSE hits = {d}
      BY <3>6, <3>7, <3>8
    <3> QED
      BY <3>9 DEF hits, d
  <2> QED
    BY <2>1, <2>2 DEF LookupExact
<1> QED
  BY <1>1, LookupInvariance, PTL

\* Beside the treap the registry runs as if alone: what is proved of it holds of both.
THEOREM RegistryBeside == Tables => []RegistryExact /\ ImplementsSet
<1>1. InitTables => Init
  BY DEF InitTables
<1>2. [NextTables]_tables => [Next]_vars
  <2> SUFFICES ASSUME [NextTables]_tables PROVE [Next]_vars
    OBVIOUS
  <2>1. CASE UNCHANGED tables
    BY <2>1 DEF tables
  <2>2. CASE Close
    BY <2>2 DEF Close, Next
  <2>3. ASSUME NEW b \in Block, Alloc(b) \/ Release(b) PROVE Next
    BY <2>3 DEF Alloc, Release, Next
  <2> QED
    BY <2>1, <2>2, <2>3 DEF NextTables
<1>3. Tables => Spec
  BY <1>1, <1>2, PTL DEF Tables, Spec
<1> QED
  BY <1>3, RegistryKept, RegistryIsASet, PTL
=============================================================================
