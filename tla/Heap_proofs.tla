----------------------------- MODULE Heap_proofs -----------------------------
(***************************************************************************)
(* TLAPS proofs about the kernel heap, for every size of headers, records  *)
(* and frames: until a merge touches the block on which kmalloc stands, the *)
(* blocks of the list share the frames among them, what belongs to a task   *)
(* is a taken block, and no block is handed out twice.                      *)
(*                                                                         *)
(* The argument gives every byte of the heap a position: the first frame    *)
(* that the heap got comes first, then the second, and so on.  The list is  *)
(* in the order of positions, and a block is a run of positions too.  The   *)
(* pointers back are not the inverse of the pointers forward, since a split *)
(* does not update the block behind it.  They may even lead to a header     *)
(* that a merge has swallowed; the invariant says enough of the bytes       *)
(* between to show that kfree never merges with such a header.              *)
(***************************************************************************)
EXTENDS Heap, FiniteSetTheorems, NaturalsInduction, WellFoundedInduction, TLAPS

-----------------------------------------------------------------------------
(* The shape of the list.  B is the set of its blocks, v gives the positions *)
(* of the bytes in H, of which there are T; sz, nx, pv are the fields of the *)
(* headers.                                                                 *)

Unit == BLOCK_SIZE + Size

Aligned == {k * Unit : k \in Nat}

\* Where the block, or the header, at b says that it ends.
End(sz, b) == b + BLOCK_SIZE + sz[b]

Typed(H, T, v, sz, nx, pv) ==
    /\ H \subseteq Addr /\ T \in Nat /\ v \in [H -> 0..(T - 1)]
    /\ sz \in [Addr -> Nat]
    /\ nx \in [Addr -> Addr \cup {Null}] /\ pv \in [Addr -> Addr \cup {Null}]

\* Blocks are made of whole records.
Placed(H, B, sz) ==
    \A b \in B : /\ b \in Aligned /\ End(sz, b) \in Aligned /\ b < End(sz, b)
                 /\ \A x \in b..(End(sz, b) - 1) : x \in H

Covered(H, B, sz) == \A x \in H : \E b \in B : x \in b..(End(sz, b) - 1)

Linear(B, v, sz) ==
    \A b \in B : \A x \in b..(End(sz, b) - 1) : v[x] = v[b] + (x - b)

\* The position behind block b.
After(v, sz, b) == v[b] + (End(sz, b) - b)

Ordered(B, v, sz) ==
    \A a, b \in B : a # b => After(v, sz, a) <= v[b] \/ After(v, sz, b) <= v[a]

Chained(T, B, v, sz, nx) ==
    \A b \in B : \/ nx[b] = Null /\ After(v, sz, b) = T
                 \/ nx[b] \in B /\ v[nx[b]] = After(v, sz, b)

Headed(B, v, pv, hd) ==
    \/ B = {} /\ hd = Null
    \/ hd \in B /\ v[hd] = 0 /\ pv[hd] = Null

\* A header inside of a block does not reach beyond it.
Nested(B, sz) ==
    \A b \in B : \A x \in b..(End(sz, b) - 1) :
        x \in Aligned => End(sz, x) <= End(sz, b)

\* The bytes from p up to w are in the heap, one behind the other.
Run(H, v, p, w) == p <= w /\ \A x \in p..w : x \in H /\ v[x] = v[p] + (x - p)

\* The block behind w points back to w, or to a header before it.
Backed(H, B, v, nx, pv) ==
    \A w \in B : nx[w] # Null =>
        pv[nx[w]] \in Aligned /\ Run(H, v, pv[nx[w]], w)

Shape(H, T, B, v, sz, nx, pv, hd) ==
    /\ Typed(H, T, v, sz, nx, pv)
    /\ Placed(H, B, sz)
    /\ Covered(H, B, sz)
    /\ Linear(B, v, sz)
    /\ Ordered(B, v, sz)
    /\ Chained(T, B, v, sz, nx)
    /\ Headed(B, v, pv, hd)
    /\ Nested(B, sz)
    /\ Backed(H, B, v, nx, pv)

-----------------------------------------------------------------------------
(* The invariant                                                            *)

Total == Cardinality(frames) * FrameSize

\* While a block is cut in two, the new block is one, though not linked yet.
Links(nx) == IF Cutting THEN [nx EXCEPT ![current] = new_block] ELSE nx

Listed(B, v, sz, nx, pv) == Shape(HeapBytes, Total, B, v, sz, Links(nx), pv, head)

\* Headers were written at the beginning of records of the heap only.
Unused(sz) == \A x \in Addr : x \in HeapBytes \cap Aligned \/ sz[x] = 0

\* What belongs to a task is taken, and the rest is free.
Owners(B) ==
    /\ owned \subseteq B /\ boot \subseteq owned
    /\ \A b \in owned : ~free[b] /\ magic[b] = "ALLOC"
    /\ \A b \in B \ owned :
          \/ b = current /\ pc \in {"link", "stamp"}
          \/ free[b] /\ magic[b] = "FREE"
    /\ diag = "none"

\* Where kmalloc stands in the list.
Standing(B, nx) ==
    pc # "idle" =>
        /\ \/ current = Null /\ pc \in {"free", "request"}
           \/ current \in B /\ pc # "request"
        /\ \/ last = Null /\ current = head
           \/ last \in B /\ last # current /\ Links(nx)[last] = current

\* The block that kmalloc has found.
Found ==
    /\ pc \in {"size", "take", "split", "split_next", "shrink", "split_take"} =>
          current \notin owned /\ free[current]
    /\ pc \in {"link", "stamp"} => current \notin owned /\ ~free[current]

\* What kmalloc has written of the new block before it shrinks the old one.
Draft(sz, nx, pv) ==
    /\ pc \in {"split", "split_next", "shrink"} => sz[current] > Size + BLOCK_SIZE
    /\ pc \in {"split_next", "shrink"} => sz[new_block] = Rest(sz[current])
    /\ pc = "shrink" => nx[new_block] = nx[current] /\ pv[new_block] = current

DraftFree ==
    /\ pc \in {"split_next", "shrink"} => free[new_block]
    /\ pc = "shrink" => magic[new_block] = "FREE"

\* The block behind the new one does not point back to it yet.
Cut(B, sz, nx, pv) ==
    Cutting => /\ new_block \in B /\ new_block \notin owned
               /\ sz[current] = Size /\ nx[current] = nx[new_block]
               /\ nx[new_block] # Null => pv[nx[new_block]] # new_block

Types ==
    /\ free \in [Addr -> BOOLEAN]
    /\ magic \in [Addr -> {"none", "FREE", "ALLOC"}]
    /\ frames \subseteq 0..(Frames - 1)
    /\ pc \in {"idle", "free", "size", "advance", "request", "split",
               "split_next", "shrink", "take", "split_take", "link", "stamp"}
    /\ pc = "idle" => current = Null /\ last = Null

Pointers(nx) == nx \in [Addr -> Addr \cup {Null}]

HeapInv(B, v) ==
    /\ Types
    /\ Listed(B, v, size, next, prev)
    /\ Pointers(next) /\ Unused(size)
    /\ Owners(B)
    /\ Standing(B, next)
    /\ Found
    /\ Draft(size, next, prev) /\ DraftFree
    /\ Cut(B, size, next, prev)

IndInv == ~raced => \E B, v : HeapInv(B, v)

-----------------------------------------------------------------------------
(* Arithmetic                                                               *)

LEMMA Sizes ==
    /\ BLOCK_SIZE \in Nat \ {0} /\ Size \in Nat \ {0} /\ FrameSize \in Nat \ {0}
    /\ Frames \in Nat /\ Unit \in Nat \ {0} /\ Unit = BLOCK_SIZE + Size
    /\ Null \in Nat /\ Null = Frames * FrameSize
<1>1. /\ BLOCK_SIZE \in Nat \ {0} /\ Size \in Nat \ {0} /\ FrameSize \in Nat \ {0}
      /\ Frames \in Nat
  BY HeapAssumption
<1>2. Unit \in Nat \ {0} /\ Unit = BLOCK_SIZE + Size
  BY <1>1 DEF Unit
<1>3. Null \in Nat /\ Null = Frames * FrameSize
  BY <1>1 DEF Null
<1> QED
  BY <1>1, <1>2, <1>3

LEMMA TimesOrder ==
    ASSUME NEW i \in Nat, NEW j \in Nat, NEW n \in Nat \ {0}
    PROVE  /\ i <= j <=> i * n <= j * n
           /\ (i + 1) * n = i * n + n /\ (i + j) * n = i * n + j * n
           /\ i * n \in Nat /\ j * n \in Nat
  OBVIOUS

LEMMA AlignedNat == Aligned \subseteq Nat /\ 0 \in Aligned /\ Unit \in Aligned
<1>1. Aligned \subseteq Nat
  BY Sizes DEF Aligned
<1>2. 0 = 0 * Unit /\ Unit = 1 * Unit
  BY Sizes
<1> QED
  BY <1>1, <1>2 DEF Aligned

LEMMA AlignedPlus ==
    ASSUME NEW a \in Aligned, NEW b \in Aligned
    PROVE  a + b \in Aligned
<1>1. PICK i \in Nat : a = i * Unit
  BY DEF Aligned
<1>2. PICK j \in Nat : b = j * Unit
  BY DEF Aligned
<1>3. a + b = (i + j) * Unit
  BY <1>1, <1>2, TimesOrder, Sizes
<1> QED
  BY <1>3 DEF Aligned

LEMMA AlignedNext ==
    ASSUME NEW a \in Aligned, NEW b \in Aligned, a < b
    PROVE  a + Unit <= b
<1>1. PICK i \in Nat : a = i * Unit
  BY DEF Aligned
<1>2. PICK j \in Nat : b = j * Unit
  BY DEF Aligned
<1>3. i + 1 <= j
  <2>1. ~(j <= i)
    BY <1>1, <1>2, TimesOrder, Sizes
  <2> QED
    BY <2>1
<1>4. (i + 1) * Unit <= j * Unit /\ (i + 1) * Unit = a + Unit
  <2>1. PICK k \in Nat : k = i + 1
    OBVIOUS
  <2>2. k * Unit <= j * Unit
    BY <1>3, <2>1, TimesOrder, Sizes
  <2> QED
    BY <1>1, <2>1, <2>2, TimesOrder, Sizes
<1> QED
  BY <1>2, <1>4

LEMMA Divides ==
    ASSUME NEW a \in Nat, NEW n \in Nat \ {0}, a % n = 0
    PROVE  \E k \in Nat : a = k * n
<1>1. a = n * (a \div n) + (a % n)
  OBVIOUS
<1>2. a \div n \in Nat
  OBVIOUS
<1>3. a = (a \div n) * n
  BY <1>1, <1>2
<1> QED
  BY <1>2, <1>3

\* A frame holds whole records, and so does the memory of the heap.
LEMMA AlignedFrame ==
    ASSUME NEW f \in Nat
    PROVE  f * FrameSize \in Aligned
<1>1. PICK k \in Nat : FrameSize = k * Unit
  <2>1. FrameSize % Unit = 0
    BY HeapAssumption DEF Unit
  <2> QED
    BY <2>1, Divides, Sizes
<1>2. f * FrameSize = (f * k) * Unit /\ f * k \in Nat
  BY <1>1, Sizes
<1> QED
  BY <1>2 DEF Aligned

LEMMA NullUnits ==
    /\ Null \div Unit \in Nat /\ (Null \div Unit) * Unit = Null
<1>1. Null \in Aligned
  BY AlignedFrame, Sizes
<1>2. PICK k \in Nat : Null = k * Unit
  BY <1>1 DEF Aligned
<1>3. PICK q \in Nat : q = Null \div Unit
  BY Sizes
<1>4. q * Unit <= Null /\ Null < (q + 1) * Unit
  BY <1>3, Sizes
<1>5. q <= k /\ ~(q + 1 <= k)
  <2>1. q <= k
    BY <1>2, <1>4, TimesOrder, Sizes
  <2>2. PICK r \in Nat : r = q + 1
    OBVIOUS
  <2>3. ~(r <= k)
    BY <1>2, <1>4, <2>2, TimesOrder, Sizes
  <2> QED
    BY <2>1, <2>2, <2>3
<1>6. q = k
  BY <1>5
<1> QED
  BY <1>2, <1>3, <1>6

\* Frames do not overlap.
LEMMA FrameBytes ==
    ASSUME NEW f \in 0..(Frames - 1), NEW g \in 0..(Frames - 1), NEW x,
           x \in (f * FrameSize)..((f + 1) * FrameSize - 1)
    PROVE  /\ x \in Addr
           /\ x \in (g * FrameSize)..((g + 1) * FrameSize - 1) => f = g
<1>1. f \in Nat /\ g \in Nat /\ f + 1 <= Frames /\ f + 1 \in Nat /\ g + 1 \in Nat
  BY Sizes
<1>2. (f + 1) * FrameSize <= Null /\ f * FrameSize \in Nat /\ x \in Nat
  <2>1. (f + 1) * FrameSize <= Frames * FrameSize
    BY <1>1, TimesOrder, Sizes
  <2> QED
    BY <1>1, <2>1, TimesOrder, Sizes
<1>3. x \in Addr
  BY <1>1, <1>2, TimesOrder, Sizes DEF Addr
<1>4. ASSUME x \in (g * FrameSize)..((g + 1) * FrameSize - 1) PROVE f = g
  <2>1. /\ f * FrameSize <= x /\ x < (f + 1) * FrameSize
        /\ g * FrameSize <= x /\ x < (g + 1) * FrameSize
    BY <1>1, <1>2, <1>4, TimesOrder, Sizes
  <2>2. ~((f + 1) * FrameSize <= g * FrameSize) /\ ~((g + 1) * FrameSize <= f * FrameSize)
    BY <1>1, <1>2, <2>1, TimesOrder, Sizes
  <2>3. ~(f + 1 <= g) /\ ~(g + 1 <= f)
    BY <1>1, <2>2, TimesOrder, Sizes
  <2> QED
    BY <1>1, <2>3
<1> QED
  BY <1>3, <1>4

-----------------------------------------------------------------------------
(* What a shape says                                                        *)

LEMMA BlockFacts ==
    ASSUME NEW H, NEW T, NEW B, NEW v, NEW sz, NEW nx, NEW pv, NEW hd,
           Shape(H, T, B, v, sz, nx, pv, hd), NEW b \in B
    PROVE  /\ b \in Nat /\ b \in Addr /\ b \in H /\ b \in Aligned
           /\ b # Null /\ sz[b] \in Nat
           /\ End(sz, b) = b + BLOCK_SIZE + sz[b] /\ End(sz, b) \in Nat
           /\ End(sz, b) \in Aligned /\ End(sz, b) <= Null
           /\ b + Unit <= End(sz, b) /\ sz[b] >= Size
           /\ v[b] \in Nat /\ After(v, sz, b) \in Nat /\ After(v, sz, b) <= T
           /\ After(v, sz, b) = v[b] + (End(sz, b) - b)
           /\ v[b] + Unit <= After(v, sz, b)
<1>1. /\ H \subseteq Addr /\ T \in Nat /\ v \in [H -> 0..(T - 1)] /\ sz \in [Addr -> Nat]
  BY DEF Shape, Typed
<1>2. /\ b \in Aligned /\ End(sz, b) \in Aligned /\ b < End(sz, b)
      /\ \A x \in b..(End(sz, b) - 1) : x \in H
  BY DEF Shape, Placed
<1>3. b \in Nat /\ End(sz, b) \in Nat
  BY <1>2, AlignedNat
<1>4. b \in b..(End(sz, b) - 1) /\ End(sz, b) - 1 \in b..(End(sz, b) - 1)
  BY <1>2, <1>3
<1>5. b \in H /\ End(sz, b) - 1 \in H
  BY <1>2, <1>4
<1>6. b \in Addr /\ End(sz, b) - 1 \in Addr /\ sz[b] \in Nat
  BY <1>1, <1>5
<1>7. b # Null /\ End(sz, b) <= Null
  BY <1>3, <1>6, Sizes DEF Addr
<1>8. b + Unit <= End(sz, b)
  BY <1>2, AlignedNext
<1>9. End(sz, b) = b + BLOCK_SIZE + sz[b]
  BY DEF End
<1>10. sz[b] >= Size
  BY <1>3, <1>6, <1>8, <1>9, Sizes
<1>11. v[b] \in 0..(T - 1) /\ v[End(sz, b) - 1] \in 0..(T - 1)
  BY <1>1, <1>5
<1>12. v[End(sz, b) - 1] = v[b] + ((End(sz, b) - 1) - b)
  BY <1>4 DEF Shape, Linear
<1>13. After(v, sz, b) = v[b] + (End(sz, b) - b)
  BY DEF After
<1>14. After(v, sz, b) \in Nat /\ After(v, sz, b) <= T /\ v[b] + Unit <= After(v, sz, b)
  BY <1>1, <1>3, <1>8, <1>11, <1>12, <1>13, Sizes
<1> QED
  BY <1>2, <1>3, <1>5, <1>6, <1>7, <1>8, <1>9, <1>10, <1>11, <1>13, <1>14

\* No byte is in two blocks.
LEMMA Disjoint ==
    ASSUME NEW H, NEW T, NEW B, NEW v, NEW sz, NEW nx, NEW pv, NEW hd,
           Shape(H, T, B, v, sz, nx, pv, hd), NEW a \in B, NEW b \in B, NEW x,
           x \in a..(End(sz, a) - 1), x \in b..(End(sz, b) - 1)
    PROVE  a = b
<1> SUFFICES ASSUME a # b PROVE FALSE
  OBVIOUS
<1>1. v[x] = v[a] + (x - a) /\ v[x] = v[b] + (x - b)
  BY DEF Shape, Linear
<1>2. After(v, sz, a) <= v[b] \/ After(v, sz, b) <= v[a]
  BY DEF Shape, Ordered
<1>3. /\ a \in Nat /\ v[a] \in Nat /\ End(sz, a) \in Nat
      /\ After(v, sz, a) = v[a] + (End(sz, a) - a)
  BY BlockFacts
<1>4. /\ b \in Nat /\ v[b] \in Nat /\ End(sz, b) \in Nat
      /\ After(v, sz, b) = v[b] + (End(sz, b) - b)
  BY BlockFacts
<1>5. x \in Nat /\ a <= x /\ x < End(sz, a) /\ b <= x /\ x < End(sz, b)
  BY <1>3, <1>4
<1> QED
  BY <1>1, <1>2, <1>3, <1>4, <1>5

\* The link forward leads to a block that no other link leads to.
LEMMA Forward ==
    ASSUME NEW H, NEW T, NEW B, NEW v, NEW sz, NEW nx, NEW pv, NEW hd,
           Shape(H, T, B, v, sz, nx, pv, hd), NEW a \in B
    PROVE  /\ nx[a] # Null => /\ nx[a] \in B /\ v[nx[a]] = After(v, sz, a)
                              /\ nx[a] # a /\ nx[a] # hd
           /\ nx[a] = Null => After(v, sz, a) = T
           /\ \A b \in B : nx[a] = nx[b] => a = b
<1>1. /\ v[a] \in Nat /\ After(v, sz, a) \in Nat /\ v[a] < After(v, sz, a)
  BY BlockFacts, Sizes
<1>2. \/ nx[a] = Null /\ After(v, sz, a) = T
      \/ nx[a] \in B /\ v[nx[a]] = After(v, sz, a)
  BY DEF Shape, Chained
<1>3. \A b \in B : b # Null
  BY BlockFacts
<1>4. nx[a] # Null => nx[a] \in B /\ v[nx[a]] = After(v, sz, a) /\ nx[a] # a /\ nx[a] # hd
  BY <1>1, <1>2 DEF Shape, Headed
<1>5. ASSUME NEW b \in B, nx[a] = nx[b], a # b PROVE FALSE
  <2>1. /\ v[b] \in Nat /\ After(v, sz, b) \in Nat /\ v[b] < After(v, sz, b)
    BY BlockFacts, Sizes
  <2>2. \/ nx[b] = Null /\ After(v, sz, b) = T
        \/ nx[b] \in B /\ v[nx[b]] = After(v, sz, b)
    BY DEF Shape, Chained
  <2>3. After(v, sz, a) = After(v, sz, b)
    BY <1>2, <1>3, <1>5, <2>2
  <2>4. After(v, sz, a) <= v[b] \/ After(v, sz, b) <= v[a]
    BY <1>5 DEF Shape, Ordered
  <2> QED
    BY <1>1, <2>1, <2>3, <2>4
<1> QED
  BY <1>2, <1>3, <1>4, <1>5

\* Induction: a set with 0, and with n + 1 if with n, has all the naturals.
LEMMA NatInductiveSet ==
    ASSUME NEW S, 0 \in S, \A n \in Nat : n \in S => n + 1 \in S
    PROVE  Nat \subseteq S
<1> DEFINE T == Nat \ S
<1>1. SUFFICES ASSUME T # {} PROVE FALSE
  OBVIOUS
<1>2. PICK x \in T : \A y \in T : ~(<<y, x>> \in OpToRel(<, Nat))
  BY <1>1, WFMin, NatLessThanWellFounded
<1>3. \A y \in T : ~(y < x)
  BY <1>2 DEF OpToRel
<1>4. x # 0 /\ x \in Nat
  OBVIOUS
<1>5. x - 1 \in Nat /\ x - 1 < x
  BY <1>4
<1>6. x - 1 \in S
  BY <1>3, <1>5
<1>7. (x - 1) + 1 \in S
  BY <1>5, <1>6
<1> QED
  BY <1>4, <1>7

\* Every position is in a block.
LEMMA Dense ==
    ASSUME NEW H, NEW T, NEW B, NEW v, NEW sz, NEW nx, NEW pv, NEW hd,
           Shape(H, T, B, v, sz, nx, pv, hd), hd \in B,
           NEW i \in Nat, i < T
    PROVE  \E b \in B : v[b] <= i /\ i < After(v, sz, b)
<1> DEFINE S == {n \in Nat : n < T => \E b \in B : v[b] <= n /\ n < After(v, sz, b)}
<1>1. T \in Nat
  BY DEF Shape, Typed
<1>2. 0 \in S
  <2>1. v[hd] = 0
    BY BlockFacts DEF Shape, Headed
  <2>2. 0 < After(v, sz, hd)
    BY <2>1, BlockFacts, Sizes
  <2> QED
    BY <2>1, <2>2
<1>3. ASSUME NEW n \in Nat, n \in S PROVE n + 1 \in S
  <2> SUFFICES ASSUME n + 1 < T
               PROVE  \E b \in B : v[b] <= n + 1 /\ n + 1 < After(v, sz, b)
    OBVIOUS
  <2>1. PICK b \in B : v[b] <= n /\ n < After(v, sz, b)
    BY <1>1, <1>3
  <2>2. v[b] \in Nat /\ After(v, sz, b) \in Nat
    BY BlockFacts
  <2>3. CASE n + 1 < After(v, sz, b)
    BY <2>1, <2>2, <2>3
  <2>4. CASE n + 1 = After(v, sz, b)
    <3>1. nx[b] # Null
      BY <1>1, <2>4, Forward
    <3>2. nx[b] \in B /\ v[nx[b]] = n + 1
      BY <2>4, <3>1, Forward
    <3>3. n + 1 < After(v, sz, nx[b])
      <4>1. PICK c \in B : c = nx[b]
        BY <3>2
      <4>2. v[c] \in Nat /\ After(v, sz, c) \in Nat /\ v[c] + Unit <= After(v, sz, c)
        BY BlockFacts
      <4> QED
        BY <3>2, <4>1, <4>2, Sizes
    <3> QED
      BY <3>2, <3>3
  <2> QED
    BY <2>1, <2>2, <2>3, <2>4
<1>4. i \in S
  <2> HIDE DEF S
  <2> QED
    BY <1>2, <1>3, NatInductiveSet
<1> QED
  BY <1>4

\* A block that is not the first one is behind another.
LEMMA Predecessor ==
    ASSUME NEW H, NEW T, NEW B, NEW v, NEW sz, NEW nx, NEW pv, NEW hd,
           Shape(H, T, B, v, sz, nx, pv, hd), NEW b \in B, b # hd
    PROVE  \E w \in B : nx[w] = b
<1>1. hd \in B /\ v[hd] = 0
  BY DEF Shape, Headed
<1>2. /\ v[b] \in Nat /\ After(v, sz, b) \in Nat /\ v[b] < After(v, sz, b)
      /\ After(v, sz, b) <= T
  BY BlockFacts, Sizes
<1>3. After(v, sz, hd) \in Nat /\ 0 < After(v, sz, hd)
  BY <1>1, BlockFacts, Sizes
<1>4. After(v, sz, hd) <= v[b] \/ After(v, sz, b) <= v[hd]
  BY <1>1 DEF Shape, Ordered
<1>5. PICK i \in Nat : i + 1 = v[b]
  <2>1. v[b] - 1 \in Nat /\ (v[b] - 1) + 1 = v[b]
    BY <1>1, <1>2, <1>3, <1>4
  <2> QED
    BY <2>1
<1>6. T \in Nat
  BY DEF Shape, Typed
<1>7. i < T
  BY <1>2, <1>5, <1>6
<1>8. PICK w \in B : v[w] <= i /\ i < After(v, sz, w)
  BY <1>1, <1>7, Dense
<1>9. v[w] \in Nat /\ After(v, sz, w) \in Nat
  BY BlockFacts
<1>10. w # b
  BY <1>2, <1>5, <1>8
<1>11. After(v, sz, w) <= v[b] \/ After(v, sz, b) <= v[w]
  BY <1>10 DEF Shape, Ordered
<1>12. After(v, sz, w) = v[b]
  BY <1>2, <1>5, <1>8, <1>9, <1>11
<1>13. nx[w] # Null
  BY <1>2, <1>6, <1>12, Forward
<1>14. nx[w] \in B /\ v[nx[w]] = v[b]
  BY <1>12, <1>13, Forward
<1>15. nx[w] = b
  <2> SUFFICES ASSUME nx[w] # b PROVE FALSE
    OBVIOUS
  <2>1. PICK c \in B : c = nx[w]
    BY <1>14
  <2>2. v[c] \in Nat /\ After(v, sz, c) \in Nat /\ v[c] < After(v, sz, c)
    BY BlockFacts, Sizes
  <2>3. After(v, sz, c) <= v[b] \/ After(v, sz, b) <= v[c]
    BY <2>1 DEF Shape, Ordered
  <2> QED
    BY <1>2, <1>14, <2>1, <2>2, <2>3
<1> QED
  BY <1>15

\* kfree merges with a header only if that is the block before.
LEMMA TrueBack ==
    ASSUME NEW H, NEW T, NEW B, NEW v, NEW sz, NEW nx, NEW pv, NEW hd,
           Shape(H, T, B, v, sz, nx, pv, hd), NEW w \in B, nx[w] # Null,
           End(sz, pv[nx[w]]) = nx[w]
    PROVE  pv[nx[w]] = w
<1> DEFINE b == nx[w]
           p == pv[b]
<1>1. b \in B /\ v[b] = After(v, sz, w)
  BY Forward
<1>2. p \in Aligned /\ Run(H, v, p, w)
  BY DEF Shape, Backed
<1>3. p \in Nat /\ p <= w /\ \A x \in p..w : x \in H /\ v[x] = v[p] + (x - p)
  BY <1>2, AlignedNat DEF Run
<1>4. w \in Nat /\ v[w] \in Nat /\ v[w] < After(v, sz, w) /\ After(v, sz, w) \in Nat
  BY BlockFacts, Sizes
<1>5. p \in p..w /\ w \in p..w
  BY <1>3, <1>4
<1>6. p \in H /\ v[w] = v[p] + (w - p)
  BY <1>3, <1>5
<1>7. PICK X \in B : p \in X..(End(sz, X) - 1)
  BY <1>6 DEF Shape, Covered
<1>8. /\ X \in Nat /\ End(sz, X) \in Nat /\ v[X] \in Nat /\ After(v, sz, X) \in Nat
      /\ After(v, sz, X) = v[X] + (End(sz, X) - X)
  BY BlockFacts
<1>9. v[p] = v[X] + (p - X) /\ End(sz, p) <= End(sz, X)
  BY <1>2, <1>7 DEF Shape, Linear, Nested
<1>10. sz[p] \in Nat /\ v[p] \in Nat
  BY <1>6 DEF Shape, Typed
<1>11. p < b /\ b \in Nat /\ b <= End(sz, X) /\ End(sz, b) \in Nat /\ b < End(sz, b)
  <2>1. b \in Nat /\ End(sz, b) \in Nat /\ b < End(sz, b)
    BY <1>1, BlockFacts, Sizes
  <2>2. p + BLOCK_SIZE + sz[p] = b
    BY DEF End
  <2> QED
    BY <1>3, <1>9, <1>10, <2>1, <2>2, Sizes
<1>12. b = End(sz, X)
  <2> SUFFICES ASSUME b # End(sz, X) PROVE FALSE
    OBVIOUS
  <2>1. b \in X..(End(sz, X) - 1) /\ b \in b..(End(sz, b) - 1)
    BY <1>3, <1>7, <1>8, <1>11
  <2>2. X = b
    BY <1>1, <2>1, Disjoint
  <2> QED
    BY <1>3, <1>7, <1>8, <1>11, <2>2
<1> HIDE DEF b, p
<1>13. X = w
  <2> SUFFICES ASSUME X # w PROVE FALSE
    OBVIOUS
  <2>1. After(v, sz, X) <= v[w] \/ After(v, sz, w) <= v[X]
    BY DEF Shape, Ordered
  <2>2. X <= p /\ v[X] <= v[p] /\ v[p] <= v[w]
    BY <1>3, <1>4, <1>6, <1>7, <1>8, <1>9, <1>10
  <2>3. After(v, sz, X) <= v[w]
    BY <1>4, <1>8, <1>10, <2>1, <2>2
  <2>4. b <= w
    BY <1>3, <1>4, <1>6, <1>8, <1>9, <1>10, <1>11, <1>12, <2>3
  <2>5. b \in p..w
    BY <1>3, <1>4, <1>11, <2>4
  <2>6. v[b] = v[p] + (b - p)
    BY <1>3, <2>5
  <2> QED
    BY <1>1, <1>3, <1>4, <1>6, <1>10, <1>11, <2>4, <2>6
<1>14. p = w
  BY <1>3, <1>4, <1>7, <1>8, <1>13
<1> QED
  BY <1>14 DEF b, p

-----------------------------------------------------------------------------
(* What the operations do to a shape                                        *)

\* Block a swallows the block b behind it.
LEMMA MergeShape ==
    ASSUME NEW H, NEW T, NEW B, NEW v, NEW sz, NEW nx, NEW pv, NEW hd,
           Shape(H, T, B, v, sz, nx, pv, hd), NEW a \in B, NEW b \in B,
           nx[a] = b, End(sz, a) = b, NEW s2, NEW n2, NEW p2,
           s2 = [sz EXCEPT ![a] = sz[a] + BLOCK_SIZE + sz[b]],
           n2 = [nx EXCEPT ![a] = nx[b]],
           p2 = IF nx[b] = Null THEN pv ELSE [pv EXCEPT ![nx[b]] = a]
    PROVE  Shape(H, T, B \ {b}, v, s2, n2, p2, hd)
<1> DEFINE C == B \ {b}
<1>1. /\ H \subseteq Addr /\ T \in Nat /\ v \in [H -> 0..(T - 1)] /\ sz \in [Addr -> Nat]
      /\ nx \in [Addr -> Addr \cup {Null}] /\ pv \in [Addr -> Addr \cup {Null}]
  BY DEF Shape, Typed
<1>2. /\ a \in Nat /\ a \in Addr /\ a \in H /\ a \in Aligned /\ a # Null /\ sz[a] \in Nat
      /\ v[a] \in Nat /\ After(v, sz, a) \in Nat /\ a < b
      /\ After(v, sz, a) = v[a] + (b - a)
  BY BlockFacts, Sizes
<1>3. /\ b \in Nat /\ b \in Addr /\ b \in Aligned /\ b # Null /\ sz[b] \in Nat
      /\ End(sz, b) = b + BLOCK_SIZE + sz[b] /\ End(sz, b) \in Nat
      /\ End(sz, b) \in Aligned /\ b < End(sz, b)
      /\ v[b] \in Nat /\ After(v, sz, b) \in Nat
      /\ After(v, sz, b) = v[b] + (End(sz, b) - b)
  BY BlockFacts, Sizes
<1>4. v[b] = After(v, sz, a) /\ b # hd /\ \A c \in B : nx[c] = b => c = a
  BY <1>3, Forward
<1>5. /\ nx[b] # Null => /\ nx[b] \in B /\ v[nx[b]] = After(v, sz, b)
                         /\ nx[b] # b /\ nx[b] # hd
      /\ nx[b] = Null => After(v, sz, b) = T
      /\ \A c \in B : nx[c] = nx[b] => c = b
  BY Forward
<1>6. /\ s2 \in [Addr -> Nat] /\ s2[a] = sz[a] + BLOCK_SIZE + sz[b]
      /\ \A c : c \in Addr /\ c # a => s2[c] = sz[c]
  BY <1>1, <1>2, <1>3, Sizes
<1>7. /\ n2 \in [Addr -> Addr \cup {Null}] /\ n2[a] = nx[b]
      /\ \A c : c \in Addr /\ c # a => n2[c] = nx[c]
  BY <1>1, <1>2, <1>3
<1>8. /\ p2 \in [Addr -> Addr \cup {Null}]
      /\ nx[b] # Null => p2[nx[b]] = a
      /\ \A c : c \in Addr /\ c # nx[b] => p2[c] = pv[c]
  <2>1. CASE nx[b] = Null
    BY <1>1, <2>1
  <2>2. CASE nx[b] # Null
    <3>1. nx[b] \in Addr
      BY <1>1, <1>3, <2>2
    <3> QED
      BY <1>1, <1>2, <2>2, <3>1
  <2> QED
    BY <2>1, <2>2
<1>9. End(s2, a) = End(sz, b) /\ \A c : c \in Addr /\ c # a => End(s2, c) = End(sz, c)
  <2>1. a + BLOCK_SIZE + sz[a] = b
    BY DEF End
  <2>2. End(s2, a) = End(sz, b)
    BY <1>2, <1>3, <1>6, <2>1, Sizes DEF End
  <2> QED
    BY <1>6, <2>2 DEF End
<1>10. /\ After(v, s2, a) = After(v, sz, b)
       /\ \A c : c \in Addr /\ c # a => After(v, s2, c) = After(v, sz, c)
  <2>1. After(v, s2, a) = v[a] + (End(sz, b) - a)
    BY <1>9 DEF After
  <2>2. After(v, s2, a) = After(v, sz, b)
    BY <1>2, <1>3, <1>4, <2>1
  <2> QED
    BY <1>9, <2>2 DEF After
<1>11. /\ a \in C /\ C \subseteq B
       /\ \A c \in C : c # a => c \in Addr /\ c # b
  BY <1>2, <1>3, BlockFacts
<1>12. \A x \in a..(End(s2, a) - 1) : x \in a..(End(sz, a) - 1) \/ x \in b..(End(sz, b) - 1)
  BY <1>2, <1>3, <1>9
<1> HIDE DEF C
<1>13. Typed(H, T, v, s2, n2, p2)
  BY <1>1, <1>6, <1>7, <1>8 DEF Typed
<1>14. Placed(H, C, s2)
  <2> SUFFICES ASSUME NEW c \in C
               PROVE  /\ c \in Aligned /\ End(s2, c) \in Aligned /\ c < End(s2, c)
                      /\ \A x \in c..(End(s2, c) - 1) : x \in H
    BY DEF Placed
  <2>1. CASE c = a
    <3>1. End(s2, c) \in Aligned /\ c < End(s2, c)
      BY <1>2, <1>3, <1>9, <2>1
    <3>2. \A x \in a..(End(sz, a) - 1) : x \in H
      BY DEF Shape, Placed
    <3>3. \A x \in b..(End(sz, b) - 1) : x \in H
      BY DEF Shape, Placed
    <3> QED
      BY <1>2, <1>12, <2>1, <3>1, <3>2, <3>3
  <2>2. CASE c # a
    BY <1>9, <1>11, <2>2 DEF Shape, Placed
  <2> QED
    BY <2>1, <2>2
<1>15. Covered(H, C, s2)
  <2> SUFFICES ASSUME NEW x \in H PROVE \E c \in C : x \in c..(End(s2, c) - 1)
    BY DEF Covered
  <2>1. PICK c \in B : x \in c..(End(sz, c) - 1)
    BY DEF Shape, Covered
  <2>2. CASE c \in {a, b}
    <3>1. x \in a..(End(s2, a) - 1)
      BY <1>2, <1>3, <1>9, <2>1, <2>2
    <3> QED
      BY <1>11, <3>1
  <2>3. CASE c \notin {a, b}
    <3>1. c \in C /\ End(s2, c) = End(sz, c)
      BY <1>9, <2>3, BlockFacts DEF C
    <3> QED
      BY <2>1, <3>1
  <2> QED
    BY <2>2, <2>3
<1>16. Linear(C, v, s2)
  <2> SUFFICES ASSUME NEW c \in C, NEW x \in c..(End(s2, c) - 1)
               PROVE  v[x] = v[c] + (x - c)
    BY DEF Linear
  <2>1. CASE c = a /\ x \in a..(End(sz, a) - 1)
    BY <2>1 DEF Shape, Linear
  <2>2. CASE c = a /\ x \in b..(End(sz, b) - 1)
    <3>1. v[x] = v[b] + (x - b)
      BY <2>2 DEF Shape, Linear
    <3> QED
      BY <1>2, <1>3, <1>4, <2>2, <3>1
  <2>3. CASE c # a
    BY <1>9, <1>11, <2>3 DEF Shape, Linear
  <2> QED
    BY <1>12, <2>1, <2>2, <2>3
<1>17. Ordered(C, v, s2)
  <2>1. ASSUME NEW d \in C, d # a
        PROVE  After(v, s2, a) <= v[d] \/ After(v, s2, d) <= v[a]
    <3>1. d \in B /\ d # b /\ After(v, s2, d) = After(v, sz, d)
      BY <1>10, <1>11, <2>1
    <3>2. After(v, sz, a) <= v[d] \/ After(v, sz, d) <= v[a]
      BY <2>1, <3>1 DEF Shape, Ordered
    <3>3. After(v, sz, b) <= v[d] \/ After(v, sz, d) <= v[b]
      BY <3>1 DEF Shape, Ordered
    <3>4. v[d] \in Nat /\ After(v, sz, d) \in Nat /\ v[d] < After(v, sz, d)
      BY <3>1, BlockFacts, Sizes
    <3> QED
      BY <1>2, <1>3, <1>4, <1>10, <3>1, <3>2, <3>3, <3>4
  <2>2. ASSUME NEW c \in C, NEW d \in C, c # d, c # a, d # a
        PROVE  After(v, s2, c) <= v[d] \/ After(v, s2, d) <= v[c]
    BY <1>10, <1>11, <2>2 DEF Shape, Ordered
  <2> QED
    BY <2>1, <2>2 DEF Ordered
<1>18. Chained(T, C, v, s2, n2)
  <2> SUFFICES ASSUME NEW c \in C
               PROVE  \/ n2[c] = Null /\ After(v, s2, c) = T
                      \/ n2[c] \in C /\ v[n2[c]] = After(v, s2, c)
    BY DEF Chained
  <2>1. CASE c = a
    BY <1>5, <1>7, <1>10, <2>1 DEF C
  <2>2. CASE c # a
    <3>1. n2[c] = nx[c] /\ After(v, s2, c) = After(v, sz, c) /\ nx[c] # b /\ c \in B
      BY <1>4, <1>7, <1>10, <1>11, <2>2
    <3>2. \/ nx[c] = Null /\ After(v, sz, c) = T
          \/ nx[c] \in B /\ v[nx[c]] = After(v, sz, c)
      BY <3>1 DEF Shape, Chained
    <3> QED
      BY <3>1, <3>2 DEF C
  <2> QED
    BY <2>1, <2>2
<1>19. Headed(C, v, p2, hd)
  <2>1. hd \in B /\ v[hd] = 0 /\ pv[hd] = Null
    BY DEF Shape, Headed
  <2>2. hd # nx[b] /\ hd \in Addr
    BY <1>5, <2>1, BlockFacts
  <2> QED
    BY <1>4, <1>8, <2>1, <2>2 DEF Headed, C
<1>20. Nested(C, s2)
  <2> SUFFICES ASSUME NEW c \in C, NEW x \in c..(End(s2, c) - 1), x \in Aligned
               PROVE  End(s2, x) <= End(s2, c)
    BY DEF Nested
  <2>1. x \in Addr
    BY <1>1, <1>14 DEF Placed
  <2>2. CASE x = a
    <3>1. c = a
      <4> SUFFICES ASSUME c # a PROVE FALSE
        OBVIOUS
      <4>1. a \in a..(b - 1)
        BY <1>2, <1>3
      <4>2. c \in B /\ x \in c..(End(sz, c) - 1) /\ x \in a..(End(sz, a) - 1)
        BY <1>9, <1>11, <2>2, <4>1
      <4> QED
        BY <4>2, Disjoint
    <3> QED
      BY <1>3, <1>9, <2>2, <3>1
  <2>3. CASE x # a /\ c # a
    BY <1>9, <1>11, <2>1, <2>3 DEF Shape, Nested
  <2>4. CASE x # a /\ c = a /\ x \in b..(End(sz, b) - 1)
    BY <1>9, <2>1, <2>4 DEF Shape, Nested
  <2>5. CASE x # a /\ c = a /\ x \in a..(End(sz, a) - 1)
    <3>1. End(s2, x) <= b
      BY <1>9, <2>1, <2>5 DEF Shape, Nested
    <3>2. End(s2, x) \in Nat
      BY <1>6, <2>1, AlignedNat, Sizes DEF End
    <3> QED
      BY <1>3, <1>9, <2>5, <3>1, <3>2
  <2> QED
    BY <1>12, <2>2, <2>3, <2>4, <2>5
<1>21. Backed(H, C, v, n2, p2)
  <2> SUFFICES ASSUME NEW w \in C, n2[w] # Null
               PROVE  p2[n2[w]] \in Aligned /\ Run(H, v, p2[n2[w]], w)
    BY DEF Backed
  <2>1. CASE w = a
    <3>1. p2[n2[w]] = a
      BY <1>7, <1>8, <2>1
    <3>2. \A x \in a..a : x = a
      BY <1>2
    <3>3. Run(H, v, a, a)
      BY <1>2, <3>2 DEF Run
    <3> QED
      BY <1>2, <2>1, <3>1, <3>3
  <2>2. CASE w # a
    <3>1. w \in B /\ w # b /\ n2[w] = nx[w] /\ nx[w] # nx[b]
      BY <1>5, <1>7, <1>11, <2>2
    <3>2. nx[w] \in Addr
      BY <3>1, Forward, BlockFacts
    <3>3. p2[n2[w]] = pv[nx[w]]
      BY <1>8, <3>1, <3>2
    <3> QED
      BY <3>1, <3>3 DEF Shape, Backed
  <2> QED
    BY <2>1, <2>2
<1> QED
  BY <1>13, <1>14, <1>15, <1>16, <1>17, <1>18, <1>19, <1>20, <1>21 DEF Shape, C

\* A header inside of a block is not a block.
LEMMA Inner ==
    ASSUME NEW H, NEW T, NEW B, NEW v, NEW sz, NEW nx, NEW pv, NEW hd,
           Shape(H, T, B, v, sz, nx, pv, hd), NEW X \in B, NEW N,
           N \in X..(End(sz, X) - 1), N # X
    PROVE  N \notin B
<1> SUFFICES ASSUME N \in B PROVE FALSE
  OBVIOUS
<1>1. N \in Nat /\ End(sz, N) \in Nat /\ N < End(sz, N)
  BY BlockFacts, Sizes
<1>2. N \in N..(End(sz, N) - 1)
  BY <1>1
<1> QED
  BY <1>2, Disjoint

\* Only the fields of blocks matter, and that the headers inside are nested.
LEMMA SameShape ==
    ASSUME NEW H, NEW T, NEW B, NEW v, NEW sz, NEW nx, NEW pv, NEW hd,
           Shape(H, T, B, v, sz, nx, pv, hd), NEW s2, NEW n2, NEW p2,
           Typed(H, T, v, s2, n2, p2), Nested(B, s2),
           \A b \in B : s2[b] = sz[b] /\ n2[b] = nx[b] /\ p2[b] = pv[b]
    PROVE  Shape(H, T, B, v, s2, n2, p2, hd)
<1>1. \A b \in B : End(s2, b) = End(sz, b)
  BY DEF End
<1>2. \A b \in B : After(v, s2, b) = After(v, sz, b)
  BY <1>1 DEF After
<1>3. Placed(H, B, s2)
  BY <1>1 DEF Shape, Placed
<1>4. Covered(H, B, s2)
  BY <1>1 DEF Shape, Covered
<1>5. Linear(B, v, s2)
  BY <1>1 DEF Shape, Linear
<1>6. Ordered(B, v, s2)
  BY <1>2 DEF Shape, Ordered
<1>7. Chained(T, B, v, s2, n2)
  BY <1>2 DEF Shape, Chained
<1>8. Headed(B, v, p2, hd)
  BY DEF Shape, Headed
<1>9. Backed(H, B, v, n2, p2)
  <2>1. \A w \in B : nx[w] # Null => nx[w] \in B
    BY Forward
  <2> QED
    BY <2>1 DEF Shape, Backed
<1> QED
  BY <1>3, <1>4, <1>5, <1>6, <1>7, <1>8, <1>9 DEF Shape

\* The header of the block that a split is about to make is written.
LEMMA DraftShape ==
    ASSUME NEW H, NEW T, NEW B, NEW v, NEW sz, NEW nx, NEW pv, NEW hd,
           Shape(H, T, B, v, sz, nx, pv, hd), NEW X \in B, NEW N,
           N \in X..(End(sz, X) - 1), N # X, NEW s2, NEW n2, NEW p2,
           Typed(H, T, v, s2, n2, p2), End(s2, N) <= End(sz, X),
           \A b \in Addr : b # N => s2[b] = sz[b] /\ n2[b] = nx[b] /\ p2[b] = pv[b]
    PROVE  Shape(H, T, B, v, s2, n2, p2, hd)
<1>1. N \notin B
  BY Inner
<1>2. \A b \in B : b \in Addr /\ b # N
  BY <1>1, BlockFacts
<1>3. \A b \in B : s2[b] = sz[b] /\ n2[b] = nx[b] /\ p2[b] = pv[b]
  BY <1>2
<1>4. Nested(B, s2)
  <2> SUFFICES ASSUME NEW c \in B, NEW x \in c..(End(s2, c) - 1), x \in Aligned
               PROVE  End(s2, x) <= End(s2, c)
    BY DEF Nested
  <2>1. End(s2, c) = End(sz, c)
    BY <1>3 DEF End
  <2>2. x \in Addr
    BY <2>1 DEF Shape, Placed, Typed
  <2>3. CASE x = N
    <3>1. c = X
      BY <2>1, <2>3, Disjoint
    <3> QED
      BY <2>1, <2>3, <3>1
  <2>4. CASE x # N
    <3>1. End(s2, x) = End(sz, x)
      BY <2>2, <2>4 DEF End
    <3> QED
      BY <2>1, <3>1 DEF Shape, Nested
  <2> QED
    BY <2>3, <2>4
<1> QED
  BY <1>3, <1>4, SameShape

\* Where the new block of a split lies.
LEMMA RestFacts ==
    ASSUME NEW H, NEW T, NEW B, NEW v, NEW sz, NEW nx, NEW pv, NEW hd,
           Shape(H, T, B, v, sz, nx, pv, hd), NEW X \in B,
           sz[X] > Size + BLOCK_SIZE, NEW N, N = X + BLOCK_SIZE + Size
    PROVE  /\ N \in Nat /\ N \in Addr /\ N \in H /\ N \in Aligned /\ N # X
           /\ N = X + Unit /\ N \in X..(End(sz, X) - 1) /\ N < End(sz, X)
           /\ v[N] = v[X] + Unit /\ v[N] \in Nat /\ N \notin B
           /\ Rest(sz[X]) \in Nat /\ N + BLOCK_SIZE + Rest(sz[X]) = End(sz, X)
<1>1. /\ X \in Nat /\ sz[X] \in Nat /\ End(sz, X) \in Nat /\ v[X] \in Nat
      /\ End(sz, X) = X + BLOCK_SIZE + sz[X] /\ X \in Aligned
  BY BlockFacts
<1>2. N \in Nat /\ N = X + Unit /\ N # X /\ N \in X..(End(sz, X) - 1) /\ N < End(sz, X)
  BY <1>1, Sizes
<1>3. N \in H /\ v[N] = v[X] + (N - X)
  BY <1>2 DEF Shape, Placed, Linear
<1>4. N \in Aligned
  BY <1>1, <1>2, AlignedPlus, AlignedNat
<1>5. v[N] = v[X] + Unit /\ v[N] \in Nat
  BY <1>1, <1>2, <1>3, Sizes
<1>6. Rest(sz[X]) \in Nat /\ N + BLOCK_SIZE + Rest(sz[X]) = End(sz, X)
  BY <1>1, <1>2, Sizes DEF Rest
<1>7. N \in Addr
  BY <1>3 DEF Shape, Typed
<1>8. N \notin B
  BY <1>2, Inner
<1> QED
  BY <1>2, <1>3, <1>4, <1>5, <1>6, <1>7, <1>8

\* Block X is shrunk, and the block N behind it has been written before.
LEMMA SplitShape ==
    ASSUME NEW H, NEW T, NEW B, NEW v, NEW sz, NEW nx, NEW pv, NEW hd,
           Shape(H, T, B, v, sz, nx, pv, hd), NEW X \in B,
           sz[X] > Size + BLOCK_SIZE, NEW N, N = X + BLOCK_SIZE + Size,
           sz[N] = Rest(sz[X]), pv[N] = X, nx[N] = nx[X], NEW s2, NEW n2,
           s2 = [sz EXCEPT ![X] = Size], n2 = [nx EXCEPT ![X] = N]
    PROVE  Shape(H, T, B \cup {N}, v, s2, n2, pv, hd)
<1> DEFINE C == B \cup {N}
<1>1. /\ H \subseteq Addr /\ T \in Nat /\ v \in [H -> 0..(T - 1)] /\ sz \in [Addr -> Nat]
      /\ nx \in [Addr -> Addr \cup {Null}] /\ pv \in [Addr -> Addr \cup {Null}]
  BY DEF Shape, Typed
<1>2. /\ X \in Nat /\ X \in Addr /\ X \in H /\ X \in Aligned /\ X # Null /\ sz[X] \in Nat
      /\ v[X] \in Nat /\ End(sz, X) \in Nat /\ End(sz, X) \in Aligned
      /\ After(v, sz, X) \in Nat /\ After(v, sz, X) = v[X] + (End(sz, X) - X)
  BY BlockFacts
<1>3. /\ N \in Nat /\ N \in Addr /\ N \in H /\ N \in Aligned /\ N # X
      /\ N = X + Unit /\ N \in X..(End(sz, X) - 1) /\ N < End(sz, X)
      /\ v[N] = v[X] + Unit /\ v[N] \in Nat /\ N \notin B
      /\ N + BLOCK_SIZE + sz[N] = End(sz, X)
  BY RestFacts
<1>4. /\ s2 \in [Addr -> Nat] /\ s2[X] = Size
      /\ \A c : c \in Addr /\ c # X => s2[c] = sz[c]
  BY <1>1, <1>2, Sizes
<1>5. /\ n2 \in [Addr -> Addr \cup {Null}] /\ n2[X] = N
      /\ \A c : c \in Addr /\ c # X => n2[c] = nx[c]
  BY <1>1, <1>2, <1>3
<1>6. /\ End(s2, X) = N /\ End(s2, N) = End(sz, X)
      /\ \A c : c \in Addr /\ c # X => End(s2, c) = End(sz, c)
  <2>1. End(s2, X) = N
    BY <1>4 DEF End
  <2>2. End(s2, N) = End(sz, X)
    BY <1>3, <1>4 DEF End
  <2> QED
    BY <1>4, <2>1, <2>2 DEF End
<1>7. /\ After(v, s2, X) = v[N] /\ After(v, s2, N) = After(v, sz, X)
      /\ \A c : c \in Addr /\ c # X => After(v, s2, c) = After(v, sz, c)
  <2>1. After(v, s2, X) = v[X] + (N - X) /\ After(v, s2, N) = v[N] + (End(sz, X) - N)
    BY <1>6 DEF After
  <2>2. After(v, s2, X) = v[N] /\ After(v, s2, N) = After(v, sz, X)
    BY <1>2, <1>3, <2>1, Sizes
  <2> QED
    BY <1>6, <2>2 DEF After
<1>8. \A c \in C : c = N \/ c = X \/ (c \in B /\ c \in Addr /\ c # X /\ c # N)
  BY <1>3, BlockFacts
<1>9. X \in C /\ N \in C /\ B \subseteq C
  OBVIOUS
<1>10. /\ \A x \in X..(N - 1) : x \in X..(End(sz, X) - 1)
       /\ \A x \in N..(End(sz, X) - 1) : x \in X..(End(sz, X) - 1)
       /\ \A x \in X..(End(sz, X) - 1) : x \in X..(N - 1) \/ x \in N..(End(sz, X) - 1)
  BY <1>2, <1>3
<1> HIDE DEF C
<1>11. Typed(H, T, v, s2, n2, pv)
  BY <1>1, <1>4, <1>5 DEF Typed
<1>12. Placed(H, C, s2)
  <2> SUFFICES ASSUME NEW c \in C
               PROVE  /\ c \in Aligned /\ End(s2, c) \in Aligned /\ c < End(s2, c)
                      /\ \A x \in c..(End(s2, c) - 1) : x \in H
    BY DEF Placed
  <2>1. \A x \in X..(End(sz, X) - 1) : x \in H
    BY DEF Shape, Placed
  <2>2. CASE c = X
    <3>1. X < N
      BY <1>2, <1>3, Sizes
    <3> QED
      BY <1>2, <1>3, <1>6, <1>10, <2>1, <2>2, <3>1
  <2>3. CASE c = N
    BY <1>2, <1>3, <1>6, <1>10, <2>1, <2>3
  <2>4. CASE c \in B /\ c \in Addr /\ c # X /\ c # N
    BY <1>6, <2>4 DEF Shape, Placed
  <2> QED
    BY <1>8, <2>2, <2>3, <2>4
<1>13. Covered(H, C, s2)
  <2> SUFFICES ASSUME NEW x \in H PROVE \E c \in C : x \in c..(End(s2, c) - 1)
    BY DEF Covered
  <2>1. PICK c \in B : x \in c..(End(sz, c) - 1)
    BY DEF Shape, Covered
  <2>2. CASE c = X
    BY <1>6, <1>9, <1>10, <2>1, <2>2
  <2>3. CASE c # X
    <3>1. c \in C /\ End(s2, c) = End(sz, c)
      BY <1>6, <1>9, <2>3, BlockFacts
    <3> QED
      BY <2>1, <3>1
  <2> QED
    BY <2>2, <2>3
<1>14. Linear(C, v, s2)
  <2> SUFFICES ASSUME NEW c \in C, NEW x \in c..(End(s2, c) - 1)
               PROVE  v[x] = v[c] + (x - c)
    BY DEF Linear
  <2>1. \A y \in X..(End(sz, X) - 1) : v[y] = v[X] + (y - X)
    BY DEF Shape, Linear
  <2>2. CASE c = X
    BY <1>6, <1>10, <2>1, <2>2
  <2>3. CASE c = N
    <3>1. x \in N..(End(sz, X) - 1)
      BY <1>6, <2>3
    <3>2. v[x] = v[X] + (x - X)
      BY <1>10, <2>1, <3>1
    <3> QED
      BY <1>2, <1>3, <2>3, <3>1, <3>2, Sizes
  <2>4. CASE c \in B /\ c \in Addr /\ c # X /\ c # N
    BY <1>6, <2>4 DEF Shape, Linear
  <2> QED
    BY <1>8, <2>2, <2>3, <2>4
<1>15. Ordered(C, v, s2)
  <2>1. ASSUME NEW d \in B, d \in Addr, d # X, d # N
        PROVE  /\ After(v, s2, X) <= v[d] \/ After(v, s2, d) <= v[X]
               /\ After(v, s2, N) <= v[d] \/ After(v, s2, d) <= v[N]
    <3>1. After(v, s2, d) = After(v, sz, d)
      BY <1>7, <2>1
    <3>2. After(v, sz, X) <= v[d] \/ After(v, sz, d) <= v[X]
      BY <2>1 DEF Shape, Ordered
    <3>3. v[d] \in Nat /\ After(v, sz, d) \in Nat
      BY BlockFacts
    <3> QED
      BY <1>2, <1>3, <1>7, <3>1, <3>2, <3>3, Sizes
  <2>2. After(v, s2, X) <= v[N]
    BY <1>3, <1>7
  <2>3. ASSUME NEW c \in B, c \in Addr, c # X, NEW d \in B, d \in Addr, d # X, c # d
        PROVE  After(v, s2, c) <= v[d] \/ After(v, s2, d) <= v[c]
    BY <1>7, <2>3 DEF Shape, Ordered
  <2> SUFFICES ASSUME NEW c \in C, NEW d \in C, c # d
               PROVE  After(v, s2, c) <= v[d] \/ After(v, s2, d) <= v[c]
    BY DEF Ordered
  <2>4. CASE c = X
    BY <1>8, <2>1, <2>2, <2>4
  <2>5. CASE c = N
    BY <1>8, <2>1, <2>2, <2>5
  <2>6. CASE c \in B /\ c \in Addr /\ c # X /\ c # N
    BY <1>8, <2>1, <2>3, <2>6
  <2> QED
    BY <1>8, <2>4, <2>5, <2>6
<1>16. Chained(T, C, v, s2, n2)
  <2> SUFFICES ASSUME NEW c \in C
               PROVE  \/ n2[c] = Null /\ After(v, s2, c) = T
                      \/ n2[c] \in C /\ v[n2[c]] = After(v, s2, c)
    BY DEF Chained
  <2>1. \A b \in B : \/ nx[b] = Null /\ After(v, sz, b) = T
                     \/ nx[b] \in B /\ v[nx[b]] = After(v, sz, b)
    BY DEF Shape, Chained
  <2>2. CASE c = X
    BY <1>5, <1>7, <1>9, <2>2
  <2>3. CASE c = N
    <3>1. n2[N] = nx[X]
      BY <1>3, <1>5
    <3>2. \/ nx[X] = Null /\ After(v, sz, X) = T
          \/ nx[X] \in C /\ v[nx[X]] = After(v, sz, X)
      BY <1>9, <2>1
    <3>3. After(v, s2, N) = After(v, sz, X)
      BY <1>7
    <3> QED
      BY <2>3, <3>1, <3>2, <3>3, Zenon
  <2>4. CASE c \in B /\ c \in Addr /\ c # X /\ c # N
    BY <1>5, <1>7, <1>9, <2>1, <2>4
  <2> QED
    BY <1>8, <2>2, <2>3, <2>4
<1>17. Headed(C, v, pv, hd)
  BY <1>9 DEF Shape, Headed
<1>18. Nested(C, s2)
  <2> SUFFICES ASSUME NEW c \in C, NEW x \in c..(End(s2, c) - 1), x \in Aligned
               PROVE  End(s2, x) <= End(s2, c)
    BY DEF Nested
  <2>1. x \in Addr
    BY <1>1, <1>12 DEF Placed
  <2>2. CASE c = X
    <3>1. x \in X..(N - 1)
      BY <1>6, <2>2
    <3>2. x = X
      <4> SUFFICES ASSUME x # X PROVE FALSE
        OBVIOUS
      <4>1. X < x /\ x < N /\ x \in Nat
        <5>1. x \in Nat /\ X <= x
          BY <1>2, <3>1
        <5>2. x < N
          BY <1>2, <1>3, <3>1
        <5> QED
          BY <1>2, <5>1, <5>2
      <4>2. X + Unit <= x
        BY <1>2, <4>1, AlignedNext
      <4> QED
        BY <1>2, <1>3, <4>1, <4>2, Sizes
    <3> QED
      BY <1>3, <1>6, <2>2, <3>2
  <2>3. CASE c = N
    <3>1. x \in N..(End(sz, X) - 1)
      BY <1>6, <2>3
    <3>2. x # X
      BY <1>2, <1>3, <3>1, Sizes
    <3>3. End(s2, x) = End(sz, x) /\ x \in X..(End(sz, X) - 1)
      BY <1>6, <1>10, <2>1, <3>1, <3>2
    <3> QED
      BY <1>6, <2>3, <3>3 DEF Shape, Nested
  <2>4. CASE c \in B /\ c \in Addr /\ c # X /\ c # N
    <3>1. x \in c..(End(sz, c) - 1)
      BY <1>6, <2>4
    <3>2. x # X
      <4>1. X \in X..(End(sz, X) - 1)
        BY <1>2, <1>3, Sizes
      <4> QED
        BY <2>4, <3>1, <4>1, Disjoint
    <3>3. End(s2, x) = End(sz, x)
      BY <1>6, <2>1, <3>2
    <3> QED
      BY <1>6, <2>4, <3>1, <3>3 DEF Shape, Nested
  <2> QED
    BY <1>8, <2>2, <2>3, <2>4
<1>19. Backed(H, C, v, n2, pv)
  <2> SUFFICES ASSUME NEW w \in C, n2[w] # Null
               PROVE  pv[n2[w]] \in Aligned /\ Run(H, v, pv[n2[w]], w)
    BY DEF Backed
  <2>1. \A b \in B : nx[b] # Null => pv[nx[b]] \in Aligned /\ Run(H, v, pv[nx[b]], b)
    BY DEF Shape, Backed
  <2>2. CASE w = X
    <3>1. pv[n2[w]] = X
      BY <1>5, <2>2
    <3>2. \A x \in X..X : x = X
      BY <1>2
    <3>3. Run(H, v, X, X)
      BY <1>2, <3>2 DEF Run
    <3> QED
      BY <1>2, <2>2, <3>1, <3>3
  <2>3. CASE w = N
    <3>1. n2[w] = nx[X] /\ nx[X] # Null
      BY <1>3, <1>5, <2>3
    <3>2. PICK p : p = pv[nx[X]] /\ p \in Aligned /\ Run(H, v, p, X)
      BY <2>1, <3>1
    <3>3. p \in Nat /\ p <= X /\ v[X] = v[p] + (X - p) /\ p \in H
      <4>1. p \in Nat /\ p <= X
        BY <3>2, AlignedNat DEF Run
      <4>2. X \in p..X /\ p \in p..X
        BY <1>2, <4>1
      <4> QED
        BY <3>2, <4>1, <4>2 DEF Run
    <3>4. v[p] \in Nat
      BY <1>1, <3>3
    <3>5. ASSUME NEW x \in p..N PROVE x \in H /\ v[x] = v[p] + (x - p)
      <4>1. CASE x \in p..X
        BY <3>2, <4>1 DEF Run
      <4>2. CASE x \in X..(End(sz, X) - 1)
        <5>1. x \in H /\ v[x] = v[X] + (x - X)
          BY <4>2 DEF Shape, Placed, Linear
        <5> QED
          BY <1>2, <3>3, <3>4, <4>2, <5>1
      <4>3. x \in p..X \/ x \in X..(End(sz, X) - 1)
        BY <1>2, <1>3, <3>3
      <4> QED
        BY <4>1, <4>2, <4>3
    <3>6. p <= N
      BY <1>2, <1>3, <3>3, Sizes
    <3> QED
      BY <2>3, <3>1, <3>2, <3>5, <3>6 DEF Run
  <2>4. CASE w \in B /\ w \in Addr /\ w # X /\ w # N
    BY <1>5, <2>1, <2>4
  <2> QED
    BY <1>8, <2>2, <2>3, <2>4
<1> QED
  BY <1>11, <1>12, <1>13, <1>14, <1>15, <1>16, <1>17, <1>18, <1>19 DEF Shape, C

\* What request_space makes of a list: a frame that begins at k is a block
\* behind the last one, l.
Grown(H, T, B, v, sz, nx, pv, hd, k, l, H2, v2, s2, n2, p2, hd2) ==
    /\ B = {} => T = 0
    /\ k \in Aligned /\ k + FrameSize \in Aligned /\ k + FrameSize <= Null
    /\ \A x \in k..((k + FrameSize) - 1) : x \notin H /\ sz[x] = 0
    /\ (l = Null /\ hd = Null) \/ (l \in B /\ nx[l] = Null)
    /\ H2 = H \cup k..((k + FrameSize) - 1)
    /\ v2 = [x \in H2 |-> IF x \in H THEN v[x] ELSE T + (x - k)]
    /\ s2 = [sz EXCEPT ![k] = FrameSize - BLOCK_SIZE]
    /\ n2 = IF l = Null THEN [nx EXCEPT ![k] = Null]
            ELSE [[nx EXCEPT ![k] = Null] EXCEPT ![l] = k]
    /\ p2 = [pv EXCEPT ![k] = l]
    /\ hd2 = IF l = Null THEN k ELSE hd

LEMMA RequestShape ==
    ASSUME NEW H, NEW T, NEW B, NEW v, NEW sz, NEW nx, NEW pv, NEW hd,
           Shape(H, T, B, v, sz, nx, pv, hd),
           NEW k, NEW l, NEW H2, NEW v2, NEW s2, NEW n2, NEW p2, NEW hd2,
           Grown(H, T, B, v, sz, nx, pv, hd, k, l, H2, v2, s2, n2, p2, hd2)
    PROVE  Shape(H2, T + FrameSize, B \cup {k}, v2, s2, n2, p2, hd2)
<1>0. /\ B = {} => T = 0
      /\ k \in Aligned /\ k + FrameSize \in Aligned /\ k + FrameSize <= Null
      /\ \A x \in k..((k + FrameSize) - 1) : x \notin H /\ sz[x] = 0
      /\ (l = Null /\ hd = Null) \/ (l \in B /\ nx[l] = Null)
      /\ H2 = H \cup k..((k + FrameSize) - 1)
      /\ v2 = [x \in H2 |-> IF x \in H THEN v[x] ELSE T + (x - k)]
      /\ s2 = [sz EXCEPT ![k] = FrameSize - BLOCK_SIZE]
      /\ n2 = IF l = Null THEN [nx EXCEPT ![k] = Null]
              ELSE [[nx EXCEPT ![k] = Null] EXCEPT ![l] = k]
      /\ p2 = [pv EXCEPT ![k] = l]
      /\ hd2 = IF l = Null THEN k ELSE hd
  BY DEF Grown
<1> USE <1>0
<1> DEFINE C == B \cup {k}
           E == k + FrameSize
<1>1. /\ H \subseteq Addr /\ T \in Nat /\ v \in [H -> 0..(T - 1)] /\ sz \in [Addr -> Nat]
      /\ nx \in [Addr -> Addr \cup {Null}] /\ pv \in [Addr -> Addr \cup {Null}]
  BY DEF Shape, Typed
<1>2. /\ k \in Nat /\ E \in Nat /\ k < E /\ E \in Aligned /\ E <= Null /\ E = k + FrameSize
  BY AlignedNat, Sizes
<1>3. /\ k \in k..(E - 1) /\ k \in Addr /\ FrameSize - BLOCK_SIZE \in Nat
      /\ k + BLOCK_SIZE + (FrameSize - BLOCK_SIZE) = E
      /\ \A x \in k..(E - 1) : x \in Addr /\ x \in Nat /\ x \notin H /\ sz[x] = 0
  <2>1. k + Unit <= E
    BY <1>2, AlignedNext
  <2>2. FrameSize - BLOCK_SIZE \in Nat /\ k + BLOCK_SIZE + (FrameSize - BLOCK_SIZE) = E
    BY <1>2, <2>1, Sizes
  <2>3. k \in k..(E - 1) /\ \A x \in k..(E - 1) : x \in Addr /\ x \in Nat
    BY <1>2, Sizes DEF Addr
  <2>4. \A x \in k..(E - 1) : x \notin H /\ sz[x] = 0
    BY Zenon
  <2> HIDE DEF E
  <2>5. k \in Addr
    BY <2>3
  <2> QED
    BY <2>2, <2>3, <2>4, <2>5
<1>4. H2 = H \cup k..(E - 1)
  BY Zenon
<1> HIDE DEF E
<1>30. H \subseteq H2 /\ k \in H2 /\ H2 \subseteq Addr
  BY <1>1, <1>3, <1>4
<1>5. /\ \A x \in H : v2[x] = v[x] /\ x \in H2
      /\ \A x \in k..(E - 1) : v2[x] = T + (x - k) /\ x \in H2
  BY <1>3, <1>4
<1>6. v2[k] = T
  <2>1. v2[k] = T + (k - k)
    BY <1>3, <1>5
  <2> QED
    BY <1>1, <1>2, <2>1
<1>7. v2 \in [H2 -> 0..(T + FrameSize - 1)]
  <2> SUFFICES ASSUME NEW x \in H2 PROVE v2[x] \in 0..(T + FrameSize - 1)
    OBVIOUS
  <2>1. CASE x \in H
    <3>1. v2[x] \in 0..(T - 1)
      BY <1>1, <1>5, <2>1
    <3> QED
      BY <1>1, <3>1, Sizes
  <2>2. CASE x \in k..(E - 1)
    <3>1. v2[x] = T + (x - k)
      BY <1>5, <2>2
    <3> QED
      BY <1>1, <1>2, <2>2, <3>1, Sizes
  <2> QED
    BY <1>4, <2>1, <2>2
<1>8. /\ s2 \in [Addr -> Nat] /\ s2[k] = FrameSize - BLOCK_SIZE
      /\ \A c : c \in Addr /\ c # k => s2[c] = sz[c]
  BY <1>1, <1>3
<1>9. \A b \in B : /\ b \in Addr /\ b \in H /\ b # k /\ b # Null
                   /\ v[b] \in Nat /\ v2[b] = v[b]
  BY <1>3, <1>5, BlockFacts
<1>10. /\ n2 \in [Addr -> Addr \cup {Null}] /\ n2[k] = Null
       /\ l # Null => n2[l] = k
       /\ \A c : c \in Addr /\ c # k /\ c # l => n2[c] = nx[c]
  <2>1. CASE l = Null
    BY <1>1, <1>3, <2>1
  <2>2. CASE l # Null
    <3>1. l \in Addr /\ l # k
      BY <1>9, <2>2
    <3> QED
      BY <1>1, <1>3, <2>2, <3>1
  <2> QED
    BY <2>1, <2>2
<1>11. l \in Addr \cup {Null}
  BY <1>9
<1>12. /\ p2 \in [Addr -> Addr \cup {Null}] /\ p2[k] = l
       /\ \A c : c \in Addr /\ c # k => p2[c] = pv[c]
  BY <1>1, <1>3, <1>11
<1>13. End(s2, k) = E /\ \A c : c \in Addr /\ c # k => End(s2, c) = End(sz, c)
  BY <1>3, <1>8 DEF End
<1>14. After(v2, s2, k) = T + FrameSize
  <2>1. After(v2, s2, k) = T + (E - k)
    BY <1>6, <1>13 DEF After
  <2> QED
    BY <1>1, <1>2, <2>1, Sizes
<1>15. \A b \in B : After(v2, s2, b) = After(v, sz, b) /\ End(s2, b) = End(sz, b)
  BY <1>9, <1>13 DEF After
<1>16. \A b \in B : \A x \in b..(End(sz, b) - 1) : x \in H
  BY DEF Shape, Placed
<1>17. k \in C /\ B \subseteq C /\ \A c \in C : c = k \/ c \in B
  OBVIOUS
<1> HIDE DEF C
<1>18. Typed(H2, T + FrameSize, v2, s2, n2, p2)
  BY <1>1, <1>7, <1>8, <1>10, <1>12, <1>30, Sizes DEF Typed
<1>19. Placed(H2, C, s2)
  <2> SUFFICES ASSUME NEW c \in C
               PROVE  /\ c \in Aligned /\ End(s2, c) \in Aligned /\ c < End(s2, c)
                      /\ \A x \in c..(End(s2, c) - 1) : x \in H2
    BY DEF Placed
  <2>1. CASE c = k
    BY <1>2, <1>5, <1>13, <2>1
  <2>2. CASE c \in B
    BY <1>15, <1>30, <2>2 DEF Shape, Placed
  <2> QED
    BY <1>17, <2>1, <2>2
<1>20. Covered(H2, C, s2)
  <2> SUFFICES ASSUME NEW x \in H2 PROVE \E c \in C : x \in c..(End(s2, c) - 1)
    BY DEF Covered
  <2>1. CASE x \in H
    <3>1. PICK c \in B : x \in c..(End(sz, c) - 1)
      BY <2>1 DEF Shape, Covered
    <3> QED
      BY <1>15, <1>17, <3>1
  <2>2. CASE x \in k..(E - 1)
    BY <1>13, <1>17, <2>2
  <2> QED
    BY <1>4, <2>1, <2>2
<1>21. Linear(C, v2, s2)
  <2> SUFFICES ASSUME NEW c \in C, NEW x \in c..(End(s2, c) - 1)
               PROVE  v2[x] = v2[c] + (x - c)
    BY DEF Linear
  <2>1. CASE c = k
    BY <1>5, <1>6, <1>13, <2>1
  <2>2. CASE c \in B
    <3>1. x \in c..(End(sz, c) - 1)
      BY <1>15, <2>2
    <3>2. v[x] = v[c] + (x - c) /\ x \in H
      BY <1>16, <2>2, <3>1 DEF Shape, Linear
    <3> QED
      BY <1>5, <1>9, <2>2, <3>2
  <2> QED
    BY <1>17, <2>1, <2>2
<1>22. Ordered(C, v2, s2)
  <2>1. ASSUME NEW c \in B PROVE After(v2, s2, c) <= v2[k]
    <3>1. After(v, sz, c) <= T
      BY BlockFacts
    <3> QED
      BY <1>6, <1>15, <3>1
  <2>2. ASSUME NEW c \in B, NEW d \in B, c # d
        PROVE  After(v2, s2, c) <= v2[d] \/ After(v2, s2, d) <= v2[c]
    BY <1>9, <1>15, <2>2 DEF Shape, Ordered
  <2> QED
    BY <1>17, <2>1, <2>2 DEF Ordered
<1>23. l # Null => l \in B /\ nx[l] = Null /\ After(v, sz, l) = T
  BY Forward
<1>24. l = Null => B = {} /\ T = 0
  BY <1>9 DEF Shape, Headed
<1>25. \A c \in B : c # l => nx[c] \in B /\ v[nx[c]] = After(v, sz, c)
  <2> SUFFICES ASSUME NEW c \in B, c # l
               PROVE  nx[c] \in B /\ v[nx[c]] = After(v, sz, c)
    OBVIOUS
  <2>1. l # Null
    BY <1>24
  <2>2. nx[c] # Null
    BY <1>23, <2>1, Forward
  <2> QED
    BY <2>2, Forward
<1>26. Chained(T + FrameSize, C, v2, s2, n2)
  <2> SUFFICES ASSUME NEW c \in C
               PROVE  \/ n2[c] = Null /\ After(v2, s2, c) = T + FrameSize
                      \/ n2[c] \in C /\ v2[n2[c]] = After(v2, s2, c)
    BY DEF Chained
  <2>1. CASE c = k
    BY <1>10, <1>14, <2>1
  <2>2. CASE c \in B /\ c = l
    <3>1. n2[c] = k /\ After(v2, s2, c) = T
      BY <1>9, <1>10, <1>15, <1>23, <2>2
    <3> QED
      BY <1>6, <1>17, <3>1
  <2>3. CASE c \in B /\ c # l
    <3>1. n2[c] = nx[c] /\ nx[c] \in B /\ v[nx[c]] = After(v, sz, c)
      BY <1>9, <1>10, <1>25, <2>3
    <3>2. v2[nx[c]] = v[nx[c]] /\ After(v2, s2, c) = After(v, sz, c)
      BY <1>9, <1>15, <2>3, <3>1
    <3> QED
      BY <1>17, <3>1, <3>2
  <2> QED
    BY <1>17, <2>1, <2>2, <2>3
<1>27. Headed(C, v2, p2, hd2)
  <2>1. CASE l = Null
    BY <1>6, <1>12, <1>17, <1>24, <2>1 DEF Headed
  <2>2. CASE l # Null
    <3>1. hd \in B /\ v[hd] = 0 /\ pv[hd] = Null
      BY <1>23, <2>2 DEF Shape, Headed
    <3>2. hd2 = hd /\ v2[hd] = 0 /\ p2[hd] = Null
      BY <1>9, <1>12, <2>2, <3>1
    <3> QED
      BY <1>17, <3>1, <3>2 DEF Headed
  <2> QED
    BY <2>1, <2>2
<1>28. Nested(C, s2)
  <2> SUFFICES ASSUME NEW c \in C, NEW x \in c..(End(s2, c) - 1), x \in Aligned
               PROVE  End(s2, x) <= End(s2, c)
    BY DEF Nested
  <2>1. CASE c = k
    <3>1. x \in k..(E - 1)
      BY <1>13, <2>1
    <3>2. CASE x = k
      <4>1. End(s2, x) = E /\ End(s2, c) = E
        BY <1>13, <2>1, <3>2, Zenon
      <4>2. E <= E
        BY <1>2
      <4> QED
        BY <4>1, <4>2, Zenon
    <3>3. CASE x # k
      <4>1. x \in Addr /\ x \in Nat /\ sz[x] = 0 /\ s2[x] = 0
        BY <1>3, <1>8, <3>1, <3>3
      <4>2. x < E
        BY <1>2, <3>1
      <4>3. x + Unit <= E
        BY <1>2, <4>2, AlignedNext
      <4>4. End(s2, x) = x + BLOCK_SIZE + 0
        BY <4>1 DEF End
      <4>5. End(s2, x) <= E
        BY <1>2, <4>1, <4>3, <4>4, Sizes
      <4> QED
        BY <1>13, <2>1, <4>5
    <3> QED
      BY <3>2, <3>3
  <2>2. CASE c \in B
    <3>1. x \in c..(End(sz, c) - 1)
      BY <1>15, <2>2
    <3>2. x \in H /\ x \in Addr /\ x # k
      BY <1>1, <1>3, <1>16, <2>2, <3>1
    <3> QED
      BY <1>13, <1>15, <2>2, <3>1, <3>2 DEF Shape, Nested
  <2> QED
    BY <1>17, <2>1, <2>2
<1>29. Backed(H2, C, v2, n2, p2)
  <2> SUFFICES ASSUME NEW w \in C, n2[w] # Null
               PROVE  p2[n2[w]] \in Aligned /\ Run(H2, v2, p2[n2[w]], w)
    BY DEF Backed
  <2>1. w \in B
    BY <1>10, <1>17
  <2>2. CASE w = l
    <3>1. p2[n2[w]] = w
      BY <1>9, <1>10, <1>12, <2>1, <2>2
    <3>2. w \in Nat /\ w \in Aligned /\ v[w] \in Nat /\ w \in H
      BY <2>1, BlockFacts
    <3>3. \A x \in w..w : x = w
      BY <3>2
    <3>4. w \in H2 /\ v2[w] \in Nat
      BY <1>5, <3>2
    <3>5. Run(H2, v2, w, w)
      BY <3>2, <3>3, <3>4 DEF Run
    <3> QED
      BY <3>1, <3>2, <3>5
  <2>3. CASE w # l
    <3>1. n2[w] = nx[w] /\ nx[w] \in B /\ nx[w] # Null
      BY <1>9, <1>10, <1>25, <2>1, <2>3
    <3>2. PICK p : p = pv[nx[w]] /\ p \in Aligned /\ Run(H, v, p, w)
      BY <2>1, <3>1 DEF Shape, Backed
    <3>3. p2[n2[w]] = p
      BY <1>9, <1>12, <3>1, <3>2
    <3>4. p \in Nat /\ w \in Nat /\ p <= w
      BY <2>1, <3>2, AlignedNat, BlockFacts DEF Run
    <3>5. p \in p..w
      BY <3>4
    <3>6. \A x \in p..w : x \in H /\ v[x] = v[p] + (x - p)
      BY <3>2 DEF Run
    <3>7. \A x \in p..w : x \in H2 /\ v2[x] = v2[p] + (x - p)
      BY <1>5, <3>5, <3>6
    <3> QED
      BY <3>2, <3>3, <3>4, <3>7 DEF Run
  <2> QED
    BY <2>2, <2>3
<1> QED
  BY <1>18, <1>19, <1>20, <1>21, <1>22, <1>26, <1>27, <1>28, <1>29 DEF Shape, C

-----------------------------------------------------------------------------
(* The steps of kmalloc                                                     *)

\* A step that leaves the list alone.
LEMMA SameList ==
    ASSUME NEW B, NEW v, HeapInv(B, v), size' = size, prev' = prev, head' = head,
           frames' = frames, Links(next)' = Links(next)
    PROVE  /\ Listed(B, v, size, next, prev)' /\ Unused(size)'
           /\ next' = next => Pointers(next)'
<1>1. HeapBytes' = HeapBytes /\ Total' = Total
  BY DEF HeapBytes, Total
<1>2. Listed(B, v, size, next, prev) /\ Unused(size)
  BY DEF HeapInv
<1>3. Shape(HeapBytes, Total, B, v, size, Links(next), prev, head)'
  BY <1>1, <1>2 DEF Listed
<1>4. Unused(size)'
  BY <1>1, <1>2 DEF Unused
<1>5. next' = next => Pointers(next)'
  BY DEF HeapInv, Pointers
<1> QED
  BY <1>3, <1>4, <1>5 DEF Listed

\* The block on which kmalloc stands.
LEMMA CurrentFacts ==
    ASSUME NEW B, NEW v, HeapInv(B, v), pc \notin {"idle", "free", "request"}
    PROVE  /\ current \in B /\ current \in Addr /\ current # Null
           /\ size[current] \in Nat /\ size[current] >= Size
<1>1. current \in B
  BY DEF HeapInv, Standing
<1>2. Shape(HeapBytes, Total, B, v, size, Links(next), prev, head)
  BY DEF HeapInv, Listed
<1> QED
  BY <1>1, <1>2, BlockFacts

LEMMA StepKmalloc ==
    ASSUME NEW B, NEW v, HeapInv(B, v), kmalloc
    PROVE  HeapInv(B, v)'
<1> USE DEF HeapInv
<1>1. Links(next)' = Links(next)
  BY DEF kmalloc, fields, Links, Cutting
<1>2. Listed(B, v, size, next, prev)' /\ Unused(size)' /\ Pointers(next)'
  BY <1>1, SameList DEF kmalloc, fields
<1>3. head = Null \/ head \in B
  BY DEF Listed, Shape, Headed
<1>4. Standing(B, next)'
  BY <1>3 DEF kmalloc, Standing
<1>5. Owners(B)'
  BY DEF kmalloc, fields, Owners
<1>6. Types'
  BY DEF kmalloc, fields, Types
<1>7. Found' /\ Draft(size, next, prev)' /\ DraftFree' /\ Cut(B, size, next, prev)'
  BY DEF kmalloc, Found, Draft, DraftFree, Cut, Cutting
<1> QED
  BY <1>2, <1>4, <1>5, <1>6, <1>7

LEMMA StepKmallocFree ==
    ASSUME NEW B, NEW v, HeapInv(B, v), kmalloc_free
    PROVE  HeapInv(B, v)'
<1> USE DEF HeapInv
<1>1. Links(next)' = Links(next)
  BY DEF kmalloc_free, fields, Links, Cutting
<1>2. Listed(B, v, size, next, prev)' /\ Unused(size)' /\ Pointers(next)'
  BY <1>1, SameList DEF kmalloc_free, fields
<1>3. \/ current = Null /\ pc' = "request"
      \/ current # Null /\ free[current] /\ pc' = "size"
      \/ current # Null /\ ~free[current] /\ pc' = "advance"
  BY DEF kmalloc_free
<1>4. current # Null => current \in B
  BY DEF kmalloc_free, Standing
<1>5. Standing(B, next)'
  <2>1. UNCHANGED <<current, last, head>> /\ pc = "free"
    BY DEF kmalloc_free
  <2> QED
    BY <1>1, <1>3, <2>1 DEF Standing
<1>6. Owners(B)'
  BY <1>3 DEF kmalloc_free, fields, Owners
<1>7. Types'
  BY <1>3 DEF kmalloc_free, fields, Types
<1>8. Found'
  BY <1>3 DEF kmalloc_free, fields, Owners, Found
<1>9. Draft(size, next, prev)' /\ DraftFree' /\ Cut(B, size, next, prev)'
  BY <1>3 DEF Draft, DraftFree, Cut, Cutting
<1> QED
  BY <1>2, <1>5, <1>6, <1>7, <1>8, <1>9

LEMMA StepKmallocSize ==
    ASSUME NEW B, NEW v, HeapInv(B, v), kmalloc_size
    PROVE  HeapInv(B, v)'
<1> USE DEF HeapInv
<1>1. /\ pc = "size" /\ pc' \in {"take", "split", "advance"}
      /\ UNCHANGED <<head, fields, frames, owned, boot, current, last, diag>>
      /\ pc' = "split" => size[current] > Size + BLOCK_SIZE
  <2>1. size[current] \in Nat
    BY CurrentFacts DEF kmalloc_size
  <2>2. pc' \in {"take", "split", "advance"}
    BY DEF kmalloc_size, Fit
  <2>3. pc' = "split" => size[current] >= Size + BLOCK_SIZE + 1
    BY DEF kmalloc_size, Fit
  <2>4. pc' = "split" => size[current] > Size + BLOCK_SIZE
    BY <2>1, <2>3, Sizes
  <2> QED
    BY <2>2, <2>4 DEF kmalloc_size
<1>2. Links(next)' = Links(next)
  BY <1>1 DEF fields, Links, Cutting
<1>3. Listed(B, v, size, next, prev)' /\ Unused(size)' /\ Pointers(next)'
  BY <1>1, <1>2, SameList DEF fields
<1>4. Standing(B, next)'
  BY <1>1, <1>2 DEF Standing
<1>5. Owners(B)'
  BY <1>1 DEF fields, Owners
<1>6. Types'
  BY <1>1 DEF fields, Types
<1>7. Found'
  BY <1>1 DEF fields, Found
<1>8. Draft(size, next, prev)' /\ DraftFree' /\ Cut(B, size, next, prev)'
  BY <1>1 DEF fields, Draft, DraftFree, Cut, Cutting
<1> QED
  BY <1>3, <1>4, <1>5, <1>6, <1>7, <1>8

LEMMA StepKmallocAdvance ==
    ASSUME NEW B, NEW v, HeapInv(B, v), kmalloc_advance
    PROVE  HeapInv(B, v)'
<1> USE DEF HeapInv
<1>1. /\ pc = "advance" /\ pc' = "free" /\ last' = current /\ current' = next[current]
      /\ UNCHANGED <<head, fields, frames, owned, boot, diag>>
  BY DEF kmalloc_advance
<1>2. Links(next)' = next /\ Links(next) = next
  BY <1>1 DEF fields, Links, Cutting
<1>3. Listed(B, v, size, next, prev)' /\ Unused(size)' /\ Pointers(next)'
  BY <1>1, <1>2, SameList DEF fields
<1>4. current \in B /\ current # Null
  BY <1>1, CurrentFacts
<1>5. next[current] # Null => next[current] \in B /\ next[current] # current
  <2>1. Shape(HeapBytes, Total, B, v, size, next, prev, head)
    BY <1>2 DEF Listed
  <2> QED
    BY <1>4, <2>1, Forward
<1>6. Standing(B, next)'
  BY <1>1, <1>2, <1>4, <1>5 DEF Standing
<1>7. Owners(B)'
  BY <1>1 DEF fields, Owners
<1>8. Types'
  BY <1>1 DEF fields, Types
<1>9. Found' /\ Draft(size, next, prev)' /\ DraftFree' /\ Cut(B, size, next, prev)'
  BY <1>1 DEF Found, Draft, DraftFree, Cut, Cutting
<1> QED
  BY <1>3, <1>6, <1>7, <1>8, <1>9

LEMMA StepKmallocTake ==
    ASSUME NEW B, NEW v, HeapInv(B, v), kmalloc_take
    PROVE  HeapInv(B, v)'
<1> USE DEF HeapInv
<1>1. /\ \/ pc = "take" /\ pc' = "stamp"
         \/ pc = "split_take" /\ pc' = "link"
      /\ free' = [free EXCEPT ![current] = FALSE]
      /\ UNCHANGED <<head, size, magic, next, prev, frames, owned, boot, current,
                     last, diag>>
  BY DEF kmalloc_take, Set
<1>2. current \in B /\ current \in Addr
  BY <1>1, CurrentFacts
<1>3. Types' /\ ~free'[current] /\ \A b : b \in Addr /\ b # current => free'[b] = free[b]
  BY <1>1, <1>2 DEF Types
<1>4. Links(next)' = Links(next) /\ Cutting' = Cutting /\ new_block' = new_block
  BY <1>1 DEF Links, Cutting, new_block
<1>5. Listed(B, v, size, next, prev)' /\ Unused(size)' /\ Pointers(next)'
  BY <1>1, <1>4, SameList
<1>6. Standing(B, next)'
  BY <1>1, <1>4 DEF Standing
<1>7. current \notin owned
  BY <1>1 DEF Found
<1>8. \A b \in B : b \in Addr
  BY BlockFacts DEF Listed
<1>9. Owners(B)'
  <2>1. \A b \in owned : ~free'[b] /\ magic[b] = "ALLOC"
    BY <1>3, <1>7, <1>8 DEF Owners
  <2>2. \A b \in B \ owned : b = current \/ (free'[b] /\ magic[b] = "FREE")
    BY <1>1, <1>3, <1>8 DEF Owners
  <2> QED
    BY <1>1, <2>1, <2>2 DEF Owners
<1>10. Found'
  BY <1>1, <1>3, <1>7 DEF Found
<1>11. Draft(size, next, prev)' /\ DraftFree'
  BY <1>1 DEF Draft, DraftFree
<1>12. Cut(B, size, next, prev)'
  BY <1>1, <1>4 DEF Cut
<1> QED
  BY <1>3, <1>5, <1>6, <1>9, <1>10, <1>11, <1>12

LEMMA StepSplitLink ==
    ASSUME NEW B, NEW v, HeapInv(B, v), split_link
    PROVE  HeapInv(B, v)'
<1> USE DEF HeapInv
<1>1. /\ pc = "link" /\ pc' = "stamp"
      /\ next' = [next EXCEPT ![current] = new_block]
      /\ UNCHANGED <<head, size, free, magic, prev, frames, owned, boot, current,
                     last, diag>>
  BY DEF split_link, Set
<1>2. Links(next)' = Links(next)
  BY <1>1 DEF Links, Cutting
<1>3. Listed(B, v, size, next, prev)' /\ Unused(size)' /\ Pointers(next)'
  <2>1. Links(next) = next'
    BY <1>1 DEF Links, Cutting
  <2>2. Pointers(next)'
    BY <2>1 DEF Listed, Shape, Typed, Pointers
  <2> QED
    BY <1>1, <1>2, <2>2, SameList
<1>4. Standing(B, next)'
  BY <1>1, <1>2 DEF Standing
<1>5. Owners(B)'
  BY <1>1 DEF Owners
<1>6. Types'
  BY <1>1 DEF Types
<1>7. Found'
  BY <1>1 DEF Found
<1>8. Draft(size, next, prev)' /\ DraftFree' /\ Cut(B, size, next, prev)'
  BY <1>1 DEF Draft, DraftFree, Cut, Cutting
<1> QED
  BY <1>3, <1>4, <1>5, <1>6, <1>7, <1>8

LEMMA StepKmallocReturn ==
    ASSUME NEW B, NEW v, HeapInv(B, v), kmalloc_return
    PROVE  HeapInv(B, v)' /\ current \notin owned
<1> USE DEF HeapInv
<1>1. /\ pc = "stamp" /\ pc' = "idle" /\ current' = Null /\ last' = Null
      /\ magic' = [magic EXCEPT ![current] = "ALLOC"]
      /\ owned' = owned \cup {current} /\ boot' \subseteq boot \cup {current}
      /\ UNCHANGED <<head, size, free, next, prev, frames, diag>>
  BY DEF kmalloc_return, Set
<1>2. current \in B /\ current \in Addr
  BY <1>1, CurrentFacts
<1>3. /\ Types' /\ magic'[current] = "ALLOC"
      /\ \A b : b \in Addr /\ b # current => magic'[b] = magic[b]
  BY <1>1, <1>2 DEF Types
<1>4. Links(next)' = Links(next)
  BY <1>1 DEF Links, Cutting
<1>5. Listed(B, v, size, next, prev)' /\ Unused(size)' /\ Pointers(next)'
  BY <1>1, <1>4, SameList
<1>6. current \notin owned /\ ~free[current]
  BY <1>1 DEF Found
<1>7. \A b \in B : b \in Addr
  BY BlockFacts DEF Listed
<1>8. Owners(B)'
  <2>1. \A b \in owned' : ~free[b] /\ magic'[b] = "ALLOC"
    BY <1>1, <1>2, <1>3, <1>6, <1>7 DEF Owners
  <2>2. \A b \in B \ owned' : free[b] /\ magic'[b] = "FREE"
    BY <1>1, <1>3, <1>7 DEF Owners
  <2> QED
    BY <1>1, <1>2, <2>1, <2>2 DEF Owners
<1>9. /\ Standing(B, next)' /\ Found' /\ Draft(size, next, prev)' /\ DraftFree'
      /\ Cut(B, size, next, prev)'
  BY <1>1 DEF Standing, Found, Draft, DraftFree, Cut, Cutting
<1> QED
  BY <1>3, <1>5, <1>6, <1>8, <1>9

\* Where the new block lies before the old one shrinks.
LEMMA DraftFacts ==
    ASSUME NEW B, NEW v, HeapInv(B, v), pc \in {"split", "split_next", "shrink"}
    PROVE  /\ Links(next) = next /\ ~Cutting
           /\ Shape(HeapBytes, Total, B, v, size, next, prev, head)
           /\ current \in B /\ current \in Addr /\ size[current] > Size + BLOCK_SIZE
           /\ new_block = current + BLOCK_SIZE + Size
           /\ new_block \in Addr /\ new_block \in HeapBytes /\ new_block # current
           /\ new_block \in Aligned
           /\ new_block \in current..(End(size, current) - 1) /\ new_block \notin B
           /\ current < new_block /\ new_block \in Nat /\ current \in Nat
           /\ Rest(size[current]) \in Nat
           /\ new_block + BLOCK_SIZE + Rest(size[current]) = End(size, current)
           /\ End(size, current) \in Nat
           /\ current \notin owned /\ free[current]
           /\ Typed(HeapBytes, Total, v, size, next, prev)
<1>1. Links(next) = next /\ ~Cutting
  BY DEF Links, Cutting
<1>2. Shape(HeapBytes, Total, B, v, size, next, prev, head)
  BY <1>1 DEF HeapInv, Listed
<1>3. current \in B /\ current \in Addr
  BY CurrentFacts
<1>4. size[current] > Size + BLOCK_SIZE /\ current \notin owned /\ free[current]
  BY DEF HeapInv, Draft, Found
<1>5. new_block = current + BLOCK_SIZE + Size
  BY DEF new_block
<1>6. /\ new_block \in Addr /\ new_block \in HeapBytes /\ new_block # current
      /\ new_block \in Aligned
      /\ new_block \in current..(End(size, current) - 1) /\ new_block \notin B
      /\ new_block \in Nat /\ Rest(size[current]) \in Nat
      /\ new_block + BLOCK_SIZE + Rest(size[current]) = End(size, current)
  BY <1>2, <1>3, <1>4, <1>5, RestFacts
<1>7. current \in Nat /\ End(size, current) \in Nat
  BY <1>2, <1>3, BlockFacts
<1>8. current < new_block
  BY <1>5, <1>6, <1>7, Sizes
<1> QED
  BY <1>1, <1>2, <1>3, <1>4, <1>5, <1>6, <1>7, <1>8 DEF Shape

LEMMA StepSplitSize ==
    ASSUME NEW B, NEW v, HeapInv(B, v), split_size
    PROVE  HeapInv(B, v)'
<1> USE DEF HeapInv
<1>1. /\ pc = "split" /\ pc' = "split_next"
      /\ size' = [size EXCEPT ![new_block] = Rest(size[current])]
      /\ free' = [free EXCEPT ![new_block] = TRUE]
      /\ UNCHANGED <<head, magic, next, prev, frames, owned, boot, current, last,
                     diag>>
  BY DEF split_size, Set
<1> DEFINE N == new_block
<1>2. /\ Links(next) = next /\ Links(next)' = next /\ N' = N
      /\ HeapBytes' = HeapBytes /\ Total' = Total
  BY <1>1 DEF Links, Cutting, new_block, HeapBytes, Total
<1>3. /\ Shape(HeapBytes, Total, B, v, size, next, prev, head)
      /\ current \in B /\ current \in Addr /\ size[current] > Size + BLOCK_SIZE
      /\ N \in Addr /\ N \in HeapBytes /\ N # current /\ N \in Aligned
      /\ N \in current..(End(size, current) - 1) /\ N \notin B
      /\ Rest(size[current]) \in Nat
      /\ N + BLOCK_SIZE + Rest(size[current]) = End(size, current)
      /\ End(size, current) \in Nat
      /\ current \notin owned /\ free[current]
      /\ Typed(HeapBytes, Total, v, size, next, prev)
  BY <1>1, DraftFacts
<1> HIDE DEF N
<1>4. /\ size' \in [Addr -> Nat] /\ size'[N] = Rest(size[current])
      /\ \A b : b \in Addr /\ b # N => size'[b] = size[b]
  BY <1>1, <1>3 DEF Typed, N
<1>5. /\ free' \in [Addr -> BOOLEAN] /\ free'[N]
      /\ \A b : b \in Addr /\ b # N => free'[b] = free[b]
  BY <1>1, <1>3 DEF Types, N
<1>6. Shape(HeapBytes, Total, B, v, size', next, prev, head)
  <2>1. Typed(HeapBytes, Total, v, size', next, prev)
    BY <1>3, <1>4 DEF Typed
  <2>2. End(size', N) = End(size, current)
    BY <1>3, <1>4 DEF End
  <2>3. End(size', N) <= End(size, current)
    BY <1>3, <2>2
  <2>4. PICK s2 : s2 = size'
    OBVIOUS
  <2>5. \A b \in Addr : b # N => s2[b] = size[b] /\ next[b] = next[b] /\ prev[b] = prev[b]
    BY <1>4, <2>4
  <2>6. Shape(HeapBytes, Total, B, v, s2, next, prev, head)
    BY <1>3, <2>1, <2>3, <2>4, <2>5, DraftShape
  <2> QED
    BY <2>4, <2>6
<1>7. Listed(B, v, size, next, prev)' /\ Pointers(next)'
  BY <1>1, <1>2, <1>6 DEF Listed, Pointers
<1>8. Unused(size)'
  BY <1>2, <1>3, <1>4 DEF Unused
<1>9. Types'
  BY <1>1, <1>5 DEF Types
<1>10. \A b \in B : b \in Addr /\ b # N
  BY <1>3, BlockFacts
<1>11. Owners(B)'
  <2>1. \A b \in owned : ~free'[b] /\ magic[b] = "ALLOC"
    BY <1>5, <1>10 DEF Owners
  <2>2. \A b \in B \ owned : free'[b] /\ magic[b] = "FREE"
    BY <1>1, <1>5, <1>10 DEF Owners
  <2> QED
    BY <1>1, <2>1, <2>2 DEF Owners
<1>12. Standing(B, next)'
  BY <1>1, <1>2 DEF Standing
<1>13. Found'
  BY <1>1, <1>3, <1>5 DEF Found
<1>14. Draft(size, next, prev)' /\ DraftFree'
  <2>1. size'[current] = size[current]
    BY <1>3, <1>4
  <2> QED
    BY <1>1, <1>2, <1>3, <1>4, <1>5, <2>1 DEF Draft, DraftFree, N
<1>15. Cut(B, size, next, prev)'
  BY <1>1 DEF Cut, Cutting
<1> QED
  BY <1>7, <1>8, <1>9, <1>11, <1>12, <1>13, <1>14, <1>15

LEMMA StepSplitNext ==
    ASSUME NEW B, NEW v, HeapInv(B, v), split_next
    PROVE  HeapInv(B, v)'
<1> USE DEF HeapInv
<1>1. /\ pc = "split_next" /\ pc' = "shrink"
      /\ next' = [next EXCEPT ![new_block] = next[current]]
      /\ prev' = [prev EXCEPT ![new_block] = current]
      /\ magic' = [magic EXCEPT ![new_block] = "FREE"]
      /\ UNCHANGED <<head, size, free, frames, owned, boot, current, last, diag>>
  BY DEF split_next, Set
<1> DEFINE N == new_block
<1>2. /\ Links(next) = next /\ Links(next)' = next' /\ N' = N
      /\ HeapBytes' = HeapBytes /\ Total' = Total
  BY <1>1 DEF Links, Cutting, new_block, HeapBytes, Total
<1>3. /\ Shape(HeapBytes, Total, B, v, size, next, prev, head)
      /\ current \in B /\ current \in Addr /\ size[current] > Size + BLOCK_SIZE
      /\ N \in Addr /\ N \in HeapBytes /\ N # current /\ N \in Aligned
      /\ N \in current..(End(size, current) - 1) /\ N \notin B
      /\ N + BLOCK_SIZE + Rest(size[current]) = End(size, current)
      /\ End(size, current) \in Nat
      /\ current \notin owned /\ free[current]
      /\ Typed(HeapBytes, Total, v, size, next, prev)
  BY <1>1, DraftFacts
<1>4. size[N] = Rest(size[current]) /\ free[N]
  BY <1>1 DEF Draft, DraftFree
<1> HIDE DEF N
<1>5. /\ next' \in [Addr -> Addr \cup {Null}] /\ next'[N] = next[current]
      /\ \A b : b \in Addr /\ b # N => next'[b] = next[b]
  BY <1>1, <1>3 DEF Typed, N
<1>6. /\ prev' \in [Addr -> Addr \cup {Null}] /\ prev'[N] = current
      /\ \A b : b \in Addr /\ b # N => prev'[b] = prev[b]
  BY <1>1, <1>3 DEF Typed, N
<1>7. /\ Types' /\ magic'[N] = "FREE"
      /\ \A b : b \in Addr /\ b # N => magic'[b] = magic[b]
  BY <1>1, <1>3 DEF Types, N
<1>8. Shape(HeapBytes, Total, B, v, size, next', prev', head)
  <2>1. Typed(HeapBytes, Total, v, size, next', prev')
    BY <1>3, <1>5, <1>6 DEF Typed
  <2>2. End(size, N) = End(size, current)
    BY <1>3, <1>4 DEF End
  <2>3. End(size, N) <= End(size, current)
    BY <1>3, <2>2
  <2>4. PICK n2, p2 : n2 = next' /\ p2 = prev'
    OBVIOUS
  <2>5. \A b \in Addr : b # N => size[b] = size[b] /\ n2[b] = next[b] /\ p2[b] = prev[b]
    BY <1>5, <1>6, <2>4
  <2>6. Shape(HeapBytes, Total, B, v, size, n2, p2, head)
    BY <1>3, <2>1, <2>3, <2>4, <2>5, DraftShape
  <2> QED
    BY <2>4, <2>6
<1>9. Listed(B, v, size, next, prev)' /\ Pointers(next)'
  BY <1>1, <1>2, <1>5, <1>8 DEF Listed, Pointers
<1>10. Unused(size)'
  BY <1>1, <1>2 DEF Unused
<1>11. \A b \in B : b \in Addr /\ b # N
  BY <1>3, BlockFacts
<1>12. Owners(B)'
  <2>1. \A b \in owned : ~free[b] /\ magic'[b] = "ALLOC"
    BY <1>7, <1>11 DEF Owners
  <2>2. \A b \in B \ owned : free[b] /\ magic'[b] = "FREE"
    BY <1>1, <1>7, <1>11 DEF Owners
  <2> QED
    BY <1>1, <2>1, <2>2 DEF Owners
<1>13. Standing(B, next)'
  <2>1. \/ last = Null /\ current = head
        \/ last \in B /\ last # current /\ next[last] = current
    BY <1>1, <1>2 DEF Standing
  <2>2. last \in B => next'[last] = next[last]
    BY <1>5, <1>11
  <2> QED
    BY <1>1, <1>2, <1>3, <2>1, <2>2 DEF Standing
<1>14. Found'
  BY <1>1, <1>3 DEF Found
<1>15. Draft(size, next, prev)' /\ DraftFree'
  <2>1. next'[current] = next[current]
    BY <1>3, <1>5
  <2> QED
    BY <1>1, <1>2, <1>3, <1>4, <1>5, <1>6, <1>7, <2>1 DEF Draft, DraftFree, N
<1>16. Cut(B, size, next, prev)'
  BY <1>1 DEF Cut, Cutting
<1> QED
  BY <1>7, <1>9, <1>10, <1>12, <1>13, <1>14, <1>15, <1>16

LEMMA StepSplitShrink ==
    ASSUME NEW B, NEW v, HeapInv(B, v), split_shrink
    PROVE  \E C : HeapInv(C, v)'
<1>1. /\ pc = "shrink" /\ pc' = "split_take"
      /\ size' = [size EXCEPT ![current] = Size]
      /\ UNCHANGED <<head, free, magic, next, prev, frames, owned, boot, current,
                     last, diag>>
  BY DEF split_shrink, Set
<1>2. PICK N : N = new_block
  OBVIOUS
<1>3. PICK C : C = B \cup {N}
  OBVIOUS
<1>4. /\ Links(next) = next /\ Links(next)' = [next EXCEPT ![current] = N] /\ new_block' = N
      /\ HeapBytes' = HeapBytes /\ Total' = Total
  BY <1>1, <1>2 DEF Links, Cutting, new_block, HeapBytes, Total
<1>5. /\ Shape(HeapBytes, Total, B, v, size, next, prev, head)
      /\ current \in B /\ current \in Addr /\ size[current] > Size + BLOCK_SIZE
      /\ N = current + BLOCK_SIZE + Size
      /\ N \in Addr /\ N \in HeapBytes /\ N # current /\ N \notin B
      /\ current < N /\ N \in Nat /\ current \in Nat
      /\ current \notin owned /\ free[current]
      /\ Typed(HeapBytes, Total, v, size, next, prev)
  BY <1>1, <1>2, DraftFacts
<1>6. /\ size[N] = Rest(size[current]) /\ free[N] /\ magic[N] = "FREE"
      /\ next[N] = next[current] /\ prev[N] = current
  BY <1>1, <1>2 DEF HeapInv, Draft, DraftFree
<1>7. size'[current] = Size /\ \A b : b \in Addr /\ b # current => size'[b] = size[b]
  BY <1>1, <1>5 DEF Typed
<1>8. Shape(HeapBytes, Total, C, v, size', Links(next)', prev, head)
  <2>1. PICK s2, n2 : s2 = size' /\ n2 = Links(next)'
    OBVIOUS
  <2>2. Shape(HeapBytes, Total, B \cup {N}, v, s2, n2, prev, head)
    BY <1>1, <1>4, <1>5, <1>6, <2>1, SplitShape
  <2> QED
    BY <1>3, <2>1, <2>2
<1>9. Listed(C, v, size, next, prev)' /\ Pointers(next)'
  BY <1>1, <1>4, <1>8 DEF Listed, Pointers, HeapInv
<1>10. Unused(size)'
  <2>1. current \in HeapBytes /\ current \in Aligned
    BY <1>5, BlockFacts
  <2> QED
    BY <1>4, <1>7, <2>1 DEF Unused, HeapInv
<1>11. Types'
  BY <1>1 DEF Types, HeapInv
<1>12. owned \subseteq B
  BY DEF HeapInv, Owners
<1>13. Owners(C)'
  <2>1. Owners(B)
    BY DEF HeapInv
  <2>2. \A b \in C \ owned : free[b] /\ magic[b] = "FREE"
    BY <1>1, <1>3, <1>6, <2>1 DEF Owners
  <2> QED
    BY <1>1, <1>3, <2>1, <2>2 DEF Owners
<1>14. Standing(C, next)'
  <2>1. \/ last = Null /\ current = head
        \/ last \in B /\ last # current /\ next[last] = current
    BY <1>1, <1>4 DEF HeapInv, Standing
  <2>2. last \in B => last \in Addr
    BY <1>5, BlockFacts
  <2>3. last \in B /\ last # current => Links(next)'[last] = next[last]
    BY <1>4, <1>5, <2>2 DEF Typed
  <2> QED
    BY <1>1, <1>3, <1>5, <2>1, <2>3 DEF Standing
<1>15. Found'
  BY <1>1, <1>5 DEF Found
<1>16. Draft(size, next, prev)' /\ DraftFree'
  BY <1>1 DEF Draft, DraftFree
<1>17. Cut(C, size, next, prev)'
  <2>1. ASSUME next[N] # Null PROVE prev[next[N]] # N
    <3>1. PICK p : p = prev[next[current]] /\ p \in Aligned /\ p <= current
      BY <1>5, <1>6, <2>1 DEF Shape, Backed, Run
    <3>2. p \in Nat
      BY <3>1, AlignedNat
    <3> QED
      BY <1>5, <1>6, <3>1, <3>2
  <2> QED
    BY <1>1, <1>3, <1>4, <1>5, <1>6, <1>7, <1>12, <2>1 DEF Cut
<1>18. HeapInv(C, v)'
  BY <1>9, <1>10, <1>11, <1>13, <1>14, <1>15, <1>16, <1>17 DEF HeapInv
<1> QED
  BY <1>18

\* The memory of the heap with one frame more.
LEMMA FrameAdded ==
    ASSUME Types, NEW f \in (0..(Frames - 1)) \ frames, frames' = frames \cup {f},
           NEW k, k = f * FrameSize
    PROVE  /\ k \in Aligned /\ k + FrameSize \in Aligned /\ k + FrameSize <= Null
           /\ \A x \in k..((k + FrameSize) - 1) : x \in Addr /\ x \notin HeapBytes
           /\ HeapBytes' = HeapBytes \cup k..((k + FrameSize) - 1)
           /\ Total' = Total + FrameSize
           /\ HeapBytes = {} => Total = 0
<1>1. f \in Nat /\ f + 1 <= Frames /\ f + 1 \in Nat /\ frames \subseteq 0..(Frames - 1)
  BY Sizes DEF Types
<1>2. k \in Nat /\ (f + 1) * FrameSize = k + FrameSize
  BY <1>1, TimesOrder, Sizes
<1>3. k \in Aligned /\ k + FrameSize \in Aligned
  BY <1>1, <1>2, AlignedFrame
<1>4. k + FrameSize <= Null
  <2>1. PICK g \in Nat : g = f + 1
    BY <1>1
  <2>2. g * FrameSize <= Frames * FrameSize
    BY <1>1, <2>1, TimesOrder, Sizes
  <2> QED
    BY <1>2, <2>1, <2>2, Sizes
<1>5. ASSUME NEW x \in k..((k + FrameSize) - 1) PROVE x \in Addr /\ x \notin HeapBytes
  <2>1. x \in (f * FrameSize)..((f + 1) * FrameSize - 1)
    BY <1>2
  <2>2. x \in Addr
    BY <2>1, FrameBytes
  <2>3. ASSUME x \in HeapBytes PROVE FALSE
    <3>1. PICK g \in frames : x \in (g * FrameSize)..((g + 1) * FrameSize - 1)
      BY <2>3 DEF HeapBytes
    <3>2. g \in 0..(Frames - 1)
      BY <1>1
    <3>3. f = g
      BY <2>1, <3>1, <3>2, FrameBytes
    <3> QED
      BY <3>3
  <2> QED
    BY <2>2, <2>3
<1>6. HeapBytes' = HeapBytes \cup k..((k + FrameSize) - 1)
  <2>1. k..((k + FrameSize) - 1) = (f * FrameSize)..((f + 1) * FrameSize - 1)
    BY <1>2
  <2> SUFFICES ASSUME NEW x
               PROVE  x \in HeapBytes' <=> x \in HeapBytes
                                           \/ x \in (f * FrameSize)..((f + 1) * FrameSize - 1)
    BY <2>1, Zenon
  <2>2. x \in HeapBytes' <=>
           \E g \in frames \cup {f} : x \in (g * FrameSize)..((g + 1) * FrameSize - 1)
    BY Zenon DEF HeapBytes
  <2>3. x \in HeapBytes <=>
           \E g \in frames : x \in (g * FrameSize)..((g + 1) * FrameSize - 1)
    BY Zenon DEF HeapBytes
  <2> QED
    BY <2>2, <2>3, Zenon
<1>7. IsFiniteSet(frames) /\ Cardinality(frames) \in Nat
  <2>1. IsFiniteSet(0..(Frames - 1))
    BY FS_Interval, Sizes
  <2>2. IsFiniteSet(frames)
    BY <1>1, <2>1, FS_Subset
  <2> QED
    BY <2>2, FS_CardinalityType
<1>8. Total' = Total + FrameSize
  <2>1. Cardinality(frames') = Cardinality(frames) + 1
    BY <1>7, FS_AddElement
  <2>2. PICK c \in Nat : c = Cardinality(frames)
    BY <1>7
  <2>3. (c + 1) * FrameSize = c * FrameSize + FrameSize
    BY Sizes, TimesOrder
  <2> QED
    BY <2>1, <2>2, <2>3 DEF Total
<1>9. ASSUME HeapBytes = {} PROVE Total = 0
  <2>1. frames = {}
    <3> SUFFICES ASSUME NEW g \in frames PROVE FALSE
      OBVIOUS
    <3>1. g \in Nat /\ g * FrameSize \in Nat /\ (g + 1) * FrameSize = g * FrameSize + FrameSize
      BY <1>1, TimesOrder, Sizes
    <3>2. g * FrameSize \in (g * FrameSize)..((g + 1) * FrameSize - 1)
      BY <3>1, Sizes
    <3>3. g * FrameSize \in HeapBytes
      BY <3>2 DEF HeapBytes
    <3> QED
      BY <1>9, <3>3
  <2>2. Cardinality(frames) = 0
    BY <2>1, FS_EmptySet
  <2> QED
    BY <2>2, Sizes DEF Total
<1> QED
  BY <1>3, <1>4, <1>5, <1>6, <1>8, <1>9

LEMMA StepRequestSpace ==
    ASSUME NEW B, NEW v, HeapInv(B, v),
           NEW f \in (0..(Frames - 1)) \ frames, request_space(f)
    PROVE  \E C, w : HeapInv(C, w)'
<1>1. PICK k : k = f * FrameSize
  OBVIOUS
<1>2. /\ pc = "request" /\ pc' = "free" /\ frames' = frames \cup {f}
      /\ size' = [size EXCEPT ![k] = FrameSize - BLOCK_SIZE]
      /\ free' = [free EXCEPT ![k] = TRUE] /\ magic' = [magic EXCEPT ![k] = "FREE"]
      /\ next' = IF last = Null THEN [next EXCEPT ![k] = Null]
                 ELSE [[next EXCEPT ![k] = Null] EXCEPT ![last] = k]
      /\ prev' = [prev EXCEPT ![k] = last]
      /\ head' = IF last = Null THEN k ELSE head
      /\ current' = k
      /\ UNCHANGED <<owned, boot, last, diag>>
  BY <1>1 DEF request_space, Set
<1>3. Links(next) = next /\ Links(next)' = next'
  BY <1>2 DEF Links, Cutting
<1>4. /\ k \in Aligned /\ k + FrameSize \in Aligned /\ k + FrameSize <= Null
      /\ \A x \in k..((k + FrameSize) - 1) : x \in Addr /\ x \notin HeapBytes
      /\ HeapBytes' = HeapBytes \cup k..((k + FrameSize) - 1)
      /\ Total' = Total + FrameSize
      /\ HeapBytes = {} => Total = 0
  BY <1>1, <1>2, FrameAdded DEF HeapInv
<1>5. Shape(HeapBytes, Total, B, v, size, next, prev, head)
  BY <1>3 DEF HeapInv, Listed
<1>6. k \in k..((k + FrameSize) - 1) /\ k \in Addr /\ k \notin HeapBytes
  <2>1. k \in Nat
    BY <1>4, AlignedNat
  <2>2. k \in k..((k + FrameSize) - 1)
    BY <2>1, Sizes
  <2> QED
    BY <1>4, <2>2
<1>7. \A b \in B : b \in Addr /\ b \in HeapBytes /\ b # k /\ b # Null
  BY <1>5, <1>6, BlockFacts
<1>8. (last = Null /\ head = Null) \/ (last \in B /\ next[last] = Null)
  BY <1>2, <1>3, <1>7 DEF HeapInv, Standing
<1>9. B = {} => Total = 0
  BY <1>4, <1>5 DEF Shape, Covered
<1>10. PICK C : C = B \cup {k}
  OBVIOUS
<1>11. PICK w : w = [x \in HeapBytes \cup k..((k + FrameSize) - 1) |->
                       IF x \in HeapBytes THEN v[x] ELSE Total + (x - k)]
  OBVIOUS
<1>12. Shape(HeapBytes', Total', C, w, size', next', prev', head')
  <2>1. \A x \in k..((k + FrameSize) - 1) : x \notin HeapBytes /\ size[x] = 0
    BY <1>4 DEF HeapInv, Unused
  <2>2. PICK H2, s2, n2, p2, hd2 : /\ H2 = HeapBytes' /\ s2 = size' /\ n2 = next'
                                   /\ p2 = prev' /\ hd2 = head'
    OBVIOUS
  <2>3. H2 = HeapBytes \cup k..((k + FrameSize) - 1)
    BY <1>4, <2>2
  <2>4. w = [x \in H2 |-> IF x \in HeapBytes THEN v[x] ELSE Total + (x - k)]
    BY <1>11, <2>3
  <2>5. /\ s2 = [size EXCEPT ![k] = FrameSize - BLOCK_SIZE]
        /\ n2 = IF last = Null THEN [next EXCEPT ![k] = Null]
                ELSE [[next EXCEPT ![k] = Null] EXCEPT ![last] = k]
        /\ p2 = [prev EXCEPT ![k] = last]
        /\ hd2 = IF last = Null THEN k ELSE head
    BY <1>2, <2>2
  <2>6. Grown(HeapBytes, Total, B, v, size, next, prev, head, k, last,
              H2, w, s2, n2, p2, hd2)
    BY <1>4, <1>8, <1>9, <2>1, <2>3, <2>4, <2>5, Zenon DEF Grown
  <2>7. Shape(H2, Total + FrameSize, B \cup {k}, w, s2, n2, p2, hd2)
    BY <1>5, <2>6, RequestShape
  <2> QED
    BY <1>4, <1>10, <2>2, <2>7
<1>13. Listed(C, w, size, next, prev)' /\ Pointers(next)'
  <2>1. Pointers(next)'
    BY <1>12 DEF Shape, Typed, Pointers
  <2> QED
    BY <1>3, <1>12, <2>1 DEF Listed
<1>14. /\ size \in [Addr -> Nat] /\ free \in [Addr -> BOOLEAN]
       /\ magic \in [Addr -> {"none", "FREE", "ALLOC"}]
  BY <1>5 DEF Shape, Typed, HeapInv, Types
<1>15. /\ free' \in [Addr -> BOOLEAN] /\ magic' \in [Addr -> {"none", "FREE", "ALLOC"}]
       /\ free'[k] /\ magic'[k] = "FREE"
       /\ \A b \in Addr : b # k => /\ size'[b] = size[b] /\ free'[b] = free[b]
                                   /\ magic'[b] = magic[b]
  BY <1>2, <1>6, <1>14
<1>16. Unused(size)'
  <2> SUFFICES ASSUME NEW x \in Addr, x \notin HeapBytes' \cap Aligned PROVE size'[x] = 0
    BY DEF Unused
  <2>1. x \notin HeapBytes \cap Aligned /\ x # k
    BY <1>4, <1>6
  <2>2. size[x] = 0
    BY <2>1 DEF HeapInv, Unused
  <2> QED
    BY <1>15, <2>1, <2>2
<1>17. Types'
  <2>1. frames \subseteq 0..(Frames - 1)
    BY DEF HeapInv, Types
  <2> QED
    BY <1>2, <1>15, <2>1 DEF Types
<1>18. Owners(C)'
  <2>1. Owners(B)
    BY DEF HeapInv
  <2>2. k \notin owned
    BY <1>7, <2>1 DEF Owners
  <2>3. \A b \in owned : ~free'[b] /\ magic'[b] = "ALLOC"
    BY <1>7, <1>15, <2>1 DEF Owners
  <2>4. \A b \in C \ owned : free'[b] /\ magic'[b] = "FREE"
    BY <1>2, <1>7, <1>10, <1>15, <2>1 DEF Owners
  <2> QED
    BY <1>2, <1>10, <2>1, <2>3, <2>4 DEF Owners
<1>19. Standing(C, next)'
  <2>1. last # Null => next'[last] = k /\ last \in B /\ last # k
    <3>1. ASSUME last # Null PROVE next'[last] = k /\ last \in B /\ last # k
      <4>1. last \in B /\ last \in Addr /\ last # k
        BY <1>7, <1>8, <3>1
      <4>2. next \in [Addr -> Addr \cup {Null}]
        BY <1>5 DEF Shape, Typed
      <4> QED
        BY <1>2, <3>1, <4>1, <4>2
    <3> QED
      BY <3>1
  <2> QED
    BY <1>2, <1>3, <1>10, <2>1 DEF Standing
<1>20. Found' /\ Draft(size, next, prev)' /\ DraftFree' /\ Cut(C, size, next, prev)'
  BY <1>2 DEF Found, Draft, DraftFree, Cut, Cutting
<1>21. HeapInv(C, w)'
  BY <1>13, <1>16, <1>17, <1>18, <1>19, <1>20 DEF HeapInv
<1> QED
  BY <1>21

-----------------------------------------------------------------------------
(* kfree                                                                    *)

\* The parts of the invariant that speak of the links and the sizes.
Kept(B, v, sz, nx, pv) ==
    /\ Listed(B, v, sz, nx, pv) /\ Pointers(nx) /\ Unused(sz) /\ Standing(B, nx)
    /\ Draft(sz, nx, pv) /\ Cut(B, sz, nx, pv)

\* Block a swallows block b, and kmalloc stands on neither.
Merged(B, sz, nx, pv, a, b, s2, n2, p2) ==
    /\ a \in B /\ b \in B
    /\ a \notin {current, last} /\ b \notin {current, last}
    /\ Cutting => a # new_block /\ b # new_block
    /\ nx[a] = b /\ End(sz, a) = b
    /\ s2 = [sz EXCEPT ![a] = sz[a] + BLOCK_SIZE + sz[b]]
    /\ n2 = [nx EXCEPT ![a] = nx[b]]
    /\ p2 = IF nx[b] = Null THEN pv ELSE [pv EXCEPT ![nx[b]] = a]

LEMMA OneMerge ==
    ASSUME NEW B, NEW v, NEW sz, NEW nx, NEW pv, Kept(B, v, sz, nx, pv),
           NEW a, NEW b, NEW s2, NEW n2, NEW p2, Merged(B, sz, nx, pv, a, b, s2, n2, p2)
    PROVE  Kept(B \ {b}, v, s2, n2, p2)
<1>1. PICK L : L = Links(nx)
  OBVIOUS
<1>2. Shape(HeapBytes, Total, B, v, sz, L, pv, head)
  BY <1>1 DEF Kept, Listed
<1>3. Typed(HeapBytes, Total, v, sz, L, pv)
  BY <1>2 DEF Shape
<1>4. /\ a \in B /\ b \in B /\ a \in Addr /\ b \in Addr /\ a \in HeapBytes /\ a \in Aligned
      /\ sz[a] \in Nat /\ sz[b] \in Nat
      /\ a # current /\ a # last /\ b # current /\ b # last
      /\ Cutting => a # new_block /\ b # new_block
  BY <1>2, BlockFacts DEF Merged
<1>5. DOMAIN nx = Addr /\ \A c \in Addr : c # current \/ ~Cutting => L[c] = nx[c]
  BY <1>1, <1>3 DEF Typed, Links
<1>6. L[a] = b /\ End(sz, a) = b /\ L[b] = nx[b]
  BY <1>4, <1>5 DEF Merged
<1>7. Links(n2) = [L EXCEPT ![a] = L[b]]
  <2>1. n2 = [nx EXCEPT ![a] = nx[b]]
    BY DEF Merged
  <2>2. CASE Cutting
    BY <1>1, <1>4, <1>6, <2>1, <2>2 DEF Links
  <2>3. CASE ~Cutting
    BY <1>1, <1>6, <2>1, <2>3 DEF Links
  <2> QED
    BY <2>2, <2>3
<1>8. Shape(HeapBytes, Total, B \ {b}, v, s2, Links(n2), p2, head)
  <2>1. PICK l2 : l2 = Links(n2)
    OBVIOUS
  <2>2. s2 = [sz EXCEPT ![a] = sz[a] + BLOCK_SIZE + sz[b]]
    BY DEF Merged
  <2>3. p2 = IF L[b] = Null THEN pv ELSE [pv EXCEPT ![L[b]] = a]
    BY <1>6 DEF Merged
  <2>4. Shape(HeapBytes, Total, B \ {b}, v, s2, l2, p2, head)
    BY <1>2, <1>4, <1>6, <1>7, <2>1, <2>2, <2>3, MergeShape
  <2> QED
    BY <2>1, <2>4
<1>9. \A c \in Addr : c # a => s2[c] = sz[c] /\ n2[c] = nx[c]
  BY <1>3, <1>4, <1>5 DEF Merged, Typed
<1>10. \A c \in Addr : c # nx[b] => p2[c] = pv[c]
  BY <1>3 DEF Merged, Typed
<1>11. nx[b] # Null => nx[b] \in B /\ p2[nx[b]] = a
  <2>1. nx[b] # Null => nx[b] \in B
    BY <1>2, <1>4, <1>6, Forward
  <2>2. nx[b] # Null => nx[b] \in Addr
    BY <1>2, <2>1, BlockFacts
  <2> QED
    BY <1>3, <2>1, <2>2 DEF Merged, Typed
<1>12. Unused(s2)
  <2>1. Unused(sz)
    BY DEF Kept
  <2> QED
    BY <1>4, <1>9, <2>1 DEF Unused
<1>13. Standing(B \ {b}, n2)
  <2> SUFFICES ASSUME pc # "idle"
               PROVE  /\ \/ current = Null /\ pc \in {"free", "request"}
                         \/ current \in B \ {b} /\ pc # "request"
                      /\ \/ last = Null /\ current = head
                         \/ last \in B \ {b} /\ last # current /\ Links(n2)[last] = current
    BY DEF Standing
  <2>1. /\ \/ current = Null /\ pc \in {"free", "request"}
           \/ current \in B /\ pc # "request"
        /\ \/ last = Null /\ current = head
           \/ last \in B /\ last # current /\ L[last] = current
    BY <1>1 DEF Kept, Standing
  <2>2. last \in B => Links(n2)[last] = L[last]
    <3>1. last \in B => last \in Addr
      BY <1>2, BlockFacts
    <3> QED
      BY <1>3, <1>4, <1>7, <3>1 DEF Typed
  <2> QED
    BY <1>4, <2>1, <2>2
<1>14. Draft(s2, n2, p2)
  <2> SUFFICES ASSUME pc \in {"split", "split_next", "shrink"}
               PROVE  Draft(s2, n2, p2)
    BY DEF Draft
  <2>1. Draft(sz, nx, pv) /\ sz[current] > Size + BLOCK_SIZE
    BY DEF Kept, Draft
  <2>2. current \in B
    BY DEF Kept, Standing
  <2>3. PICK N : N = new_block /\ N = current + BLOCK_SIZE + Size
    BY DEF new_block
  <2>4. N \in Addr /\ N \notin B /\ current \in Addr
    BY <1>2, <2>1, <2>2, <2>3, RestFacts, BlockFacts
  <2>5. /\ s2[current] = sz[current] /\ n2[current] = nx[current]
        /\ s2[N] = sz[N] /\ n2[N] = nx[N]
    BY <1>4, <1>9, <2>4
  <2>6. Null \notin Addr
    BY Sizes DEF Addr
  <2>7. p2[N] = pv[N]
    BY <1>10, <1>11, <2>4, <2>6
  <2> QED
    BY <2>1, <2>3, <2>5, <2>7 DEF Draft
<1>15. Cut(B \ {b}, s2, n2, p2)
  <2> SUFFICES ASSUME Cutting PROVE Cut(B \ {b}, s2, n2, p2)
    BY DEF Cut
  <2>1. PICK N : N = new_block
    OBVIOUS
  <2>2. /\ N \in B /\ N \notin owned /\ sz[current] = Size /\ nx[current] = nx[N]
        /\ nx[N] # Null => pv[nx[N]] # N
    BY <2>1 DEF Kept, Cut
  <2>3. current \in B /\ current \in Addr /\ N \in Addr /\ N # a /\ N # b
    <3>1. current \in B
      BY DEF Kept, Standing, Cutting
    <3> QED
      BY <1>2, <1>4, <2>1, <2>2, <3>1, BlockFacts
  <2>4. s2[current] = sz[current] /\ n2[current] = nx[current] /\ n2[N] = nx[N]
    BY <1>4, <1>9, <2>3
  <2>5. ASSUME nx[N] # Null PROVE p2[nx[N]] # N
    <3>1. L[N] = nx[N]
      <4>1. N # current
        <5>1. current \in Nat
          BY <1>2, <2>3, BlockFacts
        <5> QED
          BY <2>1, <5>1, Sizes DEF new_block
      <4> QED
        BY <1>5, <2>3, <4>1
    <3>2. nx[N] \in Addr
      BY <1>3, <2>3, <2>5, <3>1 DEF Typed
    <3>3. CASE nx[N] = nx[b]
      BY <1>11, <2>3, <2>5, <3>3
    <3>4. CASE nx[N] # nx[b]
      BY <1>10, <2>2, <2>5, <3>2, <3>4
    <3> QED
      BY <3>3, <3>4
  <2> QED
    BY <2>1, <2>2, <2>3, <2>4, <2>5 DEF Cut
<1>16. Pointers(n2)
  <2>1. nx \in [Addr -> Addr \cup {Null}]
    BY DEF Kept, Pointers
  <2> QED
    BY <1>4, <2>1 DEF Merged, Pointers
<1> QED
  BY <1>8, <1>12, <1>13, <1>14, <1>15, <1>16 DEF Kept, Listed

\* kmalloc does not stand on the blocks of a merge that is no race.
Away(S) == \A c \in S : c # current /\ c # last

\* What is known of the headers in the course of kfree(b).
Freeing(B, v, C, b, h) ==
    /\ Kept(C, v, h.size, h.next, h.prev)
    /\ C \subseteq B /\ b \in C /\ owned \subseteq C
    /\ h.free = [free EXCEPT ![b] = TRUE] /\ h.magic = [magic EXCEPT ![b] = "FREE"]
    /\ h.prev[b] = prev[b]

\* And at its end.
Returned(B, v, D, b, h) ==
    /\ Kept(D, v, h.size, h.next, h.prev)
    /\ D \subseteq B /\ owned \ {b} \subseteq D
    /\ h.free = [free EXCEPT ![b] = TRUE] /\ h.magic = [magic EXCEPT ![b] = "FREE"]

LEMMA FreedFields ==
    ASSUME NEW b, NEW h, h = Freed(b)
    PROVE  /\ h.size = size /\ h.next = next /\ h.prev = prev
           /\ h.free = [free EXCEPT ![b] = TRUE] /\ h.magic = [magic EXCEPT ![b] = "FREE"]
  BY DEF Freed, heap, Set

IsHeap(h) == h = [size |-> h.size, free |-> h.free, magic |-> h.magic,
                  next |-> h.next, prev |-> h.prev]

MergedFields(h, a, b, g) ==
    /\ g.size = [h.size EXCEPT ![a] = h.size[a] + BLOCK_SIZE + h.size[b]]
    /\ g.next = [h.next EXCEPT ![a] = h.next[b]]
    /\ g.prev = IF h.next[b] = Null THEN h.prev ELSE [h.prev EXCEPT ![h.next[b]] = a]
    /\ g.free = h.free /\ g.magic = h.magic /\ IsHeap(g)

LEMMA MergeFields ==
    ASSUME NEW h, IsHeap(h), NEW a, NEW b, NEW g, g = Merge(h, a, b)
    PROVE  MergedFields(h, a, b, g)
  BY DEF MergedFields, Merge, BackLink, Set, IsHeap

\* The block that is freed swallows the one behind it.
LEMMA FreeNext ==
    ASSUME NEW B, NEW v, HeapInv(B, v), NEW b \in owned,
           NEW h, h = Freed(b), NEW g, g = CoalesceNext(h, b),
           MergesNext(h, b) => Away({b, next[b]})
    PROVE  IsHeap(g) /\ \E C : Freeing(B, v, C, b, g)
<1>1. /\ h.size = size /\ h.next = next /\ h.prev = prev
      /\ h.free = [free EXCEPT ![b] = TRUE] /\ h.magic = [magic EXCEPT ![b] = "FREE"]
  BY FreedFields
<1>2. IsHeap(h)
  BY DEF IsHeap, Freed, heap
<1>3. Kept(B, v, size, next, prev) /\ owned \subseteq B /\ b \in B
  BY DEF HeapInv, Kept, Owners
<1>4. CASE ~MergesNext(h, b)
  <2>1. g = h
    BY <1>4 DEF CoalesceNext
  <2>2. Freeing(B, v, B, b, g)
    BY <1>1, <1>3, <2>1 DEF Freeing
  <2> QED
    BY <1>2, <2>1, <2>2
<1>5. CASE MergesNext(h, b)
  <2>1. g = Merge(h, b, next[b])
    BY <1>1, <1>5 DEF CoalesceNext
  <2>2. PICK n : n = next[b]
    OBVIOUS
  <2>3. n # Null /\ h.free[n] /\ End(size, b) = n
    BY <1>1, <1>5, <2>2 DEF MergesNext, CanMerge, Adjacent, End
  <2>4. b # current /\ b # last /\ n # current /\ n # last
    BY <1>5, <2>2 DEF Away
  <2>5. PICK L : L = Links(next)
    OBVIOUS
  <2>6. Shape(HeapBytes, Total, B, v, size, L, prev, head)
    BY <2>5 DEF HeapInv, Listed
  <2>7. b \in Addr /\ v[b] \in Nat /\ After(v, size, b) \in Nat /\ v[b] < After(v, size, b)
    BY <1>3, <2>6, BlockFacts, Sizes
  <2>8. DOMAIN next = Addr /\ \A c \in Addr : c # current \/ ~Cutting => L[c] = next[c]
    BY <2>5, <2>6 DEF Shape, Typed, Links
  <2>9. L[b] = n
    BY <2>2, <2>4, <2>7, <2>8
  <2>10. n \in B /\ v[n] = After(v, size, b) /\ n # b
    BY <1>3, <2>3, <2>6, <2>9, Forward
  <2>11. n \in Addr /\ v[n] \in Nat /\ After(v, size, n) \in Nat /\ v[n] < After(v, size, n)
    BY <2>6, <2>10, BlockFacts, Sizes
  <2>12. L[n] = next[n] /\ (next[n] # Null => v[next[n]] = After(v, size, n))
    BY <2>4, <2>6, <2>8, <2>10, <2>11, Forward
  <2>13. next[n] # b
    <3>1. b # Null
      BY <1>3, <2>6, BlockFacts
    <3> QED
      BY <2>7, <2>10, <2>11, <2>12, <3>1
  <2>14. n \notin owned
    <3>1. h.free[n] = free[n]
      BY <1>1, <2>10, <2>11 DEF HeapInv, Types
    <3> QED
      BY <2>3, <3>1 DEF HeapInv, Owners
  <2>15. ASSUME Cutting PROVE b # new_block /\ n # new_block
    <3>1. b # new_block
      BY <2>15 DEF HeapInv, Cut
    <3>2. current \in B /\ current \in Addr
      BY <2>15, CurrentFacts DEF Cutting
    <3>3. L[current] = new_block
      BY <2>5, <2>8, <2>15, <3>2 DEF Links
    <3>4. n # new_block
      BY <1>3, <2>4, <2>6, <2>9, <3>2, <3>3, Forward
    <3> QED
      BY <3>1, <3>4
  <2>16. /\ g.size = [size EXCEPT ![b] = size[b] + BLOCK_SIZE + size[n]]
         /\ g.next = [next EXCEPT ![b] = next[n]]
         /\ g.prev = IF next[n] = Null THEN prev ELSE [prev EXCEPT ![next[n]] = b]
         /\ g.free = h.free /\ g.magic = h.magic /\ IsHeap(g)
    <3>1. g = Merge(h, b, n)
      BY <2>1, <2>2
    <3>2. MergedFields(h, b, n, g)
      BY <1>2, <3>1, MergeFields
    <3> QED
      BY <1>1, <3>2, Zenon DEF MergedFields
  <2>17. PICK s2, n2, p2 : s2 = g.size /\ n2 = g.next /\ p2 = g.prev
    OBVIOUS
  <2>18. Merged(B, size, next, prev, b, n, s2, n2, p2)
    BY <1>3, <2>2, <2>3, <2>4, <2>10, <2>15, <2>16, <2>17 DEF Merged
  <2>19. Kept(B \ {n}, v, s2, n2, p2)
    BY <1>3, <2>18, OneMerge
  <2>20. g.prev[b] = prev[b]
    BY <2>6, <2>7, <2>13, <2>16 DEF Shape, Typed
  <2>21. owned \subseteq B \ {n} /\ b \in B \ {n} /\ B \ {n} \subseteq B
    BY <1>3, <2>10, <2>14
  <2>22. Freeing(B, v, B \ {n}, b, g)
    BY <1>1, <2>16, <2>17, <2>19, <2>20, <2>21 DEF Freeing
  <2> QED
    BY <2>16, <2>22
<1> QED
  BY <1>4, <1>5

\* It is swallowed by the one before it.
LEMMA FreePrev ==
    ASSUME NEW B, NEW v, NEW C, NEW b \in owned, NEW h, IsHeap(h),
           Freeing(B, v, C, b, h), NEW g, g = CoalescePrev(h, b),
           MergesPrev(h, b) => Away({b, prev[b]})
    PROVE  \E D : Returned(B, v, D, b, g)
<1>1. /\ Kept(C, v, h.size, h.next, h.prev)
      /\ C \subseteq B /\ b \in C /\ owned \subseteq C
      /\ h.free = [free EXCEPT ![b] = TRUE] /\ h.magic = [magic EXCEPT ![b] = "FREE"]
      /\ h.prev[b] = prev[b]
  BY DEF Freeing
<1>2. CASE ~MergesPrev(h, b)
  <2>1. g = h
    BY <1>2 DEF CoalescePrev
  <2>2. owned \ {b} \subseteq C
    BY <1>1
  <2>3. Returned(B, v, C, b, g)
    BY <1>1, <2>1, <2>2 DEF Returned
  <2> QED
    BY <2>3
<1>3. CASE MergesPrev(h, b)
  <2>1. g = Merge(h, h.prev[b], b)
    BY <1>3 DEF CoalescePrev
  <2>2. PICK p, sz, nx, pv : p = h.prev[b] /\ sz = h.size /\ nx = h.next /\ pv = h.prev
    OBVIOUS
  <2>3. p # Null /\ End(sz, p) = b /\ pv[b] = p /\ p = prev[b]
    BY <1>1, <1>3, <2>2 DEF MergesPrev, CanMerge, Adjacent, End
  <2>4. b # current /\ b # last /\ p # current /\ p # last
    BY <1>3, <2>3 DEF Away
  <2>5. PICK L : L = Links(nx)
    OBVIOUS
  <2>6. Shape(HeapBytes, Total, C, v, sz, L, pv, head)
    BY <1>1, <2>2, <2>5 DEF Kept, Listed
  <2>7. b # head
    <3>1. head \in C => pv[head] = Null
      <4>1. Headed(C, v, pv, head)
        BY <2>6 DEF Shape
      <4> QED
        BY <4>1 DEF Headed
    <3> QED
      BY <1>1, <2>3, <3>1
  <2>8. PICK w \in C : L[w] = b
    BY <1>1, <2>6, <2>7, Predecessor
  <2>9. b \in Addr /\ b # Null /\ w \in Addr
    BY <1>1, <2>6, <2>8, BlockFacts
  <2>10. p = w
    BY <2>3, <2>6, <2>8, <2>9, TrueBack
  <2>11. nx[p] = b /\ p \in C
    BY <2>4, <2>5, <2>6, <2>8, <2>9, <2>10 DEF Shape, Typed, Links
  <2>12. ASSUME Cutting PROVE p # new_block /\ b # new_block
    <3>1. /\ new_block \notin owned
          /\ nx[new_block] # Null => pv[nx[new_block]] # new_block
      BY <1>1, <2>2, <2>12 DEF Kept, Cut
    <3> QED
      BY <2>3, <2>9, <2>11, <3>1
  <2>13. /\ g.size = [sz EXCEPT ![p] = sz[p] + BLOCK_SIZE + sz[b]]
         /\ g.next = [nx EXCEPT ![p] = nx[b]]
         /\ g.prev = IF nx[b] = Null THEN pv ELSE [pv EXCEPT ![nx[b]] = p]
         /\ g.free = h.free /\ g.magic = h.magic
    <3>1. g = Merge(h, p, b)
      BY <2>1, <2>2
    <3>2. MergedFields(h, p, b, g)
      BY <3>1, MergeFields
    <3> QED
      BY <2>2, <3>2, Zenon DEF MergedFields
  <2>14. PICK s2, n2, p2 : s2 = g.size /\ n2 = g.next /\ p2 = g.prev
    OBVIOUS
  <2>15. Merged(C, sz, nx, pv, p, b, s2, n2, p2)
    BY <1>1, <2>3, <2>4, <2>11, <2>12, <2>13, <2>14 DEF Merged
  <2>16. Kept(C \ {b}, v, s2, n2, p2)
    BY <1>1, <2>2, <2>15, OneMerge
  <2>17. C \ {b} \subseteq B /\ owned \ {b} \subseteq C \ {b}
    BY <1>1
  <2>18. Returned(B, v, C \ {b}, b, g)
    BY <1>1, <2>13, <2>14, <2>16, <2>17 DEF Returned
  <2> QED
    BY <2>18
<1> QED
  BY <1>2, <1>3

LEMMA StepKfree ==
    ASSUME NEW B, NEW v, HeapInv(B, v), ~raced, NEW b \in Addr, kfree(b), ~raced'
    PROVE  \E D : HeapInv(D, v)'
<1>1. b \in owned /\ b \notin boot /\ owned' = owned \ {b}
  BY DEF kfree
<1>2. magic[b] = "ALLOC" /\ ~free[b] /\ Owners(B) /\ Types
  BY <1>1 DEF HeapInv, Owners
<1>3. PICK h : h = Freed(b)
  OBVIOUS
<1>4. PICK g : g = CoalesceNext(h, b)
  OBVIOUS
<1>5. PICK k : k = CoalescePrev(g, b)
  OBVIOUS
<1>6. /\ size' = k.size /\ free' = k.free /\ magic' = k.magic
      /\ next' = k.next /\ prev' = k.prev
      /\ raced' = (raced \/ ({current, last} \ {Null}) \cap Touched(b) # {})
      /\ UNCHANGED <<diag, head, frames, boot, pc, current, last>>
  <2>1. /\ LET m == CoalescePrev(CoalesceNext(Freed(b), b), b)
           IN  /\ size' = m.size /\ free' = m.free /\ magic' = m.magic
               /\ next' = m.next /\ prev' = m.prev
        /\ raced' = (raced \/ ({current, last} \ {Null}) \cap Touched(b) # {})
        /\ UNCHANGED diag
    BY <1>2 DEF kfree
  <2>2. UNCHANGED <<head, frames, boot, pc, current, last>>
    BY DEF kfree
  <2> QED
    BY <1>3, <1>4, <1>5, <2>1, <2>2
<1>7. Touched(b) = (IF MergesNext(h, b) THEN {b, next[b]} ELSE {})
                   \cup (IF MergesPrev(g, b) THEN {b, prev[b]} ELSE {})
  BY <1>3, <1>4, Zenon DEF Touched
<1>8. \A c \in Touched(b) : c # Null => c # current /\ c # last
  BY <1>6
<1>9. b \in B /\ b # Null
  <2>1. b \in B
    BY <1>1, <1>2 DEF Owners
  <2> QED
    BY <2>1, BlockFacts DEF HeapInv, Listed
<1>10. MergesNext(h, b) => Away({b, next[b]})
  <2>1. h.next = next
    BY <1>3, FreedFields
  <2>2. MergesNext(h, b) => next[b] # Null
    BY <2>1 DEF MergesNext
  <2> QED
    BY <1>7, <1>8, <1>9, <2>2 DEF Away
<1>11. IsHeap(g) /\ \E C : Freeing(B, v, C, b, g)
  BY <1>1, <1>3, <1>4, <1>10, FreeNext
<1>12. PICK C : Freeing(B, v, C, b, g)
  BY <1>11
<1>13. MergesPrev(g, b) => Away({b, prev[b]})
  <2>1. g.prev[b] = prev[b]
    BY <1>12 DEF Freeing
  <2>2. MergesPrev(g, b) => prev[b] # Null
    BY <2>1 DEF MergesPrev
  <2> QED
    BY <1>7, <1>8, <1>9, <2>2 DEF Away
<1>14. PICK D : Returned(B, v, D, b, k)
  BY <1>1, <1>5, <1>11, <1>12, <1>13, FreePrev
<1>15. /\ Kept(D, v, k.size, k.next, k.prev)
       /\ D \subseteq B /\ owned \ {b} \subseteq D
       /\ k.free = [free EXCEPT ![b] = TRUE] /\ k.magic = [magic EXCEPT ![b] = "FREE"]
  BY <1>14 DEF Returned
<1>16. Kept(D, v, size', next', prev')
  BY <1>6, <1>15
<1>17. /\ HeapBytes' = HeapBytes /\ Total' = Total /\ Cutting' = Cutting
       /\ new_block' = new_block /\ Links(next)' = Links(next')
  BY <1>6 DEF HeapBytes, Total, Cutting, new_block, Links
<1>18. Listed(D, v, size, next, prev)' /\ Pointers(next)'
  BY <1>6, <1>16, <1>17 DEF Kept, Listed, Pointers
<1>19. Unused(size)'
  BY <1>16, <1>17 DEF Kept, Unused
<1>20. Standing(D, next)'
  BY <1>6, <1>16, <1>17 DEF Kept, Standing
<1>21. Draft(size, next, prev)'
  BY <1>6, <1>16, <1>17 DEF Kept, Draft
<1>22. Cut(D, size, next, prev)'
  BY <1>1, <1>6, <1>16, <1>17 DEF Kept, Cut
<1>23. /\ free' \in [Addr -> BOOLEAN] /\ magic' \in [Addr -> {"none", "FREE", "ALLOC"}]
       /\ free'[b] = TRUE /\ magic'[b] = "FREE"
       /\ \A c \in Addr : c # b => free'[c] = free[c] /\ magic'[c] = magic[c]
  BY <1>2, <1>6, <1>15 DEF Types
<1>24. Types'
  BY <1>2, <1>6, <1>23 DEF Types
<1>25. \A c \in B : c \in Addr
  BY BlockFacts DEF HeapInv, Listed
<1>26. Owners(D)'
  <2>1. \A c \in owned \ {b} : ~free'[c] /\ magic'[c] = "ALLOC"
    BY <1>2, <1>23, <1>25 DEF Owners
  <2>2. \A c \in D \ (owned \ {b}) :
           \/ c = current /\ pc \in {"link", "stamp"}
           \/ free'[c] /\ magic'[c] = "FREE"
    <3> SUFFICES ASSUME NEW c \in D \ (owned \ {b})
                 PROVE  \/ c = current /\ pc \in {"link", "stamp"}
                        \/ free'[c] /\ magic'[c] = "FREE"
      BY Zenon
    <3>1. CASE c = b
      BY <1>23, <3>1
    <3>2. CASE c # b
      <4>1. c \in B \ owned /\ c \in Addr
        BY <1>15, <1>25, <3>2
      <4>2. \/ c = current /\ pc \in {"link", "stamp"}
            \/ free[c] /\ magic[c] = "FREE"
        BY <1>2, <4>1 DEF Owners
      <4> QED
        BY <1>23, <3>2, <4>1, <4>2
    <3> QED
      BY <3>1, <3>2
  <2>3. boot \subseteq owned \ {b} /\ diag = "none"
    BY <1>1, <1>2 DEF Owners
  <2> QED
    BY <1>1, <1>6, <1>15, <2>1, <2>2, <2>3 DEF Owners
<1>27. Found'
  <2>1. Found
    BY DEF HeapInv
  <2>2. pc \notin {"idle", "free", "request"} => current \in Addr
    BY CurrentFacts
  <2> QED
    BY <1>1, <1>6, <1>23, <2>1, <2>2 DEF Found
<1>28. DraftFree'
  <2>1. DraftFree
    BY DEF HeapInv
  <2>2. pc \in {"split_next", "shrink"} => new_block \in Addr
    BY DraftFacts
  <2> QED
    BY <1>6, <1>17, <1>23, <2>1, <2>2 DEF DraftFree
<1>29. HeapInv(D, v)'
  BY <1>18, <1>19, <1>20, <1>21, <1>22, <1>24, <1>26, <1>27, <1>28 DEF HeapInv
<1> QED
  BY <1>29

-----------------------------------------------------------------------------
(* The invariant holds.                                                     *)

LEMMA StartInv == Init => IndInv
<1> SUFFICES ASSUME Init PROVE \E B, v : HeapInv(B, v)
  BY DEF IndInv
<1>1. PICK v : v = [x \in {} |-> 0]
  OBVIOUS
<1>2. HeapBytes = {} /\ Total = 0 /\ Links(next) = next /\ ~Cutting
  <2>1. Cardinality(frames) = 0
    BY FS_EmptySet DEF Init
  <2> QED
    BY <2>1, Sizes DEF Init, HeapBytes, Total, Links, Cutting
<1>3. Typed({}, 0, v, size, next, prev)
  BY <1>1 DEF Init, Typed
<1>4. Shape({}, 0, {}, v, size, next, prev, head)
  BY <1>3 DEF Init, Shape, Placed, Covered, Linear, Ordered, Chained, Headed, Nested, Backed
<1>5. Listed({}, v, size, next, prev)
  BY <1>2, <1>4 DEF Listed
<1>6. Types
  BY DEF Init, Types
<1>7. Unused(size) /\ Pointers(next)
  BY DEF Init, Unused, Pointers
<1>8. /\ Owners({}) /\ Standing({}, next) /\ Found /\ Draft(size, next, prev)
      /\ DraftFree /\ Cut({}, size, next, prev)
  BY <1>2 DEF Init, Owners, Standing, Found, Draft, DraftFree, Cut
<1> QED
  BY <1>5, <1>6, <1>7, <1>8 DEF HeapInv

LEMMA NextInv == IndInv /\ [Next]_vars => IndInv'
<1> SUFFICES ASSUME IndInv, [Next]_vars, ~raced' PROVE \E B, v : HeapInv(B, v)'
  BY DEF IndInv
<1>1. ~raced
  BY DEF vars, Next, kmalloc, kmalloc_free, kmalloc_size, kmalloc_advance, request_space,
         split_size, split_next, split_shrink, kmalloc_take, split_link,
         kmalloc_return, kfree
<1>2. PICK B, v : HeapInv(B, v)
  BY <1>1 DEF IndInv
<1>3. CASE kmalloc
  BY <1>2, <1>3, StepKmalloc
<1>4. CASE kmalloc_free
  BY <1>2, <1>4, StepKmallocFree
<1>5. CASE kmalloc_size
  BY <1>2, <1>5, StepKmallocSize
<1>6. CASE kmalloc_advance
  BY <1>2, <1>6, StepKmallocAdvance
<1>7. CASE \E f \in (0..(Frames - 1)) \ frames : request_space(f)
  BY <1>2, <1>7, StepRequestSpace
<1>8. CASE split_size
  BY <1>2, <1>8, StepSplitSize
<1>9. CASE split_next
  BY <1>2, <1>9, StepSplitNext
<1>10. CASE split_shrink
  BY <1>2, <1>10, StepSplitShrink
<1>11. CASE kmalloc_take
  BY <1>2, <1>11, StepKmallocTake
<1>12. CASE split_link
  BY <1>2, <1>12, StepSplitLink
<1>13. CASE kmalloc_return
  BY <1>2, <1>13, StepKmallocReturn
<1>14. CASE \E b \in Addr : kfree(b)
  BY <1>1, <1>2, <1>14, StepKfree
<1>15. CASE UNCHANGED vars
  <2>1. /\ UNCHANGED <<head, size, free, magic, next, prev, frames, owned, boot>>
        /\ UNCHANGED <<pc, current, last, diag>>
    BY <1>15 DEF vars, fields
  <2>2. Links(next)' = Links(next) /\ Cutting' = Cutting /\ new_block' = new_block
    BY <2>1 DEF Links, Cutting, new_block
  <2>3. Listed(B, v, size, next, prev)' /\ Unused(size)' /\ Pointers(next)'
    BY <1>2, <2>1, <2>2, SameList
  <2>4. Types' /\ Owners(B)' /\ Found'
    BY <1>2, <2>1 DEF HeapInv, Types, Owners, Found
  <2>5. Standing(B, next)' /\ Draft(size, next, prev)' /\ DraftFree'
    BY <1>2, <2>1, <2>2 DEF HeapInv, Standing, Draft, DraftFree
  <2>6. Cut(B, size, next, prev)'
    BY <1>2, <2>1, <2>2 DEF HeapInv, Cut
  <2> QED
    BY <2>3, <2>4, <2>5, <2>6 DEF HeapInv
<1> QED
  BY <1>3, <1>4, <1>5, <1>6, <1>7, <1>8, <1>9, <1>10, <1>11, <1>12, <1>13, <1>14,
     <1>15 DEF Next

LEMMA HeapInvariance == Spec => []IndInv
  BY StartInv, NextInv, PTL DEF Spec

-----------------------------------------------------------------------------
(* What Walk and Blocks compute                                             *)

Steps == Null \div (BLOCK_SIZE + Size)

\* g follows k links from the head on.
Follows(k, g) == g = [i \in 0..k |-> IF i = 0 THEN head ELSE Behind(g[i - 1])]

LEMMA FollowsExists ==
    ASSUME NEW k \in Nat
    PROVE  \E g : Follows(k, g)
<1> DEFINE S == {n \in Nat : \E g : Follows(n, g)}
<1>1. 0 \in S
  <2> DEFINE g == [i \in 0..0 |-> head]
  <2>1. g = [i \in 0..0 |-> IF i = 0 THEN head ELSE Behind(g[i - 1])]
    OBVIOUS
  <2> QED
    BY <2>1 DEF Follows
<1>2. ASSUME NEW n \in Nat, n \in S
      PROVE  n + 1 \in S
  <2>1. PICK g : Follows(n, g)
    BY <1>2
  <2>2. \A i \in 0..n : g[i] = IF i = 0 THEN head ELSE Behind(g[i - 1])
    BY <2>1 DEF Follows
  <2> DEFINE h == [i \in 0..(n + 1) |-> IF i = n + 1 THEN Behind(g[n]) ELSE g[i]]
  <2>3. ASSUME NEW i \in 0..(n + 1)
        PROVE  h[i] = IF i = 0 THEN head ELSE Behind(h[i - 1])
    <3>1. CASE i = n + 1
      BY <3>1
    <3>2. CASE i # n + 1
      <4>1. i \in 0..n /\ h[i] = g[i] /\ (i # 0 => i - 1 \in 0..n /\ h[i - 1] = g[i - 1])
        BY <3>2
      <4> QED
        BY <2>2, <4>1
    <3> QED
      BY <3>1, <3>2
  <2>4. Follows(n + 1, h)
    <3>1. h = [i \in 0..(n + 1) |-> h[i]]
      OBVIOUS
    <3> HIDE DEF h
    <3> QED
      BY <2>3, <3>1 DEF Follows
  <2> QED
    BY <2>4
<1>3. Nat \subseteq S
  <2> HIDE DEF S
  <2> QED
    BY <1>1, <1>2, NatInductiveSet
<1> QED
  BY <1>3

LEMMA StepsFacts == Steps \in Nat /\ Steps * Unit = Null
  BY NullUnits DEF Steps, Unit

LEMMA WalkFollows == Follows(Steps, Walk)
<1> DEFINE at == CHOOSE g : g = [i \in 0..Steps |-> IF i = 0 THEN head ELSE Behind(g[i - 1])]
<1>1. Walk = at
  BY DEF Walk, Steps
<1>2. \E g : g = [i \in 0..Steps |-> IF i = 0 THEN head ELSE Behind(g[i - 1])]
  <2>1. PICK g : Follows(Steps, g)
    BY StepsFacts, FollowsExists
  <2> QED
    BY <2>1 DEF Follows
<1>3. at = [i \in 0..Steps |-> IF i = 0 THEN head ELSE Behind(at[i - 1])]
  BY <1>2
<1> HIDE DEF at
<1> QED
  BY <1>1, <1>3 DEF Follows

\* The links nx lead from hd on through D, in the order of positions.
Chain(D, v, nx, hd) ==
    /\ \/ D = {} /\ hd = Null
       \/ hd \in D /\ v[hd] = 0
    /\ \A d \in D : d # Null /\ v[d] \in Nat /\ v[d] + Unit <= Null
    /\ \A d \in D : nx[d] # Null => nx[d] \in D /\ v[d] + Unit <= v[nx[d]]
    /\ \A d, e \in D : v[d] < v[e] => nx[d] # Null /\ v[nx[d]] <= v[e]
    /\ \A d, e \in D : v[d] = v[e] => d = e

LEMMA ChainWalk ==
    ASSUME NEW D, NEW v, Chain(D, v, next, head)
    PROVE  Blocks = D /\ Walk[Steps] = Null
<1>1. PICK w : w = Walk
  OBVIOUS
<1>2. /\ DOMAIN w = 0..Steps
      /\ \A i \in 0..Steps : w[i] = IF i = 0 THEN head ELSE Behind(w[i - 1])
  BY <1>1, WalkFollows DEF Follows
<1>3. Steps \in Nat /\ Steps * Unit = Null /\ Unit \in Nat \ {0}
  BY StepsFacts, Sizes
<1>4. /\ \/ D = {} /\ head = Null
         \/ head \in D /\ v[head] = 0
      /\ \A d \in D : d # Null /\ v[d] \in Nat /\ v[d] + Unit <= Null
      /\ \A d \in D : next[d] # Null => next[d] \in D /\ v[d] + Unit <= v[next[d]]
      /\ \A d, e \in D : v[d] < v[e] => next[d] # Null /\ v[next[d]] <= v[e]
      /\ \A d, e \in D : v[d] = v[e] => d = e
  BY DEF Chain
<1> DEFINE Reached(i) == /\ w[i] = Null \/ (w[i] \in D /\ i * Unit <= v[w[i]])
                         /\ \A e \in D : \/ \E j \in 0..i : w[j] = e
                                         \/ w[i] # Null /\ v[w[i]] < v[e]
           S == {i \in Nat : i <= Steps => Reached(i)}
<1>5. 0 \in S
  <2>1. 0 \in 0..Steps /\ 0 * Unit = 0 /\ 0 \in 0..0
    BY <1>3
  <2>2. w[0] = head
    BY <1>2, <2>1
  <2>3. w[0] = Null \/ (w[0] \in D /\ 0 * Unit <= v[w[0]])
    BY <1>4, <2>1, <2>2
  <2>4. ASSUME NEW e \in D PROVE w[0] = e \/ (w[0] # Null /\ v[w[0]] < v[e])
    <3>1. head \in D /\ v[head] = 0 /\ head # Null
      BY <1>4
    <3>2. v[e] = 0 => e = head
      BY <1>4, <3>1
    <3>3. v[e] \in Nat
      BY <1>4
    <3> QED
      BY <2>2, <3>1, <3>2, <3>3
  <2>5. Reached(0)
    BY <2>1, <2>3, <2>4
  <2> QED
    BY <2>5
<1>6. ASSUME NEW i \in Nat, i \in S PROVE i + 1 \in S
  <2> SUFFICES ASSUME i + 1 <= Steps PROVE Reached(i + 1)
    OBVIOUS
  <2>1. /\ i + 1 \in 0..Steps /\ i + 1 # 0 /\ (i + 1) - 1 = i /\ i <= Steps
        /\ i + 1 \in 0..(i + 1) /\ \A j \in 0..i : j \in 0..(i + 1)
    BY <1>3
  <2>2. Reached(i)
    BY <1>6, <2>1
  <2>3. w[i + 1] = Behind(w[i])
    BY <1>2, <2>1
  <2>4. CASE w[i] = Null
    <3>1. w[i + 1] = Null
      BY <2>3, <2>4 DEF Behind
    <3>2. \A e \in D : \E j \in 0..i : w[j] = e
      BY <2>2, <2>4
    <3> QED
      BY <2>1, <3>1, <3>2
  <2>5. CASE w[i] # Null
    <3>1. PICK d \in D : d = w[i] /\ i * Unit <= v[d]
      BY <2>2, <2>5
    <3>2. w[i + 1] = next[d]
      BY <2>3, <2>5, <3>1 DEF Behind
    <3>3. v[d] \in Nat /\ (i + 1) * Unit = i * Unit + Unit /\ i * Unit \in Nat
      BY <1>3, <1>4, TimesOrder
    <3>4. w[i + 1] = Null \/ (w[i + 1] \in D /\ (i + 1) * Unit <= v[w[i + 1]])
      <4>1. CASE next[d] = Null
        BY <3>2, <4>1
      <4>2. CASE next[d] # Null
        <5>1. next[d] \in D /\ v[d] + Unit <= v[next[d]] /\ v[next[d]] \in Nat
          BY <1>4, <4>2
        <5>2. (i + 1) * Unit <= v[next[d]]
          BY <1>3, <3>1, <3>3, <5>1
        <5> QED
          BY <3>2, <5>1, <5>2
      <4> QED
        BY <4>1, <4>2
    <3>5. ASSUME NEW e \in D
          PROVE  (\E j \in 0..(i + 1) : w[j] = e) \/ (w[i + 1] # Null /\ v[w[i + 1]] < v[e])
      <4>1. CASE \E j \in 0..i : w[j] = e
        BY <2>1, <4>1
      <4>2. CASE v[d] < v[e]
        <5>1. next[d] # Null /\ v[next[d]] <= v[e] /\ next[d] \in D
          BY <1>4, <4>2
        <5>2. v[e] \in Nat /\ v[next[d]] \in Nat
          BY <1>4, <5>1
        <5>3. v[next[d]] = v[e] => next[d] = e
          BY <1>4, <5>1
        <5>4. v[next[d]] < v[e] \/ next[d] = e
          BY <5>1, <5>2, <5>3
        <5> QED
          BY <2>1, <3>2, <5>1, <5>4
      <4> QED
        BY <2>2, <3>1, <4>1, <4>2
    <3> QED
      BY <3>4, <3>5
  <2> QED
    BY <2>4, <2>5
<1>7. Nat \subseteq S
  <2> HIDE DEF S
  <2> QED
    BY <1>5, <1>6, NatInductiveSet
<1>8. \A i \in 0..Steps : Reached(i)
  BY <1>3, <1>7
<1>9. Reached(Steps)
  <2>1. Steps \in 0..Steps
    BY <1>3
  <2> HIDE DEF Reached
  <2> QED
    BY <1>8, <2>1
<1>10. w[Steps] = Null
  <2> SUFFICES ASSUME w[Steps] # Null PROVE FALSE
    OBVIOUS
  <2>1. PICK d \in D : d = w[Steps] /\ Steps * Unit <= v[d]
    BY <1>9
  <2>2. v[d] \in Nat /\ v[d] + Unit <= Null
    BY <1>4
  <2> QED
    BY <1>3, <2>1, <2>2, Sizes
<1>11. \A i \in 0..Steps : w[i] = Null \/ w[i] \in D
  BY <1>8
<1>12. \A e \in D : \E j \in 0..Steps : w[j] = e
  BY <1>9, <1>10
<1>13. \A d \in D : d # Null
  BY <1>4
<1>14. Blocks = {w[i] : i \in 0..Steps} \ {Null}
  BY <1>1, <1>2 DEF Blocks
<1>15. Blocks = D
  BY <1>11, <1>12, <1>13, <1>14
<1> QED
  BY <1>1, <1>10, <1>15

LEMMA TotalBound ==
    ASSUME Types
    PROVE  Total \in Nat /\ Total <= Null
<1>1. IsFiniteSet(0..(Frames - 1)) /\ Cardinality(0..(Frames - 1)) = Frames
  <2>1. IsFiniteSet(0..(Frames - 1))
    BY FS_Interval, Sizes
  <2>2. Cardinality(0..(Frames - 1)) = IF 0 > Frames - 1 THEN 0 ELSE (Frames - 1) - 0 + 1
    BY FS_Interval, Sizes
  <2> QED
    BY <2>1, <2>2, Sizes
<1>2. Cardinality(frames) \in Nat /\ Cardinality(frames) <= Frames
  <2>1. frames \subseteq 0..(Frames - 1)
    BY DEF Types
  <2>2. IsFiniteSet(frames) /\ Cardinality(frames) <= Cardinality(0..(Frames - 1))
    BY <1>1, <2>1, FS_Subset
  <2> QED
    BY <1>1, <2>2, FS_CardinalityType
<1>3. PICK c \in Nat : c = Cardinality(frames)
  BY <1>2
<1>4. c * FrameSize \in Nat /\ c * FrameSize <= Frames * FrameSize
  BY <1>2, <1>3, TimesOrder, Sizes
<1> QED
  BY <1>3, <1>4, Sizes DEF Total

LEMMA ShapeChain ==
    ASSUME NEW H, NEW T, NEW B, NEW v, NEW sz, NEW nx, NEW pv, NEW hd,
           Shape(H, T, B, v, sz, nx, pv, hd), T <= Null
    PROVE  Chain(B, v, nx, hd)
<1>1. T \in Nat
  BY DEF Shape, Typed
<1>2. \A d \in B : /\ d # Null /\ v[d] \in Nat /\ After(v, sz, d) \in Nat
                   /\ v[d] + Unit <= After(v, sz, d) /\ After(v, sz, d) <= T
  BY BlockFacts
<1>3. \A d \in B : v[d] + Unit <= Null
  <2> SUFFICES ASSUME NEW d \in B PROVE v[d] + Unit <= Null
    OBVIOUS
  <2>1. /\ v[d] \in Nat /\ After(v, sz, d) \in Nat
        /\ v[d] + Unit <= After(v, sz, d) /\ After(v, sz, d) <= T
    BY <1>2
  <2> QED
    BY <1>1, <2>1, Sizes
<1>4. \/ B = {} /\ hd = Null
      \/ hd \in B /\ v[hd] = 0
  BY DEF Shape, Headed
<1>5. \A d \in B : nx[d] # Null => nx[d] \in B /\ v[d] + Unit <= v[nx[d]]
  BY <1>2, Forward
<1>6. ASSUME NEW d \in B, NEW e \in B, v[d] < v[e]
      PROVE  nx[d] # Null /\ v[nx[d]] <= v[e]
  <2>1. /\ v[d] \in Nat /\ v[e] \in Nat /\ v[e] < After(v, sz, e) /\ After(v, sz, e) <= T
        /\ After(v, sz, e) \in Nat /\ After(v, sz, d) \in Nat
    BY <1>2, Sizes
  <2>2. After(v, sz, d) <= v[e] \/ After(v, sz, e) <= v[d]
    BY <1>6, <2>1 DEF Shape, Ordered
  <2>3. After(v, sz, d) <= v[e] /\ After(v, sz, d) # T
    BY <1>1, <1>6, <2>1, <2>2
  <2> QED
    BY <2>3, Forward
<1>7. ASSUME NEW d \in B, NEW e \in B, v[d] = v[e] PROVE d = e
  <2> SUFFICES ASSUME d # e PROVE FALSE
    OBVIOUS
  <2>1. /\ v[d] \in Nat /\ After(v, sz, d) \in Nat /\ v[d] < After(v, sz, d)
        /\ v[e] \in Nat /\ After(v, sz, e) \in Nat /\ v[e] < After(v, sz, e)
    BY <1>2, Sizes
  <2>2. After(v, sz, d) <= v[e] \/ After(v, sz, e) <= v[d]
    BY DEF Shape, Ordered
  <2> QED
    BY <1>7, <2>1, <2>2
<1> QED
  BY <1>2, <1>3, <1>4, <1>5, <1>6, <1>7 DEF Chain

\* The links nx are those of L, but lead from X on past N.
Skips(B, nx, L, X, N) ==
    /\ X \in B /\ N \in B /\ L[X] = N /\ nx[X] = L[N]
    /\ \A d \in B : d # X => nx[d] = L[d]

\* The list without its element N, which no link leads to any more.
LEMMA CutChain ==
    ASSUME NEW B, NEW v, NEW nx, NEW hd, NEW L, Chain(B, v, L, hd),
           NEW X, NEW N, Skips(B, nx, L, X, N)
    PROVE  Chain(B \ {N}, v, nx, hd)
<1>0. /\ X \in B /\ N \in B /\ L[X] = N /\ nx[X] = L[N]
      /\ \A d \in B : d # X => nx[d] = L[d]
  BY DEF Skips
<1> USE <1>0
<1>1. /\ \/ B = {} /\ hd = Null
         \/ hd \in B /\ v[hd] = 0
      /\ \A d \in B : d # Null /\ v[d] \in Nat /\ v[d] + Unit <= Null
      /\ \A d \in B : L[d] # Null => L[d] \in B /\ v[d] + Unit <= v[L[d]]
      /\ \A d, e \in B : v[d] < v[e] => L[d] # Null /\ v[L[d]] <= v[e]
      /\ \A d, e \in B : v[d] = v[e] => d = e
  BY DEF Chain
<1>2. N # Null /\ v[N] \in Nat /\ v[X] \in Nat /\ v[X] + Unit <= v[N]
  BY <1>1
<1>3. hd \in B \ {N} /\ v[hd] = 0
  BY <1>1, <1>2, Sizes
<1>4. ASSUME NEW d \in B, L[d] = N PROVE d = X
  <2> SUFFICES ASSUME d # X PROVE FALSE
    OBVIOUS
  <2>1. v[d] \in Nat /\ v[d] # v[X] /\ v[d] + Unit <= v[N]
    BY <1>1, <1>2, <1>4
  <2>2. CASE v[d] < v[X]
    <3>1. v[N] <= v[X]
      BY <1>1, <1>4, <2>2
    <3> QED
      BY <1>2, <3>1, Sizes
  <2>3. CASE v[X] < v[d]
    <3>1. v[N] <= v[d]
      BY <1>1, <2>3
    <3> QED
      BY <1>2, <2>1, <3>1, Sizes
  <2> QED
    BY <1>2, <2>1, <2>2, <2>3
<1>5. L[N] # Null => /\ L[N] \in B /\ L[N] # N /\ v[L[N]] \in Nat
                     /\ v[X] + Unit <= v[L[N]]
  <2>1. ASSUME L[N] # Null
        PROVE  /\ L[N] \in B /\ L[N] # N /\ v[L[N]] \in Nat
               /\ v[X] + Unit <= v[L[N]]
    <3>1. L[N] \in B /\ v[N] + Unit <= v[L[N]]
      BY <1>1, <2>1
    <3>2. v[L[N]] \in Nat
      BY <1>1, <3>1
    <3>3. L[N] # N
      BY <1>2, <3>1, <3>2, Sizes
    <3>4. v[X] + Unit <= v[L[N]]
      BY <1>2, <3>1, <3>2, Sizes
    <3> QED
      BY <3>1, <3>2, <3>3, <3>4
  <2> QED
    BY <2>1
<1>6. ASSUME NEW d \in B \ {N}, nx[d] # Null
      PROVE  nx[d] \in B \ {N} /\ v[d] + Unit <= v[nx[d]]
  <2>1. CASE d = X
    BY <1>5, <1>6, <2>1
  <2>2. CASE d # X
    <3>1. nx[d] = L[d] /\ L[d] # N
      BY <1>4, <2>2
    <3> QED
      BY <1>1, <1>6, <3>1
  <2> QED
    BY <2>1, <2>2
<1>7. ASSUME NEW d \in B \ {N}, NEW e \in B \ {N}, v[d] < v[e]
      PROVE  nx[d] # Null /\ v[nx[d]] <= v[e]
  <2>1. L[d] # Null /\ v[L[d]] <= v[e]
    BY <1>1, <1>7
  <2>2. CASE d # X
    BY <2>1, <2>2
  <2>3. CASE d = X
    <3>1. v[N] <= v[e] /\ v[N] # v[e] /\ v[e] \in Nat
      BY <1>1, <2>1, <2>3
    <3>2. v[N] < v[e]
      BY <1>2, <3>1
    <3> QED
      BY <1>1, <2>3, <3>2
  <2> QED
    BY <2>2, <2>3
<1>8. \A d \in B \ {N} : d # Null /\ v[d] \in Nat /\ v[d] + Unit <= Null
  BY <1>1
<1>9. \A d, e \in B \ {N} : v[d] = v[e] => d = e
  BY <1>1
<1> QED
  BY <1>3, <1>6, <1>7, <1>8, <1>9 DEF Chain

\* The list that a reader finds: the new block of a split is not in it yet.
LEMMA ListBlocks ==
    ASSUME NEW B, NEW v, HeapInv(B, v)
    PROVE  /\ Walk[Steps] = Null
           /\ Blocks = IF Cutting THEN B \ {new_block} ELSE B
<1>1. PICK L : L = Links(next)
  OBVIOUS
<1>2. Shape(HeapBytes, Total, B, v, size, L, prev, head)
  BY <1>1 DEF HeapInv, Listed
<1>3. Chain(B, v, L, head)
  BY <1>2, ShapeChain, TotalBound DEF HeapInv
<1>4. CASE ~Cutting
  <2>1. Chain(B, v, next, head)
    BY <1>1, <1>3, <1>4 DEF Links
  <2> QED
    BY <1>4, <2>1, ChainWalk
<1>5. CASE Cutting
  <2>1. PICK N : N = new_block
    OBVIOUS
  <2>2. current \in B /\ current \in Nat
    <3>1. current \in B
      BY <1>5, CurrentFacts DEF Cutting
    <3> QED
      BY <1>2, <3>1, BlockFacts
  <2>3. N \in B /\ next[current] = next[N]
    BY <1>5, <2>1 DEF HeapInv, Cut
  <2>4. L = [next EXCEPT ![current] = N]
    BY <1>1, <1>5, <2>1 DEF Links
  <2>5. \A d \in B : d \in Addr
    BY <1>2, BlockFacts
  <2>6. DOMAIN next = Addr
    BY <1>2, <2>4 DEF Shape, Typed
  <2>7. L[current] = N /\ \A d \in B : d # current => next[d] = L[d]
    BY <2>2, <2>4, <2>5, <2>6
  <2>8. N # current
    BY <2>1, <2>2, Sizes DEF new_block
  <2>9. next[current] = L[N]
    BY <2>3, <2>7, <2>8
  <2>10. Chain(B \ {N}, v, next, head)
    <3>1. Skips(B, next, L, current, N)
      BY <2>2, <2>3, <2>7, <2>9 DEF Skips
    <3> QED
      BY <1>3, <3>1, CutChain
  <2> QED
    BY <1>5, <2>1, <2>10, ChainWalk
<1> QED
  BY <1>4, <1>5

-----------------------------------------------------------------------------
(* The theorems                                                             *)

LEMMA InvTiled == IndInv => Tiled
<1> SUFFICES ASSUME IndInv, ~raced, ~Cutting
             PROVE  /\ Walk[Null \div (BLOCK_SIZE + Size)] = Null
                    /\ UNION {Extent(b) : b \in Blocks} = HeapBytes
                    /\ \A a, b \in Blocks : a # b => Extent(a) \cap Extent(b) = {}
  BY DEF Tiled
<1>1. PICK B, v : HeapInv(B, v)
  BY DEF IndInv
<1>2. Blocks = B /\ Walk[Null \div (BLOCK_SIZE + Size)] = Null
  BY <1>1, ListBlocks DEF Steps
<1>3. Shape(HeapBytes, Total, B, v, size, Links(next), prev, head)
  BY <1>1 DEF HeapInv, Listed
<1>4. \A b \in B : Extent(b) = b..(End(size, b) - 1)
  <2> SUFFICES ASSUME NEW b \in B PROVE Extent(b) = b..(End(size, b) - 1)
    OBVIOUS
  <2>1. b \in Nat /\ size[b] \in Nat
    BY <1>3, BlockFacts
  <2> QED
    BY <2>1, Sizes DEF Extent, End
<1>5. \A b \in B : Extent(b) \subseteq HeapBytes
  BY <1>3, <1>4 DEF Shape, Placed
<1>6. \A x \in HeapBytes : \E b \in B : x \in Extent(b)
  BY <1>3, <1>4 DEF Shape, Covered
<1>7. UNION {Extent(b) : b \in B} = HeapBytes
  BY <1>5, <1>6
<1>8. ASSUME NEW a \in B, NEW b \in B, a # b PROVE Extent(a) \cap Extent(b) = {}
  <2> SUFFICES ASSUME NEW x \in Extent(a), x \in Extent(b) PROVE FALSE
    OBVIOUS
  <2>1. x \in a..(End(size, a) - 1) /\ x \in b..(End(size, b) - 1)
    BY <1>4
  <2>2. PICK L : L = Links(next)
    OBVIOUS
  <2>3. Shape(HeapBytes, Total, B, v, size, L, prev, head)
    BY <1>3, <2>2
  <2>4. a = b
    BY <2>1, <2>3, Disjoint
  <2> QED
    BY <1>8, <2>4
<1> QED
  BY <1>2, <1>7, <1>8

LEMMA InvOwned == IndInv => OwnedBlocks
<1> SUFFICES ASSUME IndInv, ~raced
             PROVE  /\ \A b \in owned : /\ b \in Blocks /\ ~free[b] /\ magic[b] = "ALLOC"
                                        /\ size[b] >= Size
                    /\ \A b \in Blocks \ owned :
                          \/ b = current /\ pc \in {"link", "stamp"}
                          \/ free[b] /\ magic[b] = "FREE"
  BY DEF OwnedBlocks
<1>1. PICK B, v : HeapInv(B, v)
  BY DEF IndInv
<1>2. Owners(B) /\ Cut(B, size, next, prev)
  BY <1>1 DEF HeapInv
<1>3. Blocks \subseteq B /\ owned \subseteq Blocks
  BY <1>1, <1>2, ListBlocks DEF Owners, Cut
<1>4. \A b \in B : size[b] >= Size
  BY <1>1, BlockFacts DEF HeapInv, Listed
<1> QED
  BY <1>2, <1>3, <1>4 DEF Owners

LEMMA RacedBoolean == Spec => [](raced \in BOOLEAN)
<1>1. Init => raced \in BOOLEAN
  BY DEF Init
<1>2. raced \in BOOLEAN /\ [Next]_vars => (raced \in BOOLEAN)'
  <2> SUFFICES ASSUME raced \in BOOLEAN, [Next]_vars PROVE raced' \in BOOLEAN
    OBVIOUS
  <2>1. CASE \E b \in Addr : kfree(b)
    <3>1. PICK b \in Addr : kfree(b)
      BY <2>1
    <3>2. raced' = raced \/ raced' = (raced \/ ({current, last} \ {Null}) \cap Touched(b) # {})
      BY <3>1 DEF kfree
    <3> QED
      BY <3>2
  <2>2. CASE raced' = raced
    BY <2>2
  <2> QED
    BY <2>1, <2>2 DEF vars, Next, kmalloc, kmalloc_free, kmalloc_size, kmalloc_advance,
       request_space, split_size, split_next, split_shrink, kmalloc_take, split_link,
       kmalloc_return
<1> QED
  BY <1>1, <1>2, PTL DEF Spec

LEMMA InvTypes == IndInv /\ raced \in BOOLEAN => (~raced => TypeOK)
<1> SUFFICES ASSUME IndInv, raced \in BOOLEAN, ~raced PROVE TypeOK
  OBVIOUS
<1>1. PICK B, v : HeapInv(B, v)
  BY DEF IndInv
<1>2. Types /\ Owners(B) /\ Standing(B, next) /\ Pointers(next) /\ Unused(size)
  BY <1>1 DEF HeapInv
<1>3. Shape(HeapBytes, Total, B, v, size, Links(next), prev, head)
  BY <1>1 DEF HeapInv, Listed
<1>4. size \in [Addr -> Nat] /\ prev \in [Addr -> Addr \cup {Null}]
  BY <1>3 DEF Shape, Typed
<1>5. \A b \in B : b \in Addr /\ End(size, b) \in Nat /\ End(size, b) <= Null
  BY <1>3, BlockFacts
<1>6. ASSUME NEW x \in Addr PROVE size[x] \in 0..Null
  <2>1. x \in Nat /\ size[x] \in Nat
    BY <1>4, Sizes DEF Addr
  <2>2. CASE size[x] = 0
    BY <2>2, Sizes
  <2>3. CASE x \in HeapBytes /\ x \in Aligned
    <3>1. PICK b \in B : x \in b..(End(size, b) - 1)
      BY <1>3, <2>3 DEF Shape, Covered
    <3>2. End(size, x) <= End(size, b)
      BY <1>3, <2>3, <3>1 DEF Shape, Nested
    <3>3. End(size, b) \in Nat /\ End(size, b) <= Null
      BY <1>5
    <3>4. x + BLOCK_SIZE + size[x] <= End(size, b)
      BY <3>2 DEF End
    <3> QED
      BY <2>1, <3>3, <3>4, Sizes
  <2> QED
    BY <1>2, <2>2, <2>3 DEF Unused
<1>7. size \in [Addr -> 0..Null]
  BY <1>4, <1>6
<1>8. head \in Addr \cup {Null}
  BY <1>3, <1>5 DEF Shape, Headed
<1>9. current \in Addr \cup {Null} /\ last \in Addr \cup {Null}
  BY <1>2, <1>5 DEF Standing, Types
<1>10. owned \subseteq Addr /\ boot \subseteq owned /\ diag = "none"
  BY <1>2, <1>5 DEF Owners
<1>11. diag \in {"none", "double free", "not my block"}
  BY <1>10, Zenon
<1>12. /\ free \in [Addr -> BOOLEAN] /\ magic \in [Addr -> {"none", "FREE", "ALLOC"}]
       /\ frames \subseteq 0..(Frames - 1)
       /\ pc \in {"idle", "free", "size", "advance", "request", "split",
                  "split_next", "shrink", "take", "split_take", "link", "stamp"}
  BY <1>2 DEF Types
<1>13. next \in [Addr -> Addr \cup {Null}]
  BY <1>2 DEF Pointers
<1> QED
  BY <1>4, <1>7, <1>8, <1>9, <1>10, <1>11, <1>12, <1>13, Zenon DEF TypeOK

\* Until a merge touches the block on which kmalloc stands, every pointer leads
\* into the memory of the heap or is null, and no size exceeds that memory.
THEOREM TypesUntilRace == Spec => [](~raced => TypeOK)
  BY HeapInvariance, RacedBoolean, InvTypes, PTL

\* As long as no merge has touched the block on which kmalloc stands, the list
\* ends, and its blocks share the frames of the heap among them whatever the
\* order of kmalloc's accesses and of the reaper's kfree.
THEOREM HeapTiled == Spec => []Tiled
  BY HeapInvariance, InvTiled, PTL

\* What belongs to a task is a taken block of the list, and the rest is free.
THEOREM HeapOwners == Spec => []OwnedBlocks
  BY HeapInvariance, InvOwned, PTL

\* kmalloc does not return a block that belongs to a task.
THEOREM HandedOutOnce == Spec => NotHandedOutTwice
<1>1. IndInv /\ [Next]_vars =>
         [~raced /\ pc = "stamp" /\ pc' = "idle" => current \notin owned]_vars
  <2> SUFFICES ASSUME IndInv, ~raced, pc = "stamp" PROVE current \notin owned
    OBVIOUS
  <2>1. PICK B, v : HeapInv(B, v)
    BY DEF IndInv
  <2> QED
    BY <2>1 DEF HeapInv, Found
<1> QED
  BY <1>1, HeapInvariance, PTL DEF Spec, NotHandedOutTwice

\* kfree halts the machine with a report only after such a race.
THEOREM DiagnosticsUntilRace == Spec => [](~raced => AccurateDiagnostics)
<1>1. IndInv => (~raced => AccurateDiagnostics)
  BY DEF IndInv, HeapInv, Owners, AccurateDiagnostics
<1> QED
  BY <1>1, HeapInvariance, PTL

=============================================================================
