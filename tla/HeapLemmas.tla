----------------------------- MODULE HeapLemmas -----------------------------
(***************************************************************************)
(* What the methods of the allocator (src/src/allocator.{h,cc}) do to a    *)
(* heap whose tags and free lists are in order, for every heap size and    *)
(* every size class table.                                                 *)
(*                                                                         *)
(* A heap is Sound for a set B of blocks, their sizes s and the free       *)
(* blocks F when the blocks follow each other from the first block to the  *)
(* last tag word, headers and footers give their sizes, the free tags mark *)
(* F, and the free lists link blocks of F, each on the list of its class.  *)
(* The first part is about these notions alone; the second follows         *)
(* RemoveBlock, SplitBlock and FreeBlock store by store. While one of them *)
(* runs, a few blocks are under construction and everything else is Sound: *)
(* Part and Stage say which.                                               *)
(***************************************************************************)
EXTENDS Allocator, TLAPS

\* Words of the tablet hold integers.
Memory == [Offsets -> Int]

\* A multiple of 16 is one.
LEMMA Sixteens == ASSUME NEW n \in Nat, n % 16 = 0 PROVE \E k \in Nat : n = 16 * k /\ n \div 16 = k
<1>1. n = 16 * (n \div 16) /\ n \div 16 \in Nat
  OBVIOUS
<1> QED
  BY Zenon, <1>1

\* Where Format puts the list heads, the first block and the tag behind the
\* last one: the heads end where the blocks begin, and a block of the largest
\* class and more fits behind them.
LEMMA Geometry ==
  /\ kNumFreeLists \in Nat /\ kNumFreeLists >= 3 /\ kNumFreeLists = kMaxBlockSize \div 16 + 1
  /\ FirstBlock = 4 * kNumFreeLists /\ GetLastFreeList = FirstBlock - 4
  /\ FirstBlock \in Offsets /\ LastTag \in Offsets
  /\ LastTag >= FirstBlock + kMaxBlockSize + 16 /\ LastTag + 4 <= kSize
  /\ (LastTag - FirstBlock) % 16 = 0
<1>1. kNumFreeLists \in Nat /\ kNumFreeLists >= 3
  BY SizeAssumption DEF kNumFreeLists
<1>2. FirstBlock = 4 * kNumFreeLists /\ GetLastFreeList = FirstBlock - 4
  BY <1>1 DEF FirstBlock, GetLastFreeList
<1>3. PICK q \in Int : q = (kSize - FirstBlock - 4) \div 16
  BY <1>1, <1>2, SizeAssumption
<1>4. LastTag = FirstBlock + q * 16
  BY Zenon, <1>3 DEF LastTag
<1>5. 16 * q <= kSize - FirstBlock - 4 /\ kSize - FirstBlock - 4 < 16 * q + 16
  BY <1>1, <1>2, <1>3, SizeAssumption
<1>6. kSize - FirstBlock - 4 >= kMaxBlockSize + 16
  BY <1>1, <1>2, SizeAssumption DEF kNumFreeLists
<1>7. PICK k \in Nat : kMaxBlockSize = 16 * k
  BY Zenon, Sixteens, SizeAssumption
<1>8. q >= k + 1
  BY <1>1, <1>2, <1>5, <1>6, <1>7, SizeAssumption
<1>9. LastTag >= FirstBlock + kMaxBlockSize + 16 /\ LastTag + 4 <= kSize
  BY <1>1, <1>2, <1>4, <1>5, <1>7, <1>8, SizeAssumption
<1>10. FirstBlock \in Int /\ FirstBlock % 4 = 0 /\ LastTag \in Int /\ LastTag % 4 = 0
       /\ (LastTag - FirstBlock) % 16 = 0
  BY <1>1, <1>2, <1>4
<1>11. FirstBlock \in Offsets /\ LastTag \in Offsets
  BY <1>1, <1>2, <1>9, <1>10, SizeAssumption DEF Offsets
<1> QED
  BY Zenon, <1>1, <1>2, <1>9, <1>10, <1>11 DEF kNumFreeLists

\* The list heads are the words before the first block.
LEMMA ListWords ==
  ASSUME NEW l \in Lists PROVE l \in Offsets /\ l \in Nat /\ l < FirstBlock
<1>1. PICK i \in 0..(kNumFreeLists - 1) : l = 4 * i
  BY Zenon DEF Lists
<1>2. l \in Nat /\ l < FirstBlock /\ l % 4 = 0
  BY <1>1, Geometry
<1>3. FirstBlock < kRegionSize /\ FirstBlock \in Int
  BY Geometry, SizeAssumption DEF Offsets
<1> QED
  BY <1>2, <1>3, SizeAssumption DEF Offsets

\* Each size has its list, only that of 16-byte blocks is at offset 0, and larger blocks
\* have later lists.
LEMMA ClassFacts ==
  ASSUME NEW n \in Nat, n >= 32, n % 16 = 0
  PROVE  /\ GetFreeListByBlockSize(n) \in Lists
         /\ GetFreeListByBlockSize(n) > 0 /\ GetFreeListByBlockSize(n) <= GetLastFreeList
<1>1. PICK k \in Int : n = 16 * k
  OBVIOUS
<1>2. PICK j \in Nat : kMaxBlockSize = 16 * j /\ kMaxBlockSize \div 16 = j
  BY Zenon, Sixteens, SizeAssumption
<1>3. k \in Nat /\ k >= 2 /\ n \div 16 = k /\ kNumFreeLists = j + 1 /\ j \in Nat /\ j >= 2
  BY <1>1, <1>2, SizeAssumption DEF kNumFreeLists
<1>4. GetLastFreeList = 4 * (kNumFreeLists - 1) /\ kNumFreeLists - 1 \in 0..(kNumFreeLists - 1)
  BY Geometry
<1>5. CASE n <= kMaxBlockSize
  <2>1. GetFreeListByBlockSize(n) = 4 * (k - 1) /\ k - 1 \in 0..(kNumFreeLists - 1) /\ k <= j
    BY <1>1, <1>2, <1>3, <1>5 DEF GetFreeListByBlockSize
  <2> QED
    BY <1>3, <1>4, <2>1 DEF Lists
<1>6. CASE ~(n <= kMaxBlockSize)
  <2>1. GetFreeListByBlockSize(n) = GetLastFreeList
    BY Zenon, <1>6 DEF GetFreeListByBlockSize
  <2> QED
    BY <1>3, <1>4, <2>1 DEF Lists
<1> QED
  BY Zenon, <1>5, <1>6

\* A list at or above that of size n has blocks of at least n bytes.
LEMMA ClassOrder ==
  ASSUME NEW n \in Nat, NEW k \in Nat, n % 16 = 0, k % 16 = 0, k >= 32, n >= 32, n <= kMaxBlockSize,
         GetFreeListByBlockSize(n) <= GetFreeListByBlockSize(k)
  PROVE  n <= k
<1>1. PICK n1 \in Int : n = 16 * n1
  OBVIOUS
<1>2. PICK k1 \in Int : k = 16 * k1
  OBVIOUS
<1>3. n \div 16 = n1 /\ k \div 16 = k1
  BY <1>1, <1>2
<1>4. CASE k <= kMaxBlockSize
  BY <1>1, <1>2, <1>3, <1>4 DEF GetFreeListByBlockSize
<1>5. CASE ~(k <= kMaxBlockSize)
  BY <1>5, SizeAssumption
<1> QED
  BY Zenon, <1>4, <1>5

----------------------------------------------------------------------------
(* The blocks of a heap: B is the set of their offsets, s their sizes.     *)

\* Blocks follow each other from the first to the last tag word.
Layout(B, s) ==
  /\ B \subseteq Offsets /\ s \in [B -> Nat] /\ FirstBlock \in B
  /\ \A b \in B : /\ FirstBlock <= b /\ s[b] >= 32 /\ s[b] % 16 = 0
                  /\ b + s[b] <= LastTag /\ b + s[b] \in B \cup {LastTag}
                  /\ b = FirstBlock \/ \E c \in B : c + s[c] = b
  /\ \A b, c \in B : b < c => b + s[b] <= c

\* Words are four bytes.
Aligned(a) == a \in Nat /\ a % 4 = 0

\* The offsets are the aligned addresses of the tablet.
LEMMA AlignedOffsets ==
  /\ \A a \in Offsets : Aligned(a)
  /\ \A a : Aligned(a) /\ a <= LastTag => a \in Offsets
<1>1. \A a \in Offsets : Aligned(a)
  BY SizeAssumption DEF Offsets, Aligned
<1>2. LastTag \in Int /\ LastTag < kRegionSize
  BY Geometry, SizeAssumption DEF Offsets
<1> QED
  BY <1>1, <1>2, SizeAssumption DEF Offsets, Aligned

\* The words of a block that the allocator uses are in the tablet.
LEMMA BlockWords ==
  ASSUME NEW B, NEW s, Layout(B, s), NEW b \in B
  PROVE  /\ b \in Nat /\ s[b] \in Nat /\ s[b] >= 32 /\ FirstBlock <= b /\ b + s[b] <= LastTag
         /\ FirstBlock \in Nat /\ FirstBlock >= 12 /\ LastTag \in Nat
         /\ {b, b + 4, b + 8, b + s[b] - 4, b + s[b]} \subseteq Offsets \ {0}
<1>1. /\ b \in Offsets /\ s[b] \in Nat /\ s[b] >= 32 /\ s[b] % 16 = 0
      /\ FirstBlock <= b /\ b + s[b] <= LastTag
  BY Zenon DEF Layout
<1>2. Aligned(b)
  BY Zenon, <1>1, AlignedOffsets
<1>3. FirstBlock \in Nat /\ FirstBlock >= 12 /\ LastTag \in Nat
  BY Geometry, AlignedOffsets DEF Aligned
<1>4. PICK k \in Nat : s[b] = 16 * k
  BY Zenon, <1>1, Sixteens
<1>5. Aligned(b + 4) /\ Aligned(b + 8)
  BY <1>2 DEF Aligned
<1>6. Aligned(b + s[b]) /\ Aligned(b + s[b] - 4)
  BY <1>1, <1>2, <1>4 DEF Aligned
<1>7. {b, b + 4, b + 8, b + s[b] - 4, b + s[b]} \subseteq Offsets
  <2>1. b + 4 <= LastTag /\ b + 8 <= LastTag /\ b + s[b] - 4 <= LastTag
    BY <1>1, <1>2, <1>3 DEF Aligned
  <2> QED
    BY Zenon, <1>1, <1>5, <1>6, <2>1, AlignedOffsets
<1> QED
  BY <1>1, <1>2, <1>3, <1>7 DEF Aligned

\* Two blocks have no word in common.
LEMMA Apart ==
  ASSUME NEW B, NEW s, Layout(B, s), NEW b \in B, NEW c \in B, b # c
  PROVE  b + s[b] <= c \/ c + s[c] <= b
<1>1. b \in Nat /\ c \in Nat
  BY Zenon, BlockWords
<1> QED
  BY <1>1 DEF Layout

----------------------------------------------------------------------------
(* Free lists.  L is the set of the blocks that may be on one.             *)

\* The list that a block of the size of b belongs on.
Class(s, b) == GetFreeListByBlockSize(s[b])

\* p is in front of b on its list.
LinkedBack(m, s, L, b, p) == p \in L /\ m[p + 8] = b /\ Class(s, p) = Class(s, b)
\* n is behind b on its list.
LinkedOn(m, s, L, b, n) == n \in L /\ m[n + 4] = b /\ Class(s, n) = Class(s, b)
\* b is the first on list l.
IsHead(m, s, L, l, b) == b \in L /\ m[b + 4] = 0 /\ Class(s, b) = l

\* Neighbours in a list name each other and are of one class, and the head of
\* a list, of that class, has none before it.
Links(m, s, L) ==
  /\ \A b \in L : m[b + 4] = 0 \/ LinkedBack(m, s, L, b, m[b + 4])
  /\ \A b \in L : m[b + 8] = 0 \/ LinkedOn(m, s, L, b, m[b + 8])
  /\ \A l \in Lists : m[l] = 0 \/ IsHead(m, s, L, l, m[l])

\* m2 differs from m in list heads and in links of blocks of L only.
LinkWrites(m, m2, L) ==
  \A a \in Offsets : m2[a] = m[a] \/ a < FirstBlock \/ \E b \in L : a = b + 4 \/ a = b + 8

\* The words with links are different words.
LEMMA LinkFields ==
  ASSUME NEW B, NEW s, Layout(B, s), NEW b \in B
  PROVE  /\ b + 4 \in Offsets /\ b + 8 \in Offsets /\ b # 0
         /\ \A c \in B : b + 4 # c + 8 /\ (b + 4 = c + 4 => b = c) /\ (b + 8 = c + 8 => b = c)
         /\ \A l \in Lists : l \in Offsets /\ l # b + 4 /\ l # b + 8
<1>1. ASSUME NEW c \in B
      PROVE  b + 4 # c + 8 /\ (b + 4 = c + 4 => b = c) /\ (b + 8 = c + 8 => b = c)
  <2>1. b \in Nat /\ c \in Nat /\ s[b] \in Nat /\ s[c] \in Nat /\ s[b] >= 32 /\ s[c] >= 32
    BY Zenon, BlockWords
  <2>2. b = c \/ b + s[b] <= c \/ c + s[c] <= b
    BY Zenon, Apart
  <2> QED
    BY <2>1, <2>2
<1>2. ASSUME NEW l \in Lists PROVE l \in Offsets /\ l # b + 4 /\ l # b + 8
  BY ListWords, BlockWords
<1> QED
  BY Zenon, <1>1, <1>2, BlockWords

\* m2 is m without block b of class l: the neighbours of b, or the head of
\* the list, point past it.
Unlinked(m, m2, b, l) ==
  LET p == m[b + 4]
      n == m[b + 8]
  IN  /\ m2 \in Memory
      /\ IF p # 0 THEN m2[p + 8] = n ELSE m2[l] = n
      /\ n # 0 => m2[n + 4] = p
      /\ \A a \in Offsets : \/ m2[a] = m[a]
                            \/ p # 0 /\ a = p + 8
                            \/ p = 0 /\ a = l
                            \/ n # 0 /\ a = n + 4

\* Taking a block out keeps the links of the others, also when the block was on
\* no list.
LEMMA Unlink ==
  ASSUME NEW B, NEW s, Layout(B, s), NEW L \in SUBSET B, NEW m \in Memory, NEW m2,
         Links(m, s, L), NEW b \in L, Unlinked(m, m2, b, Class(s, b))
  PROVE  Links(m2, s, L \ {b}) /\ LinkWrites(m, m2, L)
<1> DEFINE p == m[b + 4]
           n == m[b + 8]
           l == Class(s, b)
<1>1. p = 0 \/ (p \in L /\ m[p + 8] = b /\ Class(s, p) = l)
  BY Zenon DEF Links, LinkedBack
<1>2. n = 0 \/ (n \in L /\ m[n + 4] = b /\ Class(s, n) = l)
  BY Zenon DEF Links, LinkedOn
<1>3. l \in Lists
  BY Zenon, ClassFacts DEF Class, Layout
<1>4. \A c \in B : /\ c + 4 \in Offsets /\ c + 8 \in Offsets /\ c # 0
                   /\ \A d \in B : c + 4 # d + 8 /\ (c + 4 = d + 4 => c = d) /\ (c + 8 = d + 8 => c = d)
                   /\ \A k \in Lists : k \in Offsets /\ k # c + 4 /\ k # c + 8
  BY Zenon, LinkFields
<1>5. /\ p # 0 => m2[p + 8] = n
      /\ p = 0 => m2[l] = n
      /\ n # 0 => m2[n + 4] = p
      /\ \A a \in Offsets : \/ m2[a] = m[a]
                            \/ p # 0 /\ a = p + 8
                            \/ p = 0 /\ a = l
                            \/ n # 0 /\ a = n + 4
  BY Zenon DEF Unlinked
<1>6. LinkWrites(m, m2, L)
  BY Zenon, <1>1, <1>2, <1>3, <1>5, ListWords DEF LinkWrites
<1> HIDE DEF p, n, l
<1>7. \A c \in L : c + 4 \in Offsets /\ (c # n => m2[c + 4] = m[c + 4])
  BY <1>1, <1>2, <1>3, <1>4, <1>5
<1>8. \A c \in L : c + 8 \in Offsets /\ (c # p => m2[c + 8] = m[c + 8])
  BY <1>1, <1>2, <1>3, <1>4, <1>5
<1>9. \A k \in Lists : p # 0 \/ k # l => m2[k] = m[k]
  BY <1>1, <1>2, <1>3, <1>4, <1>5
<1>10. p = b <=> n = b
  BY Zenon, <1>1, <1>2, <1>4 DEF p, n
<1>11. ASSUME NEW c \in L \ {b}
       PROVE  m2[c + 4] = 0 \/ LinkedBack(m2, s, L \ {b}, c, m2[c + 4])
  <2>1. CASE c = n
    BY Zenon, <1>1, <1>2, <1>4, <1>5, <1>10, <2>1 DEF LinkedBack
  <2>2. CASE c # n
    <3> DEFINE q == m[c + 4]
    <3>1. m2[c + 4] = q
      BY Zenon, <1>7, <2>2
    <3>2. q = 0 \/ (q \in L /\ m[q + 8] = c /\ Class(s, q) = Class(s, c))
      BY Zenon DEF Links, LinkedBack
    <3>3. q # 0 => q # b /\ q # p
      BY Zenon, <1>1, <2>2, <3>2, <1>4 DEF n
    <3> QED
      BY Zenon, <1>8, <3>1, <3>2, <3>3 DEF LinkedBack
  <2> QED
    BY Zenon, <2>1, <2>2
<1>12. ASSUME NEW c \in L \ {b}
       PROVE  m2[c + 8] = 0 \/ LinkedOn(m2, s, L \ {b}, c, m2[c + 8])
  <2>1. CASE c = p
    BY Zenon, <1>1, <1>2, <1>4, <1>5, <1>10, <2>1 DEF LinkedOn
  <2>2. CASE c # p
    <3> DEFINE q == m[c + 8]
    <3>1. m2[c + 8] = q
      BY Zenon, <1>8, <2>2
    <3>2. q = 0 \/ (q \in L /\ m[q + 4] = c /\ Class(s, q) = Class(s, c))
      BY Zenon DEF Links, LinkedOn
    <3>3. q # 0 => q # b /\ q # n
      BY Zenon, <1>2, <2>2, <3>2, <1>4 DEF p
    <3> QED
      BY Zenon, <1>7, <3>1, <3>2, <3>3 DEF LinkedOn
  <2> QED
    BY Zenon, <2>1, <2>2
<1>13. ASSUME NEW k \in Lists PROVE m2[k] = 0 \/ IsHead(m2, s, L \ {b}, k, m2[k])
  <2>1. CASE p = 0 /\ k = l
    BY Zenon, <1>2, <1>4, <1>5, <1>10, <2>1 DEF IsHead
  <2>2. CASE p # 0 \/ k # l
    <3> DEFINE h == m[k]
    <3>1. m2[k] = h
      BY Zenon, <1>9, <2>2
    <3>2. h = 0 \/ (h \in L /\ m[h + 4] = 0 /\ Class(s, h) = k)
      BY Zenon DEF Links, IsHead
    <3>3. h # 0 => h # b /\ h # n
      BY Zenon, <1>2, <2>2, <3>2, <1>4 DEF p, l
    <3> QED
      BY Zenon, <1>7, <3>1, <3>2, <3>3 DEF IsHead
  <2> QED
    BY Zenon, <2>1, <2>2
<1> QED
  BY Zenon, <1>6, <1>11, <1>12, <1>13 DEF Links

\* m2 is m with b put at the head of list l.
Pushed(m, m2, b, l) ==
  /\ m2 \in Memory
  /\ m2[l] = b /\ m2[b + 4] = 0 /\ m2[b + 8] = m[l]
  /\ m[l] # 0 => m2[m[l] + 4] = b
  /\ \A a \in Offsets : \/ m2[a] = m[a]
                        \/ a = l \/ a = b + 4 \/ a = b + 8
                        \/ m[l] # 0 /\ a = m[l] + 4

\* The head of a list gets a neighbour, and its list a new head.
LEMMA Push ==
  ASSUME NEW B, NEW s, Layout(B, s), NEW L \in SUBSET B, NEW m \in Memory, NEW m2,
         Links(m, s, L), NEW b \in B \ L, Pushed(m, m2, b, Class(s, b))
  PROVE  Links(m2, s, L \cup {b}) /\ LinkWrites(m, m2, L \cup {b})
<1> DEFINE l == Class(s, b)
           h == m[l]
           M == L \cup {b}
<1>1. l \in Lists
  BY Zenon, ClassFacts DEF Class, Layout
<1>2. h = 0 \/ (h \in L /\ m[h + 4] = 0 /\ Class(s, h) = l)
  BY Zenon, <1>1 DEF Links, IsHead
<1>3. \A c \in B : /\ c + 4 \in Offsets /\ c + 8 \in Offsets /\ c # 0
                   /\ \A d \in B : c + 4 # d + 8 /\ (c + 4 = d + 4 => c = d) /\ (c + 8 = d + 8 => c = d)
                   /\ \A k \in Lists : k \in Offsets /\ k # c + 4 /\ k # c + 8
  BY Zenon, LinkFields
<1>4. /\ m2[l] = b /\ m2[b + 4] = 0 /\ m2[b + 8] = h
      /\ h # 0 => m2[h + 4] = b
      /\ \A a \in Offsets : \/ m2[a] = m[a]
                            \/ a = l \/ a = b + 4 \/ a = b + 8
                            \/ h # 0 /\ a = h + 4
  BY Zenon DEF Pushed
<1>5. LinkWrites(m, m2, M)
  BY Zenon, <1>1, <1>2, <1>4, ListWords DEF LinkWrites
<1> HIDE DEF l, h
<1>6. \A c \in L : c # h => m2[c + 4] = m[c + 4]
  BY <1>1, <1>2, <1>3, <1>4
<1>7. \A c \in L : m2[c + 8] = m[c + 8]
  BY <1>1, <1>2, <1>3, <1>4
<1>8. \A k \in Lists : k # l => m2[k] = m[k]
  BY Zenon, <1>1, <1>2, <1>3, <1>4
<1>9. ASSUME NEW c \in M PROVE m2[c + 4] = 0 \/ LinkedBack(m2, s, M, c, m2[c + 4])
  <2>1. CASE c = b
    BY Zenon, <1>4, <2>1
  <2>2. CASE c # b /\ c = h
    BY Zenon, <1>2, <1>3, <1>4, <2>2 DEF LinkedBack, l
  <2>3. CASE c # b /\ c # h
    BY Zenon, <1>6, <1>7, <2>3 DEF Links, LinkedBack
  <2> QED
    BY Zenon, <2>1, <2>2, <2>3
<1>10. ASSUME NEW c \in M PROVE m2[c + 8] = 0 \/ LinkedOn(m2, s, M, c, m2[c + 8])
  <2>1. CASE c = b
    BY Zenon, <1>2, <1>4, <2>1 DEF LinkedOn, l
  <2>2. CASE c # b
    <3>1. m[c + 8] = 0 \/ LinkedOn(m, s, L, c, m[c + 8])
      BY Zenon, <2>2 DEF Links
    <3>2. m[c + 8] # 0 => m[c + 8] # h
      BY Zenon, <1>2, <1>3, <2>2, <3>1 DEF LinkedOn
    <3> QED
      BY Zenon, <1>6, <1>7, <2>2, <3>1, <3>2 DEF LinkedOn
  <2> QED
    BY Zenon, <2>1, <2>2
<1>11. ASSUME NEW k \in Lists PROVE m2[k] = 0 \/ IsHead(m2, s, M, k, m2[k])
  <2>1. CASE k = l
    BY Zenon, <1>4, <2>1 DEF IsHead, l
  <2>2. CASE k # l
    <3>1. m[k] = 0 \/ IsHead(m, s, L, k, m[k])
      BY Zenon DEF Links
    <3>2. m[k] # 0 => m[k] # h
      BY Zenon, <1>2, <2>2, <3>1 DEF IsHead
    <3> QED
      BY Zenon, <1>6, <1>8, <2>2, <3>1, <3>2 DEF IsHead
  <2> QED
    BY Zenon, <2>1, <2>2
<1> QED
  BY Zenon, <1>5, <1>9, <1>10, <1>11 DEF Links

\* Links depend on the list heads, on the links of the blocks of L and on
\* their sizes.
LEMMA LinksKept ==
  ASSUME NEW B, NEW s, Layout(B, s), NEW L \in SUBSET B, NEW m, NEW m2, NEW s2,
         Links(m, s, L), \A b \in L : s2[b] = s[b],
         \A b \in L : m2[b + 4] = m[b + 4] /\ m2[b + 8] = m[b + 8],
         \A l \in Lists : m2[l] = m[l]
  PROVE  Links(m2, s2, L)
  BY DEF Links, LinkedBack, LinkedOn, IsHead, Class

\* AllocBlock may empty the list at offset 4.
LEMMA EmptyList ==
  ASSUME NEW B, NEW s, Layout(B, s), NEW L \in SUBSET B, NEW m \in Memory, NEW m2 \in Memory,
         Links(m, s, L), m2 = [m EXCEPT ![4] = 0]
  PROVE  Links(m2, s, L) /\ LinkWrites(m, m2, L)
<1>1. \A b \in L : b + 4 \in Offsets /\ b + 8 \in Offsets /\ b + 4 # 4 /\ b + 8 # 4
  BY BlockWords
<1>2. \A l \in Lists : l \in Offsets
  BY Zenon, ListWords
<1>3. 4 < FirstBlock
  BY Geometry
<1> QED
  BY Zenon, <1>1, <1>2, <1>3 DEF Links, LinkedBack, LinkedOn, IsHead, LinkWrites, Memory

----------------------------------------------------------------------------
(* Merging and splitting.                                                  *)

\* Block n, which follows b, becomes part of b.
Joined(s, b, n) == [c \in DOMAIN s \ {n} |-> IF c = b THEN s[b] + s[n] ELSE s[c]]

\* Blocks still tile the heap when FreeBlock joins two neighbours.
LEMMA JoinLayout ==
  ASSUME NEW B, NEW s, Layout(B, s), NEW b \in B, b + s[b] \in B
  PROVE  Layout(B \ {b + s[b]}, Joined(s, b, b + s[b]))
<1> DEFINE n == b + s[b]
           C == B \ {n}
           t == Joined(s, b, n)
<1>1. \A c \in B : c \in Nat /\ s[c] \in Nat /\ s[c] >= 32 /\ s[c] % 16 = 0
  BY Zenon, BlockWords DEF Layout
<1>2. b \in C /\ FirstBlock \in C
  BY <1>1 DEF Layout
<1>3. t \in [C -> Nat] /\ t[b] = s[b] + s[n] /\ \A c \in C : c # b => t[c] = s[c]
  BY <1>1, <1>2 DEF Joined, Layout
<1>4. n \in B /\ n + s[n] \in B \cup {LastTag} /\ n + s[n] <= LastTag /\ n + s[n] # n
  BY <1>1 DEF Layout
<1>5. b + t[b] = n + s[n]
  BY <1>1, <1>3, <1>4
<1> HIDE DEF n, t
<1>6. ASSUME NEW c \in C
      PROVE  /\ FirstBlock <= c /\ t[c] >= 32 /\ t[c] % 16 = 0
             /\ c + t[c] <= LastTag /\ c + t[c] \in C \cup {LastTag}
  <2>1. CASE c = b
    <3>1. PICK i \in Nat, j \in Nat : s[b] = 16 * i /\ s[n] = 16 * j
      BY <1>1, <1>4, Sixteens
    <3>2. (s[b] + s[n]) % 16 = 0 /\ s[b] + s[n] >= 32
      BY ONLY <1>1, <1>4, <3>1
    <3>3. FirstBlock <= b
      BY Zenon DEF Layout
    <3> QED
      BY Zenon, <1>3, <1>4, <1>5, <2>1, <3>2, <3>3
  <2>2. CASE c # b
    <3>1. c + s[c] # n
      BY <1>1, <1>4, <2>2, Apart DEF n
    <3> QED
      BY Zenon, <1>3, <2>2, <3>1 DEF Layout
  <2> QED
    BY Zenon, <2>1, <2>2
<1>7. ASSUME NEW c \in C, c # FirstBlock PROVE \E d \in C : d + t[d] = c
  <2>1. PICK d \in B : d + s[d] = c
    BY Zenon, <1>7 DEF Layout
  <2>2. CASE d = n
    BY Zenon, <1>2, <1>5, <2>1, <2>2
  <2>3. CASE d # n
    <3>1. d # b
      BY Zenon, <1>7, <2>1 DEF n
    <3> QED
      BY Zenon, <1>3, <2>1, <2>3, <3>1
  <2> QED
    BY Zenon, <2>2, <2>3
<1>8. ASSUME NEW c \in C, NEW d \in C, c < d PROVE c + t[c] <= d
  <2>1. c + s[c] <= d
    BY Zenon, <1>8 DEF Layout
  <2>2. CASE c = b
    <3>1. n < d
      BY <1>1, <1>4, <2>1, <2>2 DEF n
    <3>2. n + s[n] <= d
      BY Zenon, <1>4, <3>1 DEF Layout
    <3> QED
      BY Zenon, <1>5, <2>2, <3>2
  <2> QED
    BY Zenon, <1>3, <2>1, <2>2
<1>9. C \subseteq Offsets
  BY Zenon DEF Layout
<1> QED
  BY Zenon, <1>2, <1>3, <1>6, <1>7, <1>8, <1>9 DEF Layout, n, t

\* The last k bytes of b become a block of their own.
Cut(s, b, k) ==
  [c \in DOMAIN s \cup {b + s[b] - k} |->
     IF c = b + s[b] - k THEN k ELSE IF c = b THEN s[b] - k ELSE s[c]]

\* Blocks still tile the heap when SplitBlock cuts the last k bytes off one.
LEMMA CutLayout ==
  ASSUME NEW B, NEW s, Layout(B, s), NEW b \in B, NEW k \in Nat, k % 16 = 0, k >= 32,
         s[b] - k >= 32
  PROVE  Layout(B \cup {b + s[b] - k}, Cut(s, b, k)) /\ b + s[b] - k \notin B
<1> DEFINE n == b + s[b] - k
           C == B \cup {n}
           t == Cut(s, b, k)
<1>1. \A c \in B : c \in Nat /\ s[c] \in Nat /\ s[c] >= 32 /\ s[c] % 16 = 0
  BY Zenon, BlockWords DEF Layout
<1>2. n \in Nat /\ b + 32 <= n /\ n + k = b + s[b]
  BY <1>1
<1>3. n \notin B
  BY <1>1, <1>2, Apart
<1>4. /\ t \in [C -> Nat] /\ t[n] = k /\ t[b] = s[b] - k
      /\ \A c \in B : c # b => t[c] = s[c]
  BY <1>1, <1>3 DEF Cut, Layout
<1>5. n \in Offsets /\ (s[b] - k) % 16 = 0
  <2>1. PICK i \in Nat : s[b] = 16 * i
    BY Zenon, <1>1, Sixteens
  <2>2. PICK j \in Nat : k = 16 * j
    BY Zenon, Sixteens
  <2>3. Aligned(b) /\ b + s[b] <= LastTag /\ LastTag \in Nat
    BY Zenon, AlignedOffsets, BlockWords DEF Layout
  <2>4. Aligned(n) /\ n <= LastTag
    BY <1>2, <2>1, <2>2, <2>3 DEF Aligned
  <2>5. s[b] - k = 16 * (i - j)
    BY <2>1, <2>2
  <2> QED
    BY <2>4, <2>5, AlignedOffsets
<1>6. b + s[b] \in B \cup {LastTag} /\ b + s[b] <= LastTag /\ FirstBlock <= b /\ LastTag \in Nat
      /\ FirstBlock \in Nat
  BY Zenon, BlockWords DEF Layout
<1> HIDE DEF n, t
<1>7. b + t[b] = n /\ n + t[n] = b + s[b]
  BY <1>1, <1>2, <1>4
<1>8. ASSUME NEW c \in C
      PROVE  /\ FirstBlock <= c /\ t[c] >= 32 /\ t[c] % 16 = 0
             /\ c + t[c] <= LastTag /\ c + t[c] \in C \cup {LastTag}
  <2>1. CASE c = b
    BY <1>1, <1>2, <1>4, <1>5, <1>6, <1>7, <2>1
  <2>2. CASE c = n
    BY <1>1, <1>2, <1>4, <1>6, <1>7, <2>2
  <2>3. CASE c # b /\ c # n
    BY Zenon, <1>4, <2>3 DEF Layout
  <2> QED
    BY Zenon, <2>1, <2>2, <2>3
<1>9. ASSUME NEW c \in C, c # FirstBlock PROVE \E d \in C : d + t[d] = c
  <2>1. CASE c = n
    BY Zenon, <1>7, <2>1
  <2>2. CASE c # n
    <3>1. PICK d \in B : d + s[d] = c
      BY Zenon, <1>9, <2>2 DEF Layout
    <3>2. CASE d = b
      BY Zenon, <1>7, <3>1, <3>2
    <3>3. CASE d # b
      BY Zenon, <1>4, <3>1, <3>3
    <3> QED
      BY Zenon, <3>2, <3>3
  <2> QED
    BY Zenon, <2>1, <2>2
<1>10. ASSUME NEW c \in C, NEW d \in C, c < d PROVE c + t[c] <= d
  <2>1. CASE c = n
    <3>1. d \in B /\ d # b /\ b < d
      BY <1>1, <1>2, <1>10, <2>1
    <3>2. b + s[b] <= d
      BY Zenon, <3>1 DEF Layout
    <3> QED
      BY Zenon, <1>7, <2>1, <3>2
  <2>2. CASE c # n /\ d = n
    <3>1. CASE c = b
      BY <1>1, <1>2, <1>7, <2>2, <3>1
    <3>2. CASE c # b
      <4>1. c + s[c] <= b \/ b + s[b] <= c
        BY Zenon, <2>2, <3>2, Apart
      <4> QED
        BY <1>1, <1>2, <1>4, <1>10, <2>2, <3>2, <4>1
    <3> QED
      BY Zenon, <3>1, <3>2
  <2>3. CASE c # n /\ d # n
    <3>1. c + s[c] <= d
      BY Zenon, <1>10, <2>3 DEF Layout
    <3> QED
      BY <1>1, <1>2, <1>4, <1>7, <2>3, <3>1
  <2> QED
    BY Zenon, <2>1, <2>2, <2>3
<1>11. C \subseteq Offsets /\ FirstBlock \in C
  BY Zenon, <1>5 DEF Layout
<1> QED
  BY Zenon, <1>3, <1>4, <1>8, <1>9, <1>10, <1>11 DEF Layout, n, t

----------------------------------------------------------------------------
(* Memory m agrees with blocks B of sizes s, of which those in F are free. *)

\* Header, footer and free tag of block b.
Marked(m, s, F, b) ==
  /\ SizeOf(m[b]) = s[b] /\ m[b + s[b] - 4] = s[b]
  /\ Tagged(m[b + s[b]]) <=> b \in F

\* Blocks in X are under construction.
Part(m, B, s, F, X) ==
  /\ Layout(B, s) /\ m \in Memory /\ F \subseteq B
  /\ \A b \in B \ X : Marked(m, s, F, b)
  /\ SizeOf(m[LastTag]) = 0 /\ ~Tagged(m[FirstBlock])
  /\ Links(m, s, F)

\* No block is under construction: what holds between two operations.
Sound(m, B, s, F) == Part(m, B, s, F, {})

\* What the users of the blocks in W may have stored is still there.
Untouched(m, m2, s, W) ==
  \A u \in W : \A a \in Offsets : u + 4 <= a /\ a + 8 <= u + s[u] => m2[a] = m[a]

\* Where a is, seen from block b.
LEMMA Places ==
  ASSUME NEW B, NEW s, Layout(B, s), NEW b \in B, NEW c \in B
  PROVE  /\ b # c + s[c] - 4 /\ b + s[b] - 4 # c /\ b + s[b] - 4 # c + s[c]
         /\ (b + s[b] = c + s[c] \/ b + s[b] - 4 = c + s[c] - 4 => b = c)
         /\ b + s[b] # c + s[c] - 4
         /\ \A a \in Nat : \/ a = b + 4 \/ a = b + 8
                           \/ b # c /\ b + 4 <= a /\ a + 8 <= b + s[b]
                           => /\ a # c /\ a # c + s[c] - 4 /\ a # c + s[c] /\ a >= FirstBlock
                              /\ a + 4 <= LastTag
                              /\ b # c => a # c + 4 /\ a # c + 8
<1>1. /\ b \in Nat /\ c \in Nat /\ s[b] \in Nat /\ s[c] \in Nat /\ s[b] >= 32 /\ s[c] >= 32
      /\ FirstBlock <= b /\ b + s[b] <= LastTag /\ FirstBlock \in Nat /\ LastTag \in Nat
  BY Zenon, BlockWords
<1>2. b = c \/ b + s[b] <= c \/ c + s[c] <= b
  BY Zenon, Apart
<1>3. /\ b # c + s[c] - 4 /\ b + s[b] - 4 # c /\ b + s[b] - 4 # c + s[c]
      /\ (b + s[b] = c + s[c] \/ b + s[b] - 4 = c + s[c] - 4 => b = c)
      /\ b + s[b] # c + s[c] - 4
  BY <1>1, <1>2
<1>4. ASSUME NEW a \in Nat, \/ a = b + 4 \/ a = b + 8
                            \/ b # c /\ b + 4 <= a /\ a + 8 <= b + s[b]
      PROVE  /\ a # c /\ a # c + s[c] - 4 /\ a # c + s[c] /\ a >= FirstBlock /\ a + 4 <= LastTag
             /\ b # c => a # c + 4 /\ a # c + 8
  BY <1>1, <1>2, <1>4
<1> QED
  BY Zenon, <1>3, <1>4

\* Headers, footers and tags are the same.
SameMarks(m, m2, B, s) ==
  /\ \A b \in B : m2[b] = m[b] /\ m2[b + s[b] - 4] = m[b + s[b] - 4] /\ m2[b + s[b]] = m[b + s[b]]
  /\ m2[LastTag] = m[LastTag]

\* Writes to links spare all else.
LEMMA LinkWritesSpare ==
  ASSUME NEW B, NEW s, Layout(B, s), NEW L \in SUBSET B, NEW m, NEW m2, LinkWrites(m, m2, L)
  PROVE  /\ SameMarks(m, m2, B, s)
         /\ \A W \in SUBSET B : W \cap L = {} => Untouched(m, m2, s, W)
<1>1. ASSUME NEW b \in B
      PROVE  m2[b] = m[b] /\ m2[b + s[b] - 4] = m[b + s[b] - 4] /\ m2[b + s[b]] = m[b + s[b]]
  <2>1. /\ {b, b + s[b] - 4, b + s[b]} \subseteq Offsets
        /\ FirstBlock \in Nat /\ b \in Nat /\ s[b] \in Nat /\ s[b] >= 32 /\ FirstBlock <= b
    BY Zenon, BlockWords
  <2>2. \A c \in L : c + 4 \in Nat /\ c + 8 \in Nat
    BY BlockWords
  <2>3. \A c \in L : \A a \in {b, b + s[b] - 4, b + s[b]} : a # c + 4 /\ a # c + 8
    BY <2>2, Places
  <2> QED
    BY <2>1, <2>3 DEF LinkWrites
<1>2. m2[LastTag] = m[LastTag]
  <2>1. \A c \in L : LastTag # c + 4 /\ LastTag # c + 8
    BY BlockWords
  <2>2. LastTag \in Offsets /\ LastTag \in Nat /\ FirstBlock \in Nat /\ ~(LastTag < FirstBlock)
    BY Geometry, AlignedOffsets, SizeAssumption DEF Aligned
  <2> QED
    BY Zenon, <2>1, <2>2 DEF LinkWrites
<1>3. ASSUME NEW W \in SUBSET B, W \cap L = {}, NEW u \in W, NEW a \in Offsets,
             u + 4 <= a, a + 8 <= u + s[u]
      PROVE  m2[a] = m[a]
  <2>1. a \in Nat
    BY Zenon, AlignedOffsets DEF Aligned
  <2>2. \A c \in L : a # c + 4 /\ a # c + 8
    BY <1>3, <2>1, Places
  <2>3. ~(a < FirstBlock)
    BY <1>3, <2>1, BlockWords
  <2> QED
    BY Zenon, <2>2, <2>3 DEF LinkWrites
<1> QED
  BY Zenon, <1>1, <1>2, <1>3 DEF Untouched, SameMarks

\* After writes to links, Part holds with the blocks that the lists now have.
LEMMA Relinked ==
  ASSUME NEW m, NEW B, NEW s, NEW F, NEW X, Part(m, B, s, F, X),
         NEW m2 \in Memory, NEW G \in SUBSET B, NEW Y,
         LinkWrites(m, m2, B), Links(m2, s, G),
         \A b \in B \ Y : b \notin X /\ (b \in F <=> b \in G)
  PROVE  Part(m2, B, s, G, Y)
<1>1. Layout(B, s) /\ SizeOf(m[LastTag]) = 0 /\ ~Tagged(m[FirstBlock])
  BY Zenon DEF Part
<1>2. SameMarks(m, m2, B, s)
  BY Zenon, <1>1, LinkWritesSpare
<1>3. FirstBlock \in B
  BY Zenon, <1>1 DEF Layout
<1>4. \A b \in B \ Y : Marked(m2, s, G, b)
  BY Zenon, <1>2 DEF Part, Marked, SameMarks
<1> QED
  BY Zenon, <1>1, <1>2, <1>3, <1>4 DEF Part, SameMarks

\* The words of blocks under construction that may be written: the header, whose
\* tag belongs to the block before, the footer, and the free tag in the header
\* of the block behind.
Spared(m, m2, s, X, a) ==
  \/ m2[a] = m[a]
  \/ a \in X /\ (Tagged(m2[a]) <=> Tagged(m[a]))
  \/ \E x \in X : a = x + s[x] - 4
  \/ \E x \in X : a = x + s[x] /\ (SizeOf(m2[a]) = SizeOf(m[a]) \/ a \in X)

\* Stores that spare the other blocks leave them as they were.
LEMMA Rewritten ==
  ASSUME NEW m, NEW B, NEW s, NEW F, NEW X \in SUBSET B, Part(m, B, s, F, X),
         NEW m2 \in Memory, \A a \in Offsets : Spared(m, m2, s, X, a)
  PROVE  /\ Part(m2, B, s, F, X)
         /\ \A W \in SUBSET (B \ X) : Untouched(m, m2, s, W)
<1>1. Layout(B, s) /\ SizeOf(m[LastTag]) = 0 /\ ~Tagged(m[FirstBlock]) /\ FirstBlock \in B
  BY Zenon DEF Part, Layout
<1>2. \A b, c \in B : /\ b # c + s[c] - 4 /\ b + s[b] - 4 # c /\ b + s[b] - 4 # c + s[c]
                      /\ (b + s[b] = c + s[c] \/ b + s[b] - 4 = c + s[c] - 4 => b = c)
                      /\ b + s[b] # c + s[c] - 4
  BY <1>1, Places
<1>3. \A b \in B : {b, b + 4, b + 8, b + s[b] - 4, b + s[b]} \subseteq Offsets
  BY <1>1, BlockWords
<1>4. ASSUME NEW b \in B \ X PROVE Marked(m2, s, F, b)
  <2>1. SizeOf(m2[b]) = SizeOf(m[b])
    BY Zenon, <1>2, <1>3 DEF Spared
  <2>2. m2[b + s[b] - 4] = m[b + s[b] - 4]
    BY <1>2, <1>3 DEF Spared
  <2>3. Tagged(m2[b + s[b]]) <=> Tagged(m[b + s[b]])
    BY <1>2, <1>3 DEF Spared
  <2> QED
    BY Zenon, <2>1, <2>2, <2>3 DEF Part, Marked
<1>5. SizeOf(m2[LastTag]) = 0
  <2>1. LastTag \in Offsets
    BY Zenon, Geometry
  <2>2. \A x \in B : LastTag # x + s[x] - 4 /\ LastTag # x
    BY <1>1, BlockWords
  <2> QED
    BY Zenon, <1>1, <2>1, <2>2 DEF Spared
<1>6. ~Tagged(m2[FirstBlock])
  <2>1. \A x \in B : FirstBlock # x + s[x] - 4 /\ FirstBlock # x + s[x]
    BY <1>1, BlockWords
  <2> QED
    BY Zenon, <1>1, <1>3, <2>1 DEF Spared
<1>7. Links(m2, s, F)
  <2>1. ASSUME NEW b \in F PROVE m2[b + 4] = m[b + 4] /\ m2[b + 8] = m[b + 8]
    <3>1. b \in B /\ b + 4 \in Nat /\ b + 8 \in Nat
      BY <1>1, BlockWords DEF Part
    <3>2. \A c \in B : \A a \in {b + 4, b + 8} : a # c /\ a # c + s[c] - 4 /\ a # c + s[c]
      BY <1>1, <3>1, Places
    <3> QED
      BY Zenon, <1>3, <3>1, <3>2 DEF Spared
  <2>2. ASSUME NEW l \in Lists PROVE m2[l] = m[l]
    <3>1. \A c \in B : l # c /\ l # c + s[c] - 4 /\ l # c + s[c]
      BY <1>1, BlockWords, ListWords
    <3> QED
      BY Zenon, <3>1, ListWords DEF Spared
  <2> QED
    BY Zenon, <1>1, <2>1, <2>2, LinksKept DEF Part
<1>8. ASSUME NEW W \in SUBSET (B \ X), NEW u \in W, NEW a \in Offsets,
             u + 4 <= a, a + 8 <= u + s[u]
      PROVE  m2[a] = m[a]
  <2>1. a \in Nat
    BY Zenon, AlignedOffsets DEF Aligned
  <2>2. \A c \in X : a # c /\ a # c + s[c] - 4 /\ a # c + s[c]
    BY <1>1, <1>8, <2>1, Places
  <2> QED
    BY Zenon, <2>2 DEF Spared
<1> QED
  BY Zenon, <1>1, <1>4, <1>5, <1>6, <1>7, <1>8 DEF Part, Untouched

\* A block is no longer under construction when it is marked.
LEMMA Finished ==
  ASSUME NEW m, NEW B, NEW s, NEW F, NEW X, NEW x, Part(m, B, s, F, X), Marked(m, s, F, x)
  PROVE  Part(m, B, s, F, X \ {x})
  BY Zenon DEF Part

\* Two blocks under construction become one ...
LEMMA JoinPart ==
  ASSUME NEW m, NEW B, NEW s, NEW F, NEW x \in B, x + s[x] \in B, x \notin F, x + s[x] \notin F,
         Part(m, B, s, F, {x, x + s[x]})
  PROVE  Part(m, B \ {x + s[x]}, Joined(s, x, x + s[x]), F, {x})
<1> DEFINE n == x + s[x]
           t == Joined(s, x, n)
<1>1. Layout(B, s)
  BY Zenon DEF Part
<1>2. Layout(B \ {n}, t)
  BY Zenon, <1>1, JoinLayout
<1>3. \A b \in B \ {x, n} : t[b] = s[b]
  BY Zenon, <1>1 DEF Joined, Layout
<1>4. \A b \in F : t[b] = s[b]
  BY Zenon, <1>3 DEF Part
<1>5. Links(m, t, F)
  BY Zenon, <1>1, <1>4, LinksKept DEF Part
<1> HIDE DEF t, n
<1>6. \A b \in (B \ {n}) \ {x} : Marked(m, t, F, b)
  BY Zenon, <1>3 DEF Part, Marked, n
<1> QED
  BY Zenon, <1>2, <1>5, <1>6 DEF Part, n, t

\* ... or one block two.
LEMMA CutPart ==
  ASSUME NEW m, NEW B, NEW s, NEW F, NEW x \in B, x \notin F, Part(m, B, s, F, {x}),
         NEW k \in Nat, k % 16 = 0, k >= 32, s[x] - k >= 32
  PROVE  /\ Part(m, B \cup {x + s[x] - k}, Cut(s, x, k), F, {x, x + s[x] - k})
         /\ x + s[x] - k \notin B
<1> DEFINE n == x + s[x] - k
           t == Cut(s, x, k)
<1>1. Layout(B, s)
  BY Zenon DEF Part
<1>2. Layout(B \cup {n}, t) /\ n \notin B
  BY Zenon, <1>1, CutLayout
<1>3. \A b \in B \ {x, n} : t[b] = s[b]
  BY Zenon, <1>1 DEF Cut, Layout
<1>4. \A b \in F : t[b] = s[b]
  BY Zenon, <1>2, <1>3 DEF Part
<1>5. Links(m, t, F)
  BY Zenon, <1>1, <1>4, LinksKept DEF Part
<1> HIDE DEF t, n
<1>6. \A b \in (B \cup {n}) \ {x, n} : Marked(m, t, F, b)
  BY Zenon, <1>3 DEF Part, Marked
<1> QED
  BY Zenon, <1>2, <1>5, <1>6 DEF Part, n, t

----------------------------------------------------------------------------

(* Access to memory while the process runs.                                *)

\* The process is alive and the heap is in its memory.
Runs(h) ==
  /\ h.abort = "none" /\ h.mem \in Memory
  /\ h = [mem |-> h.mem, mods |-> h.mods, abort |-> h.abort]

\* OffsetToPtr passes `assert(offset)' for an offset other than 0.
LEMMA AccessRuns ==
  ASSUME NEW h, NEW a \in Offsets \ {0} PROVE Access(h, a) = h
  BY Zenon DEF Access

\* A store to an offset other than 0 changes that word and nothing else.
LEMMA WriteRuns ==
  ASSUME NEW h, Runs(h), NEW a \in Offsets \ {0}, NEW v \in Int
  PROVE  Runs(Write(h, a, v)) /\ Write(h, a, v).mem = [h.mem EXCEPT ![a] = v]
<1>1. Write(h, a, v) = StoreWord(h, a, v)
  BY Zenon, AccessRuns DEF Write
<1>2. Write(h, a, v) = [mem |-> [h.mem EXCEPT ![a] = v],
                        mods |-> Append(h.mods, [des |-> a, len |-> 4]), abort |-> "none"]
  BY Zenon, <1>1 DEF StoreWord, Runs
<1> QED
  BY <1>2 DEF Runs, Memory

\* h2 is h with the word at a set to v.
Wrote(h, h2, a, v) ==
  /\ Runs(h2) /\ h2.mem[a] = v
  /\ \A c \in Offsets : c = a \/ h2.mem[c] = h.mem[c]

\* The same, with the memory after it described word by word.
LEMMA WriteStep ==
  ASSUME NEW h, Runs(h), NEW a \in Offsets \ {0}, NEW v \in Int
  PROVE  Wrote(h, Write(h, a, v), a, v)
<1> DEFINE h2 == Write(h, a, v)
<1>1. Runs(h2) /\ h2.mem = [h.mem EXCEPT ![a] = v]
  BY Zenon, WriteRuns
<1> HIDE DEF h2
<1>2. h.mem \in [Offsets -> Int]
  BY Zenon DEF Runs, Memory
<1>3. Wrote(h, h2, a, v)
  BY Zenon, <1>1, <1>2 DEF Wrote
<1> QED
  BY Zenon, <1>3 DEF h2

\* The same, for use with a name for the heap after the store.
LEMMA WrittenTo ==
  \A h, a, v, g : Runs(h) /\ a \in Offsets \ {0} /\ v \in Int /\ g = Write(h, a, v)
                    => Wrote(h, g, a, v) /\ Runs(g)
<1> SUFFICES ASSUME NEW h, NEW a, NEW v, NEW g, Runs(h), a \in Offsets \ {0}, v \in Int,
                    g = Write(h, a, v)
             PROVE  Wrote(h, g, a, v) /\ Runs(g)
  BY Zenon
<1>1. Wrote(h, Write(h, a, v), a, v)
  BY Zenon, WriteStep
<1>2. Wrote(h, g, a, v)
  BY Zenon, <1>1
<1> QED
  BY Zenon, <1>2 DEF Wrote

\* Nothing happens after an assertion has failed.
LEMMA DeadStays ==
  ASSUME NEW h, h.abort # "none", NEW a
  PROVE  Access(h, a) = h /\ \A v : Write(h, a, v) = h
<1>1. Die(h, "offset") = h /\ Die(h, "wild") = h
  BY Zenon DEF Die
<1>2. Access(h, a) = h
  BY Zenon, <1>1 DEF Access
<1>3. ASSUME NEW v PROVE StoreWord(h, a, v) = h
  BY Zenon DEF StoreWord
<1> QED
  BY Zenon, <1>2, <1>3 DEF Write

\* Size and tag of a word are independent of each other.
LEMMA TagWords ==
  ASSUME NEW w \in Int, NEW n \in Nat, n <= LastTag
  PROVE  /\ SizeOf(n) = n /\ ~Tagged(n) /\ KeepTag(w, n) \in Int
         /\ SizeOf(KeepTag(w, n)) = n /\ (Tagged(KeepTag(w, n)) <=> Tagged(w))
         /\ SizeOf(kFreeMask + n) = n /\ Tagged(kFreeMask + n) /\ kFreeMask + n \in Int
<1>1. n < kFreeMask /\ kFreeMask \in Nat
  BY Geometry, SizeAssumption DEF Offsets
<1> QED
  BY <1>1 DEF SizeOf, Tagged, KeepTag

\* SetTheFreeTag's new word has the size of the old one, and the tag.
LEMMA SetTagWord ==
  ASSUME NEW w \in Int, NEW n \in Nat, n <= LastTag, SizeOf(w) = n
  PROVE  SetTag(w) \in Int /\ SizeOf(SetTag(w)) = n /\ Tagged(SetTag(w))
<1>1. n < kFreeMask /\ kFreeMask \in Nat
  BY Geometry, SizeAssumption DEF Offsets
<1> QED
  BY <1>1 DEF SizeOf, Tagged, SetTag

----------------------------------------------------------------------------
(* Unlinking and linking.                                                  *)

\* RemoveBlock passes its assertion on the free tag, and its stores unlink b.
LEMMA RemoveRuns ==
  ASSUME NEW h, Runs(h), NEW B, NEW s, Layout(B, s), NEW L \in SUBSET B, NEW b \in L,
         Links(h.mem, s, L), Tagged(h.mem[b + s[b]])
  PROVE  /\ Runs(RemoveBlock(h, b, s[b]))
         /\ Unlinked(h.mem, RemoveBlock(h, b, s[b]).mem, b, Class(s, b))
<1> DEFINE m == h.mem
           prev_blk == m[b + 4]
           next_blk == m[b + 8]
           l == Class(s, b)
           at == IF prev_blk # 0 THEN prev_blk + 8 ELSE l
           h1 == Write(h, at, next_blk)
           h2 == IF next_blk # 0 THEN Write(h1, next_blk + 4, prev_blk) ELSE h1
<1>1. /\ {b + 4, b + 8, b + s[b]} \subseteq Offsets \ {0} /\ m \in Memory
      /\ prev_blk \in Int /\ next_blk \in Int
  BY Zenon, BlockWords DEF Runs, Memory
<1>2. l \in Lists /\ l > 0 /\ l \in Offsets \ {0}
  BY ClassFacts, ListWords DEF Class, Layout
<1>3. /\ prev_blk = 0 \/ prev_blk \in L
      /\ next_blk = 0 \/ next_blk \in L
  BY Zenon DEF Links, LinkedBack, LinkedOn
<1>4. /\ at \in Offsets \ {0}
      /\ next_blk # 0 => next_blk + 4 \in Offsets \ {0} /\ next_blk + 4 # at
  BY <1>2, <1>3, BlockWords, LinkFields
<1>5. RemoveBlock(h, b, s[b]) = h2
  <2>1. Read(h, PrevField(b)) = prev_blk /\ Read(h, NextField(b)) = next_blk
    BY Zenon, <1>1 DEF Read, PrevField, NextField
  <2>2. ReadTheFreeTag(h, b, s[b])
    BY Zenon, <1>1 DEF Read, ReadTheFreeTag
  <2>3. Check(Access(Access(Access(h, b + s[b]), PrevField(b)), NextField(b)),
              ReadTheFreeTag(h, b, s[b])) = h
    BY Zenon, <1>1, <2>2, AccessRuns DEF PrevField, NextField, Check
  <2> QED
    BY Zenon, <2>1, <2>3 DEF RemoveBlock, PrevField, NextField, Class
<1> HIDE DEF m, prev_blk, next_blk, l, at, h1
<1>6. Runs(h1) /\ h1.mem = [m EXCEPT ![at] = next_blk]
  BY Zenon, <1>1, <1>4, WriteRuns DEF h1, m
<1>7. CASE next_blk # 0
  <2>1. Runs(h2) /\ h2.mem = [h1.mem EXCEPT ![next_blk + 4] = prev_blk]
    BY Zenon, <1>1, <1>4, <1>6, <1>7, WriteRuns
  <2> HIDE DEF h2
  <2>2. Unlinked(m, h2.mem, b, l)
    BY Zenon, <1>1, <1>4, <1>6, <1>7, <2>1 DEF Unlinked, Memory, Runs, at, prev_blk, next_blk
  <2> QED
    BY Zenon, <1>5, <2>1, <2>2 DEF m, l
<1>8. CASE next_blk = 0
  <2>1. Runs(h2) /\ h2.mem = h1.mem
    BY Zenon, <1>6, <1>8
  <2> HIDE DEF h2
  <2>2. Unlinked(m, h2.mem, b, l)
    BY Zenon, <1>1, <1>4, <1>6, <1>8, <2>1 DEF Unlinked, Memory, Runs, at, prev_blk, next_blk
  <2> QED
    BY Zenon, <1>5, <2>1, <2>2 DEF m, l
<1> QED
  BY Zenon, <1>7, <1>8

\* What RemoveBlock does to a free block: it is out of the lists, and no
\* word of a block in use has changed.
LEMMA RemovePart ==
  ASSUME NEW h, Runs(h), NEW B, NEW s, NEW F, NEW X, Part(h.mem, B, s, F, X),
         NEW b \in F, b \notin X
  PROVE  /\ Runs(RemoveBlock(h, b, s[b]))
         /\ Part(RemoveBlock(h, b, s[b]).mem, B, s, F \ {b}, X \cup {b})
         /\ SameMarks(h.mem, RemoveBlock(h, b, s[b]).mem, B, s)
         /\ \A W \in SUBSET B : W \cap F = {}
              => Untouched(h.mem, RemoveBlock(h, b, s[b]).mem, s, W)
<1> DEFINE m2 == RemoveBlock(h, b, s[b]).mem
<1>1. Layout(B, s) /\ F \in SUBSET B /\ Links(h.mem, s, F) /\ h.mem \in Memory
  BY Zenon DEF Part
<1>2. Tagged(h.mem[b + s[b]])
  BY Zenon, <1>1 DEF Part, Marked
<1>3. Runs(RemoveBlock(h, b, s[b])) /\ Unlinked(h.mem, m2, b, Class(s, b))
  BY Zenon, <1>1, <1>2, RemoveRuns
<1>4. m2 \in Memory
  BY Zenon, <1>3 DEF Runs
<1> HIDE DEF m2
<1>5. Links(m2, s, F \ {b}) /\ LinkWrites(h.mem, m2, F)
  BY Zenon, <1>1, <1>3, Unlink
<1>6. LinkWrites(h.mem, m2, B)
  BY Zenon, <1>1, <1>5 DEF LinkWrites
<1>7. Part(m2, B, s, F \ {b}, X \cup {b})
  BY Zenon, <1>1, <1>4, <1>5, <1>6, Relinked
<1>8. /\ SameMarks(h.mem, m2, B, s)
      /\ \A W \in SUBSET B : W \cap F = {} => Untouched(h.mem, m2, s, W)
  BY Zenon, <1>1, <1>5, LinkWritesSpare
<1> QED
  BY Zenon, <1>3, <1>7, <1>8 DEF m2

\* What putting a block at the head of its list does: in m2 the blocks in G
\* are listed, and of those in use no word has changed.
Extended(m, m2, B, s, G, X) ==
  /\ Part(m2, B, s, G, X) /\ SameMarks(m, m2, B, s)
  /\ \A W \in SUBSET B : W \cap G = {} => Untouched(m, m2, s, W)

\* Linking a block at the head of its list keeps what is Sound.
LEMMA PushPart ==
  ASSUME NEW m, NEW m2, NEW B, NEW s, NEW F, NEW X, Part(m, B, s, F, X),
         NEW x \in B, x \in X, x \notin F, Pushed(m, m2, x, Class(s, x))
  PROVE  Extended(m, m2, B, s, F \cup {x}, X)
<1>1. /\ Layout(B, s) /\ F \in SUBSET B /\ Links(m, s, F) /\ m \in Memory /\ x \in B \ F
      /\ F \cup {x} \in SUBSET B
  BY Zenon DEF Part
<1>2. m2 \in Memory
  BY Zenon DEF Pushed
<1>3. Links(m2, s, F \cup {x}) /\ LinkWrites(m, m2, F \cup {x})
  BY Zenon, <1>1, Push
<1>4. LinkWrites(m, m2, B)
  BY Zenon, <1>1, <1>3 DEF LinkWrites
<1>5. Part(m2, B, s, F \cup {x}, X)
  BY Zenon, <1>1, <1>2, <1>3, <1>4, Relinked
<1>6. SameMarks(m, m2, B, s)
  BY Zenon, <1>1, <1>3, LinkWritesSpare
<1>7. \A W \in SUBSET B : W \cap (F \cup {x}) = {} => Untouched(m, m2, s, W)
  BY Zenon, <1>1, <1>3, LinkWritesSpare
<1> QED
  BY Zenon, <1>5, <1>6, <1>7 DEF Extended

\* The stores of FreeBlock, and of SplitBlock, that put block b at the head
\* of list l.
PushFreed(h, b, l) ==
  LET head == h.mem[l]
      h1 == Write(Write(Write(h, l, b), b + 4, 0), b + 8, head)
  IN  IF head # 0 THEN Write(h1, head + 4, b) ELSE h1

\* SplitBlock's stores do the same in another order.
PushRest(h, b, l) ==
  LET head == h.mem[l]
      h1 == Write(Write(Write(h, b + 4, 0), b + 8, head), l, b)
  IN  IF head # 0 THEN Write(h1, head + 4, b) ELSE h1

\* Both orders of the stores link the block.
LEMMA PushRuns ==
  ASSUME NEW h, Runs(h), NEW B, NEW s, Layout(B, s), NEW L \in SUBSET B, NEW b \in B \ L,
         Links(h.mem, s, L)
  PROVE  /\ Runs(PushFreed(h, b, Class(s, b))) /\ Runs(PushRest(h, b, Class(s, b)))
         /\ Pushed(h.mem, PushFreed(h, b, Class(s, b)).mem, b, Class(s, b))
         /\ Pushed(h.mem, PushRest(h, b, Class(s, b)).mem, b, Class(s, b))
<1> DEFINE l == Class(s, b)
           m == h.mem
           head == m[l]
           f1 == Write(Write(Write(h, l, b), b + 4, 0), b + 8, head)
           r1 == Write(Write(Write(h, b + 4, 0), b + 8, head), l, b)
<1>1. /\ {b + 4, b + 8} \subseteq Offsets \ {0} /\ m \in Memory /\ b \in Int /\ b + 4 # b + 8
  BY BlockWords DEF Runs
<1>2. l \in Lists /\ l > 0 /\ l \in Offsets \ {0} /\ l # b + 4 /\ l # b + 8
  BY ClassFacts, ListWords, LinkFields DEF Class, Layout
<1>3. head \in Int /\ (head # 0 => head \in L)
  BY Zenon, <1>1, <1>2 DEF Memory, Links, IsHead
<1>4. head # 0 => /\ head + 4 \in Offsets \ {0} /\ head + 4 # l
                  /\ head + 4 # b + 4 /\ head + 4 # b + 8
  BY <1>2, <1>3, BlockWords, LinkFields
<1> PICK p, n, z : p = b + 4 /\ n = b + 8 /\ z = 0
  BY Zenon
<1>5. /\ p \in Offsets \ {0} /\ n \in Offsets \ {0} /\ z \in Int
      /\ f1 = Write(Write(Write(h, l, b), p, z), n, head)
      /\ r1 = Write(Write(Write(h, p, z), n, head), l, b)
  BY <1>1
<1> HIDE DEF l, m, head, f1, r1
<1>6. /\ Runs(f1) /\ f1.mem[l] = b /\ f1.mem[p] = 0 /\ f1.mem[n] = head
      /\ \A a \in Offsets : f1.mem[a] = m[a] \/ a = l \/ a = p \/ a = n
  <2>1. PICK g1 : g1 = Write(h, l, b)
    BY Zenon
  <2>2. PICK g2 : g2 = Write(g1, p, z)
    BY Zenon
  <2>3. Wrote(h, g1, l, b) /\ Runs(g1)
    BY Zenon, <1>1, <1>2, <2>1, WrittenTo
  <2>4. Wrote(g1, g2, p, z) /\ Runs(g2)
    BY <1>5, <2>2, <2>3, WrittenTo
  <2>5. Wrote(g2, f1, n, head)
    BY Zenon, <1>3, <1>5, <2>1, <2>2, <2>4, WrittenTo
  <2> QED
    BY <1>1, <1>2, <1>5, <2>3, <2>4, <2>5 DEF Wrote, m
<1>7. /\ Runs(r1) /\ r1.mem[l] = b /\ r1.mem[p] = 0 /\ r1.mem[n] = head
      /\ \A a \in Offsets : r1.mem[a] = m[a] \/ a = l \/ a = p \/ a = n
  <2>1. PICK g1 : g1 = Write(h, p, z)
    BY Zenon
  <2>2. PICK g2 : g2 = Write(g1, n, head)
    BY Zenon
  <2>3. Wrote(h, g1, p, z) /\ Runs(g1)
    BY <1>5, <2>1, WrittenTo
  <2>4. Wrote(g1, g2, n, head) /\ Runs(g2)
    BY <1>3, <1>5, <2>2, <2>3, WrittenTo
  <2>5. Wrote(g2, r1, l, b)
    BY Zenon, <1>1, <1>2, <1>5, <2>1, <2>2, <2>4, WrittenTo
  <2> QED
    BY <1>1, <1>2, <1>5, <2>3, <2>4, <2>5 DEF Wrote, m
<1>8. ASSUME NEW g, Runs(g), g.mem[l] = b, g.mem[p] = 0, g.mem[n] = head,
             \A a \in Offsets : g.mem[a] = m[a] \/ a = l \/ a = p \/ a = n,
             NEW h2, h2 = IF head # 0 THEN Write(g, head + 4, b) ELSE g
      PROVE  Runs(h2) /\ Pushed(m, h2.mem, b, l)
  <2>1. CASE head # 0
    <3>1. Runs(h2) /\ h2.mem = [g.mem EXCEPT ![head + 4] = b]
      <4>1. PICK a \in Offsets \ {0} : a = head + 4
        BY Zenon, <1>4, <2>1
      <4>2. h2 = Write(g, a, b)
        BY Zenon, <1>8, <2>1, <4>1
      <4>3. b \in Int
        BY Zenon, <1>1
      <4>4. Runs(Write(g, a, b)) /\ Write(g, a, b).mem = [g.mem EXCEPT ![a] = b]
        BY ONLY Runs(g), a \in Offsets \ {0}, <4>3, WriteRuns
      <4> QED
        BY Zenon, <4>1, <4>2, <4>4
    <3>2. g.mem \in Memory /\ h2.mem \in Memory
      BY Zenon, <1>8, <3>1 DEF Runs
    <3> QED
      BY Zenon, <1>1, <1>2, <1>4, <1>8, <2>1, <3>1, <3>2 DEF Pushed, Memory, head
  <2>2. CASE head = 0
    <3>1. h2 = g /\ g.mem \in Memory
      BY Zenon, <1>8, <2>2 DEF Runs
    <3> QED
      BY Zenon, <1>8, <2>2, <3>1 DEF Pushed, head
  <2> QED
    BY Zenon, <2>1, <2>2
<1>9. /\ PushFreed(h, b, l) = IF head # 0 THEN Write(f1, head + 4, b) ELSE f1
      /\ PushRest(h, b, l) = IF head # 0 THEN Write(r1, head + 4, b) ELSE r1
  BY Zenon DEF PushFreed, PushRest, f1, r1, head, m
<1>10. Runs(PushFreed(h, b, l)) /\ Pushed(m, PushFreed(h, b, l).mem, b, l)
  BY Zenon, <1>6, <1>8, <1>9
<1>11. Runs(PushRest(h, b, l)) /\ Pushed(m, PushRest(h, b, l).mem, b, l)
  BY Zenon, <1>7, <1>8, <1>9
<1> QED
  BY Zenon, <1>10, <1>11 DEF m, l

----------------------------------------------------------------------------
(* Headers, footers and tags.                                              *)

\* h2 is h with the size of x written to its header and footer.
Sized(h, h2, B, s, F, X, x) ==
  /\ Runs(h2) /\ Part(h2.mem, B, s, F, X)
  /\ SizeOf(h2.mem[x]) = s[x] /\ h2.mem[x + s[x] - 4] = s[x]
  /\ \A W \in SUBSET (B \ X) : Untouched(h.mem, h2.mem, s, W)

LEMMA SetSizePart ==
  ASSUME NEW h, Runs(h), NEW B, NEW s, NEW F, NEW X \in SUBSET B, Part(h.mem, B, s, F, X),
         NEW x \in X, NEW h2, h2 = SetSize(h, x, s[x])
  PROVE  Sized(h, h2, B, s, F, X, x)
<1> DEFINE m == h.mem
           w == KeepTag(m[x], s[x])
           h1 == Write(h, x, w)
<1>1. Layout(B, s) /\ m \in Memory
  BY Zenon DEF Part
<1>2. /\ {x, x + s[x] - 4} \subseteq Offsets \ {0} /\ x # x + s[x] - 4 /\ s[x] \in Nat
      /\ s[x] <= LastTag
  BY <1>1, BlockWords
<1>3. m[x] \in Int
  BY Zenon, <1>1, <1>2 DEF Memory
<1>4. w \in Int /\ SizeOf(w) = s[x] /\ (Tagged(w) <=> Tagged(m[x]))
  BY Zenon, <1>2, <1>3, TagWords
<1>5. h2 = Write(h1, x + s[x] - 4, s[x])
  BY Zenon, <1>2 DEF SetSize, Read
<1> HIDE DEF m, w, h1
<1>6. Runs(h1) /\ h1.mem = [m EXCEPT ![x] = w]
  BY <1>2, <1>4, WriteRuns DEF h1, m
<1> PICK f, n : f = x + s[x] - 4 /\ n = s[x]
  BY Zenon
<1> f \in Offsets \ {0} /\ n \in Int /\ h2 = Write(h1, f, n)
  BY <1>2, <1>5
<1>7. Runs(h2) /\ h2.mem = [h1.mem EXCEPT ![f] = n]
  <2>1. Runs(h1) /\ f \in Offsets \ {0} /\ n \in Int
    BY Zenon, <1>6
  <2>2. Runs(Write(h1, f, n)) /\ Write(h1, f, n).mem = [h1.mem EXCEPT ![f] = n]
    BY ONLY <2>1, WriteRuns
  <2> QED
    BY Zenon, <2>2
<1>8. /\ h2.mem \in Memory /\ h2.mem[x] = w /\ h2.mem[x + s[x] - 4] = s[x]
      /\ \A a \in Offsets : a = x \/ a = x + s[x] - 4 \/ h2.mem[a] = m[a]
  BY Zenon, <1>1, <1>2, <1>6, <1>7 DEF Memory, Runs
<1>9. \A a \in Offsets : Spared(m, h2.mem, s, X, a)
  BY Zenon, <1>4, <1>8 DEF Spared
<1>10. Part(h2.mem, B, s, F, X) /\ \A W \in SUBSET (B \ X) : Untouched(m, h2.mem, s, W)
  BY Zenon, <1>8, <1>9, Rewritten DEF m
<1> QED
  BY Zenon, <1>4, <1>7, <1>8, <1>10 DEF Sized, m

\* Only block x is under construction.
PartBut(m, B, s, F, x) == Part(m, B, s, F, {x})

\* The address right behind a block.
Behind(s, x) == x + s[x]

\* The word behind such a block, whose bit 31 is the free tag of the block.
LEMMA WordBehind ==
  ASSUME NEW m, NEW B, NEW s, NEW F, NEW x \in B, PartBut(m, B, s, F, x)
  PROVE  /\ Behind(s, x) \in Offsets \ {0} /\ m[Behind(s, x)] \in Int
         /\ SizeOf(m[Behind(s, x)]) \in Nat /\ SizeOf(m[Behind(s, x)]) <= LastTag
<1>1. Layout(B, s) /\ m \in Memory /\ Behind(s, x) = x + s[x]
  BY Zenon DEF PartBut, Part, Behind
<1>2. /\ x + s[x] \in Offsets \ {0} /\ x \in Nat /\ s[x] \in Nat /\ s[x] >= 32 /\ LastTag \in Nat
      /\ x + s[x] # x
  BY <1>1, BlockWords
<1>3. CASE x + s[x] = LastTag
  BY <1>1, <1>2, <1>3 DEF PartBut, Part, Memory
<1>4. CASE x + s[x] \in B
  <2>1. SizeOf(m[x + s[x]]) = s[x + s[x]]
    BY Zenon, <1>2, <1>4 DEF PartBut, Part, Marked
  <2>2. s[x + s[x]] \in Nat /\ s[x + s[x]] <= LastTag
    BY <1>1, <1>4, BlockWords
  <2> QED
    BY Zenon, <1>1, <1>2, <2>1, <2>2 DEF Memory
<1> QED
  BY Zenon, <1>1, <1>3, <1>4 DEF Layout

\* Only the free tag of x may have changed from h to h2.
TagChanged(h, h2, B, s, F, x) ==
  /\ Runs(h2) /\ PartBut(h2.mem, B, s, F, x)
  /\ h2.mem[x] = h.mem[x] /\ h2.mem[x + s[x] - 4] = h.mem[x + s[x] - 4]
  /\ \A a \in Offsets : a = Behind(s, x) \/ h2.mem[a] = h.mem[a]
  /\ \A W \in SUBSET (B \ {x}) : Untouched(h.mem, h2.mem, s, W)

\* v is the word behind x with a new tag.
LEMMA WriteTag ==
  ASSUME NEW h, Runs(h), NEW B, NEW s, NEW F, NEW x \in B, PartBut(h.mem, B, s, F, x),
         NEW v \in Int, SizeOf(v) = SizeOf(h.mem[Behind(s, x)])
  PROVE  /\ TagChanged(h, Write(h, Behind(s, x), v), B, s, F, x)
         /\ Write(h, Behind(s, x), v).mem[Behind(s, x)] = v
<1> PICK X : X = {x}
  BY Zenon
<1> DEFINE m == h.mem
           a == Behind(s, x)
           h2 == Write(h, a, v)
<1>1. a \in Offsets \ {0} /\ a = x + s[x]
  BY Zenon, WordBehind DEF Behind
<1>2. Part(m, B, s, F, X) /\ m \in Memory /\ Layout(B, s) /\ X \in SUBSET B
  BY Zenon DEF PartBut, Part
<1>3. Runs(h2) /\ h2.mem = [m EXCEPT ![a] = v]
  BY Zenon, <1>1, WriteRuns
<1> HIDE DEF h2, a
<1>4. x \in Offsets /\ x + s[x] - 4 \in Offsets /\ a # x /\ a # x + s[x] - 4
  BY <1>1, <1>2, BlockWords
<1>5. /\ h2.mem \in Memory /\ h2.mem[a] = v
      /\ \A c \in Offsets : c = a \/ h2.mem[c] = m[c]
  BY Zenon, <1>1, <1>2, <1>3 DEF Memory, Runs
<1>6. \A c \in Offsets : Spared(m, h2.mem, s, X, c)
  BY Zenon, <1>1, <1>5 DEF Spared, a
<1>7. Part(h2.mem, B, s, F, X) /\ \A W \in SUBSET (B \ X) : Untouched(m, h2.mem, s, W)
  BY Zenon, <1>2, <1>5, <1>6, Rewritten
<1>8. TagChanged(h, h2, B, s, F, x)
  BY Zenon, <1>3, <1>4, <1>5, <1>7 DEF TagChanged, PartBut, a
<1> QED
  BY Zenon, <1>5, <1>8 DEF h2, a

\* SetTheFreeTag changes the free tag of x and nothing else.
LEMMA SetTagPart ==
  ASSUME NEW h, Runs(h), NEW B, NEW s, NEW F, NEW x \in B, PartBut(h.mem, B, s, F, x)
  PROVE  /\ TagChanged(h, SetTheFreeTag(h, x, s[x]), B, s, F, x)
         /\ Tagged(SetTheFreeTag(h, x, s[x]).mem[Behind(s, x)])
<1> DEFINE w == h.mem[Behind(s, x)]
           v == SetTag(w)
<1>1. /\ Behind(s, x) \in Offsets /\ w \in Int
      /\ SizeOf(w) \in Nat /\ SizeOf(w) <= LastTag
  BY Zenon, WordBehind
<1>2. SetTheFreeTag(h, x, s[x]) = Write(h, Behind(s, x), v)
  BY Zenon, <1>1 DEF SetTheFreeTag, Read, Behind
<1>3. v \in Int /\ SizeOf(v) = SizeOf(w) /\ Tagged(v)
  BY Zenon, <1>1, SetTagWord
<1> HIDE DEF v
<1>4. /\ TagChanged(h, Write(h, Behind(s, x), v), B, s, F, x)
      /\ Write(h, Behind(s, x), v).mem[Behind(s, x)] = v
  BY <1>3, WriteTag
<1> QED
  BY Zenon, <1>2, <1>3, <1>4

\* ResetTheFreeTag changes the free tag of x and nothing else.
LEMMA ResetTagPart ==
  ASSUME NEW h, Runs(h), NEW B, NEW s, NEW F, NEW x \in B, PartBut(h.mem, B, s, F, x)
  PROVE  /\ TagChanged(h, ResetTheFreeTag(h, x, s[x]), B, s, F, x)
         /\ ~Tagged(ResetTheFreeTag(h, x, s[x]).mem[Behind(s, x)])
<1> DEFINE w == h.mem[Behind(s, x)]
           v == SizeOf(w)
<1>1. /\ Behind(s, x) \in Offsets /\ w \in Int
      /\ SizeOf(w) \in Nat /\ SizeOf(w) <= LastTag
  BY Zenon, WordBehind
<1>2. ResetTheFreeTag(h, x, s[x]) = Write(h, Behind(s, x), v)
  BY Zenon, <1>1 DEF ResetTheFreeTag, Read, Behind
<1>3. v \in Int /\ SizeOf(v) = SizeOf(w) /\ ~Tagged(v)
  BY <1>1, TagWords
<1> HIDE DEF v
<1>4. /\ TagChanged(h, Write(h, Behind(s, x), v), B, s, F, x)
      /\ Write(h, Behind(s, x), v).mem[Behind(s, x)] = v
  BY <1>3, WriteTag
<1> QED
  BY Zenon, <1>2, <1>3, <1>4

----------------------------------------------------------------------------
(* FreeBlock.                                                              *)

\* What the users stored is left alone by two steps if it is by each.
LEMMA StillUntouched ==
  ASSUME NEW m0, NEW m, NEW m2, NEW s0, NEW s, NEW W, \A w \in W : s[w] = s0[w],
         Untouched(m0, m, s0, W), Untouched(m, m2, s, W)
  PROVE  Untouched(m0, m2, s0, W)
  BY Zenon DEF Untouched

\* Tags and footers are left alone by two steps if they are by each.
LEMMA StillMarked ==
  ASSUME NEW m0, NEW m, NEW m2, NEW B, NEW s, SameMarks(m0, m, B, s), SameMarks(m, m2, B, s)
  PROVE  SameMarks(m0, m2, B, s)
<1>1. ASSUME NEW b \in B
      PROVE  /\ m2[b] = m0[b] /\ m2[b + s[b] - 4] = m0[b + s[b] - 4]
             /\ m2[b + s[b]] = m0[b + s[b]]
  <2> PICK f, e : f = b + s[b] - 4 /\ e = b + s[b]
    BY Zenon
  <2>1. m[b] = m0[b] /\ m[f] = m0[f] /\ m[e] = m0[e]
    BY Zenon DEF SameMarks
  <2>2. m2[b] = m[b] /\ m2[f] = m[f] /\ m2[e] = m[e]
    BY Zenon DEF SameMarks
  <2> QED
    BY Zenon, <2>1, <2>2
<1>2. m2[LastTag] = m0[LastTag]
  BY Zenon DEF SameMarks
<1> QED
  BY Zenon, <1>1, <1>2 DEF SameMarks

\* Block x is under construction, those in W are in use, all others are free;
\* W is as in a memory m0 with sizes s0.
Stage(h, B, s, x, m0, s0, W) ==
  /\ Runs(h) /\ PartBut(h.mem, B, s, B \ (W \cup {x}), x) /\ x \in B \ W /\ W \subseteq B
  /\ \A w \in W : s[w] = s0[w]
  /\ Untouched(m0, h.mem, s0, W)

\* The free block f, before or behind x, is taken out of its list and joined
\* with x: of the two, c is first.
LEMMA MergeStage ==
  ASSUME NEW h, NEW B, NEW s, NEW x, NEW m0, NEW s0, NEW W, Stage(h, B, s, x, m0, s0, W),
         NEW f \in B \ (W \cup {x}), NEW c \in {x, f}, NEW n \in {x, f}, n # c, n = c + s[c]
  PROVE  /\ Stage(RemoveBlock(h, f, s[f]), B \ {n}, Joined(s, c, n), c, m0, s0, W)
         /\ SameMarks(h.mem, RemoveBlock(h, f, s[f]).mem, B, s)
<1> PICK F : F = B \ (W \cup {x})
  BY Zenon
<1> PICK X : X = {x}
  BY Zenon
<1> DEFINE h2 == RemoveBlock(h, f, s[f])
           t == Joined(s, c, n)
<1>1. /\ Runs(h) /\ Part(h.mem, B, s, F, X) /\ x \in B \ W /\ W \in SUBSET B /\ W \cap F = {}
      /\ f \in F /\ f \notin X /\ c \in B /\ n \in B /\ n \notin W /\ c \notin W
  BY Zenon DEF Stage, PartBut
<1>2. /\ Runs(h2) /\ Part(h2.mem, B, s, F \ {f}, X \cup {f}) /\ SameMarks(h.mem, h2.mem, B, s)
      /\ Untouched(h.mem, h2.mem, s, W)
  BY Zenon, <1>1, RemovePart
<1> HIDE DEF h2
<1>3. Part(h2.mem, B, s, F \ {f}, {c, c + s[c]}) /\ c \notin F \ {f} /\ n \notin F \ {f}
  <2>1. X \cup {f} = {c, c + s[c]}
    BY Zenon
  <2> QED
    BY Zenon, <1>2, <2>1
<1>4. Part(h2.mem, B \ {n}, t, F \ {f}, {c})
  BY Zenon, <1>1, <1>3, JoinPart
<1>5. F \ {f} = (B \ {n}) \ (W \cup {c})
  BY Zenon, <1>1
<1>6. \A w \in W : t[w] = s0[w]
  BY Zenon, <1>1 DEF Joined, Stage, Part, Layout
<1>7. Untouched(m0, h2.mem, s0, W)
  BY Zenon, <1>2, StillUntouched DEF Stage
<1> HIDE DEF t
<1>8. Stage(h2, B \ {n}, t, c, m0, s0, W)
  BY Zenon, <1>1, <1>2, <1>4, <1>5, <1>6, <1>7 DEF Stage, PartBut
<1> QED
  BY Zenon, <1>2, <1>8 DEF h2, t

\* SetSize writes header and footer.
Measured(h, s, x) == SizeOf(h.mem[x]) = s[x] /\ h.mem[x + s[x] - 4] = s[x]

\* SetTheSizeTag and the footer give the block x its size.
LEMMA SizeStage ==
  ASSUME NEW h, NEW B, NEW s, NEW x, NEW m0, NEW s0, NEW W, Stage(h, B, s, x, m0, s0, W)
  PROVE  /\ Stage(SetSize(h, x, s[x]), B, s, x, m0, s0, W)
         /\ Measured(SetSize(h, x, s[x]), s, x)
<1> PICK F : F = B \ (W \cup {x})
  BY Zenon
<1> PICK X : X = {x}
  BY Zenon
<1> PICK h2 : h2 = SetSize(h, x, s[x])
  BY Zenon
<1>1. /\ Runs(h) /\ Part(h.mem, B, s, F, X) /\ x \in B \ W /\ W \in SUBSET (B \ X)
      /\ X \in SUBSET B /\ x \in X
  BY Zenon DEF Stage, PartBut
<1>2. /\ Runs(h2) /\ Part(h2.mem, B, s, F, X)
      /\ SizeOf(h2.mem[x]) = s[x] /\ h2.mem[x + s[x] - 4] = s[x]
      /\ Untouched(h.mem, h2.mem, s, W)
  BY <1>1, SetSizePart DEF Sized
<1>3. Untouched(m0, h2.mem, s0, W)
  BY <1>2, StillUntouched DEF Stage
<1>4. Stage(h2, B, s, x, m0, s0, W) /\ Measured(h2, s, x)
  BY Zenon, <1>2, <1>3 DEF Stage, PartBut, Measured
<1> QED
  BY Zenon, <1>4

\* The heap is sound again, with the blocks in W in use.
Restored(h, m0, s0, W) ==
  /\ Runs(h) /\ Untouched(m0, h.mem, s0, W)
  /\ \E B, s : W \subseteq B /\ (\A w \in W : s[w] = s0[w]) /\ Sound(h.mem, B, s, B \ W)

\* The end of FreeBlock.
LEMMA TagAndPush ==
  ASSUME NEW h, NEW B, NEW s, NEW x, NEW m0, NEW s0, NEW W, Stage(h, B, s, x, m0, s0, W),
         Measured(h, s, x)
  PROVE  Restored(PushFreed(SetTheFreeTag(h, x, s[x]), x, Class(s, x)), m0, s0, W)
<1> PICK F : F = B \ (W \cup {x})
  BY Zenon
<1> PICK X : X = {x}
  BY Zenon
<1> PICK h4 : h4 = SetTheFreeTag(h, x, s[x])
  BY Zenon
<1> PICK h8 : h8 = PushFreed(h4, x, Class(s, x))
  BY Zenon
<1>1. /\ Runs(h) /\ PartBut(h.mem, B, s, F, x) /\ x \in B \ W /\ W \in SUBSET (B \ {x})
      /\ x \in X /\ x \notin F /\ F \in SUBSET B
  BY Zenon DEF Stage
<1>2. TagChanged(h, h4, B, s, F, x) /\ Tagged(h4.mem[Behind(s, x)])
  BY Zenon, <1>1, SetTagPart
<1>3. /\ Runs(h4) /\ Part(h4.mem, B, s, F, X) /\ Untouched(h.mem, h4.mem, s, W)
      /\ SizeOf(h4.mem[x]) = s[x] /\ h4.mem[x + s[x] - 4] = s[x] /\ Tagged(h4.mem[x + s[x]])
  BY Zenon, <1>1, <1>2 DEF TagChanged, PartBut, Measured, Behind
<1>4. Layout(B, s) /\ Links(h4.mem, s, F) /\ x \in B \ F
  BY Zenon, <1>1, <1>3 DEF Part
<1>5. Runs(h8) /\ Pushed(h4.mem, h8.mem, x, Class(s, x))
  BY Zenon, <1>1, <1>3, <1>4, PushRuns
<1>6. Extended(h4.mem, h8.mem, B, s, F \cup {x}, X)
  BY Zenon, <1>1, <1>3, <1>5, PushPart
<1>7. Untouched(h4.mem, h8.mem, s, W) /\ Part(h8.mem, B, s, F \cup {x}, X)
  BY Zenon, <1>1, <1>6 DEF Extended
<1>8. Marked(h8.mem, s, F \cup {x}, x)
  BY Zenon, <1>1, <1>3, <1>6 DEF Marked, SameMarks, Extended
<1>9. Sound(h8.mem, B, s, B \ W)
  <2>1. F \cup {x} = B \ W /\ X \ {x} = {}
    BY Zenon, <1>1
  <2> QED
    BY <1>7, <1>8, <2>1, Finished DEF Sound
<1>10. Untouched(m0, h8.mem, s0, W)
  <2>1. Untouched(m0, h4.mem, s0, W)
    BY <1>3, StillUntouched DEF Stage
  <2> QED
    BY <1>7, <2>1, StillUntouched DEF Stage
<1>11. Restored(h8, m0, s0, W)
  BY Zenon, <1>1, <1>5, <1>9, <1>10 DEF Restored, Stage
<1> QED
  BY Zenon, <1>11

\* FreeBlock finds b between its neighbours, and the tag in b's header tells
\* where the block before is, if that one is free.
FreeStart(h, B, s, U, b) ==
  /\ Stage(h, B, s, b, h.mem, s, U \ {b}) /\ Measured(h, s, b) /\ Layout(B, s)
  /\ ~Tagged(h.mem[b + s[b]]) /\ b - 4 \in Offsets \ {0}
  /\ Tagged(h.mem[b]) => \E c \in B \ U : c + s[c] = b /\ h.mem[b - 4] = s[c]

\* A block in use, in a sound heap, is what FreeBlock expects.
LEMMA FreePrev ==
  ASSUME NEW h, Runs(h), NEW B, NEW s, NEW U \in SUBSET B, Sound(h.mem, B, s, B \ U), NEW b \in U
  PROVE  FreeStart(h, B, s, U, b)
<1> DEFINE m == h.mem
<1>1. /\ Layout(B, s) /\ Part(m, B, s, B \ U, {}) /\ ~Tagged(m[FirstBlock])
      /\ \A c \in B : Marked(m, s, B \ U, c)
  BY Zenon DEF Sound, Part
<1>2. Measured(h, s, b) /\ ~Tagged(m[b + s[b]])
  BY Zenon, <1>1 DEF Marked, Measured
<1>3. Stage(h, B, s, b, m, s, U \ {b})
  <2>1. B \ ((U \ {b}) \cup {b}) = B \ U
    BY Zenon
  <2>2. PartBut(m, B, s, B \ U, b)
    BY Zenon, <1>1 DEF PartBut, Part
  <2>3. Untouched(m, m, s, U \ {b})
    BY Zenon DEF Untouched
  <2> QED
    BY Zenon, <2>1, <2>2, <2>3 DEF Stage
<1>4. b - 4 \in Offsets \ {0}
  <2>1. b \in Nat /\ b >= 12 /\ b <= LastTag /\ LastTag \in Nat /\ b % 4 = 0
    BY <1>1, BlockWords, AlignedOffsets DEF Layout, Aligned
  <2>2. Aligned(b - 4) /\ b - 4 <= LastTag /\ b - 4 # 0
    BY <2>1 DEF Aligned
  <2> QED
    BY Zenon, <2>2, AlignedOffsets
<1>5. ASSUME Tagged(m[b]) PROVE \E c \in B \ U : c + s[c] = b /\ m[b - 4] = s[c]
  <2>1. PICK c \in B : c + s[c] = b
    BY Zenon, <1>1, <1>5 DEF Layout
  <2>2. c \in B \ U /\ m[c + s[c] - 4] = s[c]
    BY Zenon, <1>1, <1>5, <2>1 DEF Marked
  <2>3. m[b - 4] = s[c]
    BY <1>1, <2>1, <2>2, BlockWords
  <2> QED
    BY Zenon, <2>1, <2>2, <2>3
<1> QED
  BY Zenon, <1>1, <1>2, <1>3, <1>4, <1>5 DEF FreeStart

\* ... and the block behind: the free tag that FreeBlock reads there is set if, and
\* only if, there is a block and it is free.
LEMMA FreeNext ==
  ASSUME NEW h, NEW B, NEW s, NEW x, NEW m0, NEW s0, NEW W, Stage(h, B, s, x, m0, s0, W),
         ~Tagged(h.mem[x + s[x]]), Tagged(h.mem[x + s[x] + SizeOf(h.mem[x + s[x]])])
  PROVE  x + s[x] \in B \ (W \cup {x}) /\ SizeOf(h.mem[x + s[x]]) = s[x + s[x]]
<1> PICK F : F = B \ (W \cup {x})
  BY Zenon
<1> PICK n : n = x + s[x]
  BY Zenon
<1>1. Part(h.mem, B, s, F, {x}) /\ Layout(B, s) /\ SizeOf(h.mem[LastTag]) = 0 /\ x \in B
  BY Zenon DEF Stage, PartBut, Part
<1>2. n \in B \cup {LastTag} /\ n # x /\ LastTag \in Nat /\ n \in Nat
  BY <1>1, BlockWords DEF Layout
<1>3. n \in B
  BY <1>1, <1>2
<1>4. SizeOf(h.mem[n]) = s[n] /\ (Tagged(h.mem[n + s[n]]) <=> n \in F)
  BY Zenon, <1>1, <1>2, <1>3 DEF Part, Marked
<1> QED
  BY Zenon, <1>3, <1>4

\* FreeBlock coalesces, and leaves a sound heap in which b is free and what the
\* other users stored is untouched.
LEMMA FreeBlockSound ==
  ASSUME NEW h, Runs(h), NEW B, NEW s, NEW U \in SUBSET B, Sound(h.mem, B, s, B \ U), NEW b \in U
  PROVE  Restored(FreeBlock(h, b), h.mem, s, U \ {b})
<1> PICK m, W : m = h.mem /\ W = U \ {b}
  BY Zenon
<1> DEFINE size0 == ReadTheSizeTag(h, b)
           prev_size == Read(h, b - 4)
           next_blk == b + size0
           next_size == ReadTheSizeTag(h, next_blk)
           h0 == Access(Access(Access(Access(h, b), b - 4), next_blk), next_blk + next_size)
           with_prev == /\ ReadThePrevFreeTag(h, b)
                        /\ size0 <= kMaxBlockSize /\ prev_size <= kMaxBlockSize
           h1 == IF with_prev THEN RemoveBlock(h0, b - prev_size, prev_size) ELSE h0
           blk == IF with_prev THEN b - prev_size ELSE b
           size1 == IF with_prev THEN size0 + prev_size ELSE size0
           with_next == /\ ReadTheFreeTag(h1, next_blk, next_size)
                        /\ size1 <= kMaxBlockSize /\ next_size <= kMaxBlockSize
           h2 == IF with_next THEN RemoveBlock(h1, next_blk, next_size) ELSE h1
           size == IF with_next THEN size1 + next_size ELSE size1
           h3 == IF size # size0 THEN SetSize(h2, blk, size) ELSE h2
           h4 == SetTheFreeTag(h3, blk, size)
           free_list == GetFreeListByBlockSize(size)
<1>1. FreeBlock(h, b) = PushBlock(h4, blk, free_list)
  BY Zenon DEF FreeBlock
<1> FreeStart(h, B, s, U, b)
  BY Zenon, FreePrev
<1>2. /\ Stage(h, B, s, b, m, s, W) /\ Measured(h, s, b) /\ Layout(B, s)
      /\ ~Tagged(m[b + s[b]]) /\ b - 4 \in Offsets \ {0}
      /\ Tagged(m[b]) => \E c \in B \ U : c + s[c] = b /\ m[b - 4] = s[c]
  BY Zenon DEF FreeStart
<1>3. /\ b \in Nat /\ s[b] \in Nat /\ s[b] >= 32 /\ b \in Offsets \ {0}
      /\ b + s[b] \in Offsets \ {0} /\ b + s[b] \in B \cup {LastTag}
  BY Zenon, <1>2, BlockWords DEF Layout
<1>4. size0 = s[b] /\ prev_size = m[b - 4] /\ next_blk = b + s[b] /\ next_size = SizeOf(m[b + s[b]])
  BY Zenon, <1>2, <1>3 DEF Read, ReadTheSizeTag, Measured
<1>5. next_blk + next_size \in Offsets \ {0}
  <2>1. CASE b + s[b] = LastTag
    <3>1. SizeOf(m[LastTag]) = 0
      BY Zenon DEF Sound, Part
    <3> QED
      BY <1>3, <1>4, <2>1, <3>1
  <2>2. CASE b + s[b] \in B
    <3>1. SizeOf(m[b + s[b]]) = s[b + s[b]]
      BY Zenon, <2>2 DEF Sound, Part, Marked
    <3>2. b + s[b] + s[b + s[b]] \in Offsets \ {0}
      BY Zenon, <1>2, <2>2, BlockWords
    <3> QED
      BY Zenon, <1>4, <3>1, <3>2
  <2> QED
    BY Zenon, <1>3, <2>1, <2>2
<1>6. h0 = h
  BY Zenon, <1>2, <1>3, <1>4, <1>5, AccessRuns
<1>7. with_prev => Tagged(m[b])
  BY Zenon, <1>3 DEF ReadThePrevFreeTag, Read
<1> HIDE DEF size0, prev_size, next_blk, next_size, h0
\* The block with its predecessor, if that was free.
<1>8. \E B1, s1 : /\ Stage(h1, B1, s1, blk, m, s, W) /\ s1[blk] = size1
                  /\ blk + s1[blk] = next_blk /\ h1.mem[next_blk] = m[next_blk]
                  /\ size1 \in Nat /\ size1 >= size0 /\ (size1 = size0 => Measured(h1, s1, blk))
  <2>1. CASE with_prev
    <3>1. PICK c \in B \ U : c + s[c] = b /\ m[b - 4] = s[c]
      BY Zenon, <1>2, <1>7, <2>1
    <3>2. c \in Nat /\ s[c] \in Nat /\ s[c] >= 32 /\ prev_size = s[c] /\ b - prev_size = c /\ c # b
      BY <1>2, <1>3, <1>4, <3>1, BlockWords
    <3>3. h1 = RemoveBlock(h, c, s[c]) /\ blk = c /\ size1 = s[b] + s[c]
      BY Zenon, <1>4, <1>6, <2>1, <3>2
    <3> HIDE DEF h1, blk, size1, with_prev
    <3>4. c \in B \ (W \cup {b}) /\ c \in {b, c} /\ b \in {b, c} /\ b = c + s[c]
      BY Zenon, <3>1
    <3>5. /\ Stage(RemoveBlock(h, c, s[c]), B \ {b}, Joined(s, c, b), c, m, s, W)
          /\ SameMarks(m, RemoveBlock(h, c, s[c]).mem, B, s)
      BY Zenon, <1>2, <3>2, <3>4, MergeStage
    <3>6. Joined(s, c, b)[c] = s[c] + s[b]
      BY Zenon, <1>2, <3>1, <3>2 DEF Joined, Layout
    <3>7. h1.mem[b + s[b]] = m[b + s[b]]
      BY Zenon, <3>3, <3>5 DEF SameMarks
    <3>8. c + (s[c] + s[b]) = b + s[b] /\ s[c] + s[b] = s[b] + s[c] /\ s[b] + s[c] \in Nat
          /\ s[b] + s[c] > s[b]
      BY <1>3, <3>1, <3>2
    <3> WITNESS B \ {b}, Joined(s, c, b)
    <3> QED
      BY <1>3, <1>4, <3>3, <3>5, <3>6, <3>7, <3>8
  <2>2. CASE ~with_prev
    <3>1. h1 = h /\ blk = b /\ size1 = s[b]
      BY Zenon, <1>4, <1>6, <2>2
    <3> HIDE DEF h1, blk, size1, with_prev
    <3> WITNESS B, s
    <3> QED
      BY <1>2, <1>3, <1>4, <3>1
  <2> QED
    BY Zenon, <2>1, <2>2
<1>9. PICK B1, s1 : /\ Stage(h1, B1, s1, blk, m, s, W) /\ s1[blk] = size1
                    /\ blk + s1[blk] = next_blk /\ h1.mem[next_blk] = m[next_blk]
                    /\ size1 \in Nat /\ size1 >= size0
                    /\ (size1 = size0 => Measured(h1, s1, blk))
  BY Zenon, <1>8
<1> HIDE DEF h1, blk, size1, with_prev
\* ... and with its successor, if that was free.
<1>10. \E B2, s2 : /\ Stage(h2, B2, s2, blk, m, s, W) /\ s2[blk] = size
                   /\ (size = size0 => Measured(h2, s2, blk))
  <2>1. CASE with_next
    <3>1. /\ ~Tagged(h1.mem[blk + s1[blk]]) /\ next_size = SizeOf(h1.mem[blk + s1[blk]])
          /\ Tagged(h1.mem[blk + s1[blk] + next_size])
      BY Zenon, <1>2, <1>4, <1>5, <1>9, <2>1 DEF ReadTheFreeTag, Read
    <3>2. next_blk \in B1 \ (W \cup {blk}) /\ next_size = s1[next_blk]
      BY <1>9, <3>1, FreeNext
    <3>3. h2 = RemoveBlock(h1, next_blk, s1[next_blk]) /\ size = size1 + s1[next_blk]
      BY Zenon, <2>1, <3>2
    <3> HIDE DEF h2, size, with_next
    <3>4. Layout(B1, s1) /\ blk \in B1
      BY Zenon, <1>9 DEF Stage, PartBut, Part
    <3>5. /\ s1[next_blk] \in Nat /\ s1[next_blk] >= 32 /\ next_blk # blk
          /\ blk \in {blk, next_blk} /\ next_blk \in {blk, next_blk}
      BY Zenon, <3>2, <3>4, BlockWords
    <3>6. Stage(RemoveBlock(h1, next_blk, s1[next_blk]), B1 \ {next_blk},
                Joined(s1, blk, next_blk), blk, m, s, W)
      BY Zenon, <1>9, <3>2, <3>5, MergeStage
    <3>7. Joined(s1, blk, next_blk)[blk] = s1[blk] + s1[next_blk]
      BY Zenon, <3>4, <3>5 DEF Joined, Layout
    <3>8. size # size0
      <4>1. size0 \in Nat /\ size1 \in Nat /\ size1 >= size0
        BY Zenon, <1>3, <1>4, <1>9
      <4> QED
        BY ONLY <3>3, <3>5, <4>1
    <3> WITNESS B1 \ {next_blk}, Joined(s1, blk, next_blk)
    <3> QED
      BY Zenon, <1>9, <3>3, <3>6, <3>7, <3>8
  <2>2. CASE ~with_next
    <3>1. h2 = h1 /\ size = size1
      BY Zenon, <2>2
    <3> HIDE DEF h2, size, with_next
    <3> WITNESS B1, s1
    <3> QED
      BY Zenon, <1>9, <3>1
  <2> QED
    BY Zenon, <2>1, <2>2
<1>11. PICK B2, s2 : /\ Stage(h2, B2, s2, blk, m, s, W) /\ s2[blk] = size
                     /\ (size = size0 => Measured(h2, s2, blk))
  BY Zenon, <1>10
<1> HIDE DEF h2, size, with_next
<1>12. Stage(h3, B2, s2, blk, m, s, W) /\ Measured(h3, s2, blk)
  BY Zenon, <1>11, SizeStage
<1> HIDE DEF h3
<1>13. Restored(PushFreed(h4, blk, free_list), m, s, W)
  BY Zenon, <1>11, <1>12, TagAndPush DEF Class
<1>14. PushBlock(h4, blk, free_list) = PushFreed(h4, blk, free_list)
  <2>1. free_list \in Offsets \ {0}
    <3>1. Layout(B2, s2) /\ blk \in B2
      BY Zenon, <1>11 DEF Stage, PartBut, Part
    <3>2. size \in Nat /\ size >= 32 /\ size % 16 = 0
      BY Zenon, <1>11, <3>1 DEF Layout
    <3> QED
      BY <3>2, ClassFacts, ListWords
  <2> HIDE DEF free_list, h4
  <2>2. Access(h4, free_list) = h4 /\ Read(h4, free_list) = h4.mem[free_list]
    BY Zenon, <2>1, AccessRuns DEF Read
  <2> QED
    BY Zenon, <2>2 DEF PushBlock, PushFreed, PrevField, NextField
<1> QED
  BY Zenon, <1>1, <1>13, <1>14

----------------------------------------------------------------------------
(* AllocBlock.                                                             *)

\* The blocks in G are listed in g, and before in h those in F were; only
\* words of F and list heads differ.
Delisted(h, g, B, s, F, G, X) ==
  /\ Runs(g) /\ Part(g.mem, B, s, G, X) /\ SameMarks(h.mem, g.mem, B, s)
  /\ \A W \in SUBSET B : W \cap F = {} => Untouched(h.mem, g.mem, s, W)

\* The head of list l is taken; n is next.
TakeHead(h, l, n) ==
  LET h1 == Write(h, l, n) IN IF n # 0 THEN Write(h1, n + 4, 0) ELSE h1

\* AllocBlock's stores take the head of a list off it.
LEMMA TakeHeadPart ==
  ASSUME NEW h, Runs(h), NEW B, NEW s, NEW F, NEW X, Part(h.mem, B, s, F, X), NEW b \in F,
         h.mem[b + 4] = 0
  PROVE  Delisted(h, TakeHead(h, Class(s, b), h.mem[b + 8]), B, s, F, F \ {b}, X \cup {b})
<1> PICK m, l, n, g : m = h.mem /\ l = Class(s, b) /\ n = m[b + 8] /\ g = TakeHead(h, l, n)
  BY Zenon
<1>1. Layout(B, s) /\ F \in SUBSET B /\ Links(m, s, F) /\ m \in Memory /\ b \in B
  BY Zenon DEF Part
<1>2. l \in Lists /\ l > 0 /\ l \in Offsets \ {0}
  BY <1>1, ClassFacts, ListWords DEF Class, Layout
<1>3. n \in Int /\ (n = 0 \/ n \in F)
  BY Zenon, <1>1, BlockWords DEF Links, LinkedOn, Memory
<1>4. n # 0 => n + 4 \in Offsets \ {0} /\ n + 4 # l
  BY Zenon, <1>1, <1>2, <1>3, BlockWords, LinkFields
<1>5. PICK h1 : h1 = Write(h, l, n)
  BY Zenon
<1>6. Wrote(h, h1, l, n) /\ Runs(h1)
  BY Zenon, <1>2, <1>3, <1>5, WrittenTo
<1>7. Runs(g) /\ Unlinked(m, g.mem, b, l)
  <2>1. CASE n # 0
    <3>1. PICK a, z : a = n + 4 /\ z = 0
      BY Zenon
    <3>2. g = Write(h1, a, z)
      BY Zenon, <1>5, <2>1, <3>1 DEF TakeHead
    <3>3. Wrote(h1, g, a, z) /\ Runs(g)
      BY <1>4, <1>6, <2>1, <3>1, <3>2, WrittenTo
    <3>4. g.mem \in Memory
      BY Zenon, <3>3 DEF Runs
    <3> QED
      BY Zenon, <1>2, <1>4, <1>6, <2>1, <3>1, <3>3, <3>4 DEF Unlinked, Wrote
  <2>2. CASE n = 0
    <3>1. g = h1
      BY Zenon, <1>5, <2>2 DEF TakeHead
    <3>2. g.mem \in Memory
      BY Zenon, <1>6, <3>1 DEF Runs
    <3> QED
      BY Zenon, <1>6, <2>2, <3>1, <3>2 DEF Unlinked, Wrote
  <2> QED
    BY Zenon, <2>1, <2>2
<1>8. Links(g.mem, s, F \ {b}) /\ LinkWrites(m, g.mem, F) /\ g.mem \in Memory
  BY Zenon, <1>1, <1>7, Unlink DEF Runs
<1>9. LinkWrites(m, g.mem, B)
  BY Zenon, <1>1, <1>8 DEF LinkWrites
<1>10. Part(g.mem, B, s, F \ {b}, X \cup {b})
  BY Zenon, <1>1, <1>8, <1>9, Relinked
<1>11. /\ SameMarks(m, g.mem, B, s)
       /\ \A W \in SUBSET B : W \cap F = {} => Untouched(m, g.mem, s, W)
  BY Zenon, <1>1, <1>8, LinkWritesSpare
<1>12. Delisted(h, g, B, s, F, F \ {b}, X \cup {b})
  BY Zenon, <1>7, <1>10, <1>11 DEF Delisted
<1> QED
  BY Zenon, <1>12

\* The store at offset 4 that AllocBlock makes when the list is at its end.
LEMMA EmptyPart ==
  ASSUME NEW h, Runs(h), NEW B, NEW s, NEW F, NEW X, Part(h.mem, B, s, F, X)
  PROVE  Delisted(h, Write(h, 4, 0), B, s, F, F, X)
<1> PICK m, g, a, z : m = h.mem /\ g = Write(h, a, z) /\ a = 4 /\ z = 0
  BY Zenon
<1>1. Layout(B, s) /\ F \in SUBSET B /\ Links(m, s, F) /\ m \in Memory
  BY Zenon DEF Part
<1>2. a \in Offsets \ {0} /\ z \in Int
  <2>1. FirstBlock \in B /\ FirstBlock >= 12 /\ FirstBlock \in Nat
    BY <1>1, BlockWords DEF Layout
  <2>2. FirstBlock + s[FirstBlock] <= LastTag /\ s[FirstBlock] \in Nat /\ LastTag \in Nat
    BY Zenon, <1>1, <2>1, BlockWords
  <2>3. Aligned(4) /\ 4 <= LastTag
    BY <2>1, <2>2 DEF Aligned
  <2> QED
    BY <2>3, AlignedOffsets
<1>3. Runs(g) /\ g.mem = [m EXCEPT ![a] = z]
  BY <1>2, WriteRuns
<1>4. g.mem \in Memory /\ g.mem = [m EXCEPT ![4] = 0]
  BY Zenon, <1>3 DEF Runs
<1>5. Links(g.mem, s, F) /\ LinkWrites(m, g.mem, F)
  BY Zenon, <1>1, <1>4, EmptyList
<1>6. LinkWrites(m, g.mem, B)
  BY Zenon, <1>1, <1>5 DEF LinkWrites
<1>7. Part(g.mem, B, s, F, X)
  BY Zenon, <1>1, <1>4, <1>5, <1>6, Relinked
<1>8. /\ SameMarks(m, g.mem, B, s)
      /\ \A W \in SUBSET B : W \cap F = {} => Untouched(m, g.mem, s, W)
  BY Zenon, <1>1, <1>5, LinkWritesSpare
<1>9. Delisted(h, g, B, s, F, F, X)
  BY Zenon, <1>3, <1>7, <1>8 DEF Delisted
<1> QED
  BY Zenon, <1>9

\* Block blk, of k bytes, has become one in use, besides those in W.
Granted(g, blk, k, m0, s0, W) ==
  /\ Runs(g) /\ Untouched(m0, g.mem, s0, W) /\ blk \notin W
  /\ \E B, s : /\ W \subseteq B /\ blk \in B /\ s[blk] = k
               /\ \A w \in W : s[w] = s0[w]
               /\ Sound(g.mem, B, s, B \ (W \cup {blk}))

\* The head of a list has the size needed.
LEMMA ExactFit ==
  ASSUME NEW h, Runs(h), NEW B, NEW s, NEW U \in SUBSET B, Sound(h.mem, B, s, B \ U),
         NEW x \in B \ U, h.mem[x + 4] = 0, NEW n, n = h.mem[x + 8],
         NEW g, g = Write(Write(ResetTheFreeTag(h, x, s[x]), Class(s, x), n), n + 4, 0)
  PROVE  Granted(g, x, s[x], h.mem, s, U)
<1> PICK F, m, l : F = B \ U /\ m = h.mem /\ l = Class(s, x)
  BY Zenon
<1> PICK X : X = {x}
  BY Zenon
<1> PICK h2 : h2 = ResetTheFreeTag(h, x, s[x])
  BY Zenon
<1>1. /\ Layout(B, s) /\ PartBut(m, B, s, F, x) /\ Marked(m, s, F, x) /\ x \in B /\ x \in F
      /\ U \in SUBSET (B \ {x}) /\ U \cap F = {} /\ F \cap U = {}
  BY Zenon DEF Sound, Part, PartBut
<1>2. TagChanged(h, h2, B, s, F, x) /\ ~Tagged(h2.mem[Behind(s, x)])
  BY Zenon, <1>1, ResetTagPart
<1>3. /\ Runs(h2) /\ Part(h2.mem, B, s, F, X) /\ Untouched(m, h2.mem, s, U)
      /\ SizeOf(h2.mem[x]) = s[x] /\ h2.mem[x + s[x] - 4] = s[x]
      /\ ~Tagged(h2.mem[x + s[x]])
  BY Zenon, <1>1, <1>2 DEF TagChanged, PartBut, Marked, Behind
<1>4. h2.mem[x + 4] = 0 /\ h2.mem[x + 8] = n
  <2>1. /\ x + 4 \in Offsets /\ x + 8 \in Offsets /\ x \in Nat /\ s[x] \in Nat /\ s[x] >= 32
    BY Zenon, <1>1, BlockWords
  <2>2. x + 4 # Behind(s, x) /\ x + 8 # Behind(s, x)
    BY <2>1 DEF Behind
  <2> QED
    BY Zenon, <1>2, <2>1, <2>2 DEF TagChanged
<1>5. PICK g1 : g1 = TakeHead(h2, l, n)
  BY Zenon
<1>6. Delisted(h2, g1, B, s, F, F \ {x}, X \cup {x})
  BY Zenon, <1>1, <1>3, <1>4, <1>5, TakeHeadPart
<1>7. X \cup {x} = X
  BY Zenon
<1>8. /\ Runs(g1) /\ Part(g1.mem, B, s, F \ {x}, X) /\ SameMarks(h2.mem, g1.mem, B, s)
      /\ Untouched(h2.mem, g1.mem, s, U)
  BY Zenon, <1>1, <1>6, <1>7 DEF Delisted
<1>9. /\ Runs(g) /\ Part(g.mem, B, s, F \ {x}, X) /\ SameMarks(h2.mem, g.mem, B, s)
      /\ Untouched(h2.mem, g.mem, s, U)
  <2>1. CASE n # 0
    <3>1. g = g1
      BY Zenon, <1>5, <2>1 DEF TakeHead
    <3> QED
      BY Zenon, <1>8, <3>1
  <2>2. CASE n = 0
    <3>1. g = Write(g1, 4, 0)
      BY <1>5, <2>2 DEF TakeHead
    <3>2. Delisted(g1, g, B, s, F \ {x}, F \ {x}, X)
      BY Zenon, <1>8, <3>1, EmptyPart
    <3>3. /\ Runs(g) /\ Part(g.mem, B, s, F \ {x}, X) /\ SameMarks(g1.mem, g.mem, B, s)
          /\ Untouched(g1.mem, g.mem, s, U)
      BY Zenon, <1>1, <3>2 DEF Delisted
    <3>4. SameMarks(h2.mem, g.mem, B, s)
      BY Zenon, <1>8, <3>3, StillMarked
    <3>5. Untouched(h2.mem, g.mem, s, U)
      BY Zenon, <1>8, <3>3, StillUntouched
    <3> QED
      BY Zenon, <3>3, <3>4, <3>5
  <2> QED
    BY Zenon, <2>1, <2>2
<1>10. Marked(g.mem, s, F \ {x}, x)
  BY Zenon, <1>1, <1>3, <1>9 DEF Marked, SameMarks
<1>11. Sound(g.mem, B, s, B \ (U \cup {x}))
  <2>1. F \ {x} = B \ (U \cup {x}) /\ X \ {x} = {}
    BY Zenon
  <2> QED
    BY <1>9, <1>10, <2>1, Finished DEF Sound
<1>12. Untouched(m, g.mem, s, U)
  BY Zenon, <1>3, <1>9, StillUntouched
<1> QED
  BY Zenon, <1>1, <1>9, <1>11, <1>12 DEF Granted

\* A larger head is split: its last k bytes are handed out, and the rest, of at
\* least 32 bytes, is put on the list of its new class.
LEMMA SplitSound ==
  ASSUME NEW h, Runs(h), NEW B, NEW s, NEW U \in SUBSET B, Sound(h.mem, B, s, B \ U),
         NEW x \in B \ U, h.mem[x + 4] = 0, NEW k \in Nat, k % 16 = 0, k >= 32, s[x] - k >= 32
  PROVE  /\ Granted(SplitBlock(h, x, s[x], k).heap, SplitBlock(h, x, s[x], k).blk, k, h.mem, s, U)
         /\ SplitBlock(h, x, s[x], k).blk \in Nat \ {0}
<1> PICK F, m, l : F = B \ U /\ m = h.mem /\ l = Class(s, x)
  BY Zenon
<1> PICK X : X = {x}
  BY Zenon
<1> DEFINE next_blk == Read(h, NextField(x))
           new_size == s[x] - k
           h0 == Check(Access(h, NextField(x)), s[x] > k)
           h1 == Write(h0, GetFreeListByBlockSize(s[x]), next_blk)
           h2 == IF next_blk # 0 THEN Write(h1, PrevField(next_blk), 0) ELSE h1
           h3 == SetSize(h2, x, new_size)
           free_list == GetFreeListByBlockSize(new_size)
           head == Read(h3, free_list)
           h4 == Write(Access(h3, free_list), PrevField(x), 0)
           h5 == Write(h4, NextField(x), head)
           h6 == Write(h5, free_list, x)
           h7 == IF head # 0 THEN Write(h6, PrevField(head), x) ELSE h6
           h8 == Write(h7, x + new_size, kFreeMask + k)
           h9 == Write(h8, x + s[x] - 4, k)
           h10 == ResetTheFreeTag(h9, x + new_size, k)
<1>1. SplitBlock(h, x, s[x], k) = [heap |-> h10, blk |-> x + new_size]
  BY Zenon DEF SplitBlock
<1>2. /\ Layout(B, s) /\ Part(m, B, s, F, {}) /\ x \in B /\ x \in F
      /\ U \in SUBSET (B \ {x}) /\ U \cap F = {} /\ F \subseteq B
  BY Zenon DEF Sound, Part
<1>3. /\ x \in Nat /\ s[x] \in Nat /\ x + 8 \in Offsets \ {0} /\ x # 0
      /\ m[x + 8] = next_blk /\ new_size \in Nat /\ new_size >= 32
  BY <1>2, BlockWords DEF Read, NextField
<1>4. h0 = h
  BY <1>3, AccessRuns DEF Check, NextField
<1>5. h2 = TakeHead(h, l, next_blk)
  BY Zenon, <1>4 DEF TakeHead, PrevField, Class
<1> HIDE DEF next_blk, h0, h1, h2
<1>6. Delisted(h, h2, B, s, F, F \ {x}, {} \cup {x})
  BY Zenon, <1>2, <1>3, <1>5, TakeHeadPart
<1>7. /\ Runs(h2) /\ Part(h2.mem, B, s, F \ {x}, {x}) /\ x \notin F \ {x}
      /\ Untouched(m, h2.mem, s, U)
  <2>1. {} \cup {x} = {x}
    BY Zenon
  <2> QED
    BY Zenon, <1>2, <1>6, <2>1 DEF Delisted
\* The blocks after the split.
<1>8. PICK n : n = x + s[x] - k
  BY Zenon
<1>9. PICK C, t : C = B \cup {n} /\ t = Cut(s, x, k)
  BY Zenon
<1>10. PICK Y : Y = {x, n}
  BY Zenon
<1>11. Part(h2.mem, C, t, F \ {x}, Y) /\ n \notin B
  BY Zenon, <1>2, <1>7, <1>8, <1>9, <1>10, CutPart
<1>12. /\ t[x] = new_size /\ t[n] = k /\ (\A u \in U : t[u] = s[u])
       /\ n = x + new_size /\ n = Behind(t, x) /\ n \in Nat /\ n # 0
       /\ n + t[n] - 4 = x + s[x] - 4 /\ x \in Y /\ n \in Y /\ Y \in SUBSET C
       /\ U \in SUBSET (C \ Y) /\ x \in C /\ n \in C
  BY <1>2, <1>3, <1>8, <1>9, <1>10, <1>11 DEF Cut, Layout, Behind
<1> HIDE DEF new_size
<1> h3 = SetSize(h2, x, t[x])
  BY Zenon, <1>12
<1> HIDE DEF h3
<1>13. /\ Runs(h3) /\ Part(h3.mem, C, t, F \ {x}, Y) /\ Untouched(h2.mem, h3.mem, t, U)
       /\ SizeOf(h3.mem[x]) = t[x] /\ h3.mem[x + t[x] - 4] = t[x]
  <2>1. PICK G : G = F \ {x}
    BY Zenon
  <2>2. Runs(h2) /\ Part(h2.mem, C, t, G, Y) /\ Y \in SUBSET C /\ x \in Y
        /\ U \in SUBSET (C \ Y)
    BY Zenon, <1>7, <1>11, <1>12, <2>1
  <2>3. Sized(h2, h3, C, t, G, Y, x)
    BY Zenon, <2>2, SetSizePart
  <2> QED
    BY Zenon, <2>1, <2>2, <2>3 DEF Sized
<1>14. Layout(C, t) /\ Links(h3.mem, t, F \ {x}) /\ F \ {x} \in SUBSET C /\ x \in C \ (F \ {x})
  BY Zenon, <1>12, <1>13 DEF Part
<1>15. h7 = PushRest(h3, x, Class(t, x))
  <2>1. free_list = Class(t, x) /\ free_list \in Offsets \ {0}
    <3>1. t[x] \in Nat /\ t[x] >= 32 /\ t[x] % 16 = 0
      BY Zenon, <1>12, <1>14 DEF Layout
    <3> QED
      BY <1>12, <3>1, ClassFacts, ListWords DEF Class
  <2> HIDE DEF free_list
  <2>2. Access(h3, free_list) = h3 /\ head = h3.mem[free_list]
    BY Zenon, <2>1, AccessRuns DEF Read
  <2> QED
    BY Zenon, <2>1, <2>2 DEF PushRest, PrevField, NextField
<1> HIDE DEF h7
<1>16. Runs(h7) /\ Pushed(h3.mem, h7.mem, x, Class(t, x))
  BY Zenon, <1>13, <1>14, <1>15, PushRuns
<1>17. Extended(h3.mem, h7.mem, C, t, (F \ {x}) \cup {x}, Y)
  BY Zenon, <1>12, <1>13, <1>16, PushPart
<1>18. /\ Part(h7.mem, C, t, F, Y) /\ SameMarks(h3.mem, h7.mem, C, t)
       /\ Untouched(h3.mem, h7.mem, t, U)
  <2>1. (F \ {x}) \cup {x} = F
    BY Zenon, <1>2
  <2>2. U \in SUBSET C
    BY Zenon, <1>12
  <2> QED
    BY Zenon, <1>2, <1>17, <2>1, <2>2 DEF Extended
\* Header and footer of the new block.
<1>19. PICK f, v : f = n + t[n] - 4 /\ v = kFreeMask + k
  BY Zenon
<1>20. /\ n \in Offsets \ {0} /\ f \in Offsets \ {0} /\ f # n /\ k <= LastTag
       /\ x # n /\ x # f /\ x \in Offsets /\ x + t[x] - 4 \in Offsets
       /\ x + t[x] - 4 # n /\ x + t[x] - 4 # f
  <2>1. /\ {n, n + t[n] - 4} \subseteq Offsets \ {0} /\ {x, x + t[x] - 4} \subseteq Offsets \ {0}
        /\ n \in Nat /\ x \in Nat /\ t[x] \in Nat /\ t[n] \in Nat /\ t[x] >= 32 /\ t[n] >= 32
        /\ n + t[n] <= LastTag /\ LastTag \in Nat
    BY <1>12, <1>14, BlockWords
  <2>2. x + t[x] = n /\ t[n] = k
    BY Zenon, <1>12
  <2> QED
    BY ONLY <1>19, <2>1, <2>2
<1>21. v \in Int /\ SizeOf(v) = k /\ Tagged(v) /\ k \in Int
  <2>1. k < kFreeMask /\ kFreeMask \in Nat
    BY <1>20, Geometry, SizeAssumption DEF Offsets
  <2> QED
    BY <1>19, <2>1 DEF SizeOf, Tagged
<1>22. h8 = Write(h7, n, v) /\ h9 = Write(h8, f, k)
  BY Zenon, <1>12, <1>19
<1> HIDE DEF h8, h9
<1>23. Wrote(h7, h8, n, v) /\ Runs(h8)
  BY Zenon, <1>16, <1>20, <1>21, <1>22, WrittenTo
<1>24. Wrote(h8, h9, f, k) /\ Runs(h9)
  BY Zenon, <1>20, <1>21, <1>22, <1>23, WrittenTo
<1>25. /\ \A a \in Offsets : a = n \/ a = f \/ h9.mem[a] = h7.mem[a]
       /\ h9.mem[n] = v /\ h9.mem[f] = k /\ h9.mem \in Memory
  BY Zenon, <1>20, <1>23, <1>24 DEF Wrote, Runs
<1>26. \A a \in Offsets : Spared(h7.mem, h9.mem, t, Y, a)
  BY Zenon, <1>12, <1>19, <1>25 DEF Spared, Behind
<1>27. Part(h9.mem, C, t, F, Y) /\ Untouched(h7.mem, h9.mem, t, U)
  BY Zenon, <1>12, <1>18, <1>25, <1>26, Rewritten
<1>28. Marked(h9.mem, t, F, x)
  <2>1. SizeOf(h9.mem[x]) = t[x] /\ h9.mem[x + t[x] - 4] = t[x]
    BY Zenon, <1>12, <1>13, <1>18, <1>20, <1>25 DEF SameMarks
  <2>2. Tagged(h9.mem[x + t[x]])
    BY Zenon, <1>12, <1>21, <1>25 DEF Behind
  <2> QED
    BY Zenon, <1>2, <2>1, <2>2 DEF Marked
<1>29. PartBut(h9.mem, C, t, F, n)
  <2>1. Y \ {x} = {n}
    BY Zenon, <1>10, <1>20
  <2> QED
    BY <1>27, <1>28, <2>1, Finished DEF PartBut
\* The new block's tag is reset.
<1>30. h10 = ResetTheFreeTag(h9, n, t[n])
  BY Zenon, <1>12
<1> HIDE DEF h10
<1>31. TagChanged(h9, h10, C, t, F, n) /\ ~Tagged(h10.mem[Behind(t, n)])
  BY Zenon, <1>12, <1>24, <1>29, <1>30, ResetTagPart
<1>32. /\ Runs(h10) /\ Part(h10.mem, C, t, F, {n}) /\ Untouched(h9.mem, h10.mem, t, U)
       /\ Marked(h10.mem, t, F, n)
  BY Zenon, <1>2, <1>10, <1>11, <1>12, <1>19, <1>21, <1>25, <1>31
     DEF TagChanged, PartBut, Marked, Behind
<1>33. Sound(h10.mem, C, t, C \ (U \cup {n}))
  <2>1. PICK Z : Z = {n}
    BY Zenon
  <2>2. Z \ {n} = {} /\ F = C \ (U \cup {n}) /\ Part(h10.mem, C, t, F, Z)
    BY Zenon, <1>9, <1>11, <1>32, <2>1
  <2>3. Part(h10.mem, C, t, F, Z \ {n})
    BY Zenon, <1>32, <2>2, Finished
  <2> QED
    BY Zenon, <2>2, <2>3 DEF Sound
<1>34. Untouched(m, h10.mem, s, U)
  <2> \A u \in U : t[u] = s[u]
    BY Zenon, <1>12
  <2>1. Untouched(m, h3.mem, s, U)
    BY <1>7, <1>13, StillUntouched
  <2>2. Untouched(m, h7.mem, s, U)
    BY <1>18, <2>1, StillUntouched
  <2>3. Untouched(m, h9.mem, s, U)
    BY <1>27, <2>2, StillUntouched
  <2> QED
    BY <1>32, <2>3, StillUntouched
<1>35. Granted(h10, n, k, m, s, U)
  BY Zenon, <1>11, <1>12, <1>32, <1>33, <1>34 DEF Granted
<1> QED
  BY <1>1, <1>12, <1>35

\* The process died in `assert(offset)'.
Asserted(g, m0, s0, W) ==
  g.abort = "offset" /\ g.mem \in Memory /\ Untouched(m0, g.mem, s0, W)

\* OffsetToPtr of 0 ends the process, and memory stays.
LEMMA ZeroAsserts ==
  ASSUME NEW h, Runs(h), NEW g, g = Access(h, 0)
  PROVE  g.abort = "offset" /\ g.abort # "none" /\ g.mem = h.mem
<1>1. g = Die(h, "offset")
  BY Zenon DEF Access
<1>2. h = [mem |-> h.mem, mods |-> h.mods, abort |-> h.abort] /\ g = [h EXCEPT !.abort = "offset"]
  BY Zenon, <1>1 DEF Die, Runs
<1>3. g = [mem |-> h.mem, mods |-> h.mods, abort |-> "offset"]
  BY Zenon, <1>2
<1> QED
  BY <1>3

\* A process that has ended stores nothing.
LEMMA DeadWrites ==
  \A g, a, v, h : g.abort # "none" /\ h = Write(g, a, v) => h = g
  BY Zenon, DeadStays

\* A rest of 16 bytes belongs to the list at offset 0, which Read cannot read.
LEMMA SplitAsserts ==
  ASSUME NEW h, Runs(h), NEW B, NEW s, NEW U \in SUBSET B, Sound(h.mem, B, s, B \ U),
         NEW x \in B \ U, h.mem[x + 4] = 0, NEW k \in Nat, s[x] - k = 16
  PROVE  Asserted(SplitBlock(h, x, s[x], k).heap, h.mem, s, U)
<1> PICK F, m, l : F = B \ U /\ m = h.mem /\ l = Class(s, x)
  BY Zenon
<1> DEFINE next_blk == Read(h, NextField(x))
           new_size == s[x] - k
           h0 == Check(Access(h, NextField(x)), s[x] > k)
           h1 == Write(h0, GetFreeListByBlockSize(s[x]), next_blk)
           h2 == IF next_blk # 0 THEN Write(h1, PrevField(next_blk), 0) ELSE h1
           h3 == SetSize(h2, x, new_size)
           free_list == GetFreeListByBlockSize(new_size)
           head == Read(h3, free_list)
           d == Access(h3, free_list)
           h4 == Write(d, PrevField(x), 0)
           h5 == Write(h4, NextField(x), head)
           h6 == Write(h5, free_list, x)
           h7 == IF head # 0 THEN Write(h6, PrevField(head), x) ELSE h6
           h8 == Write(h7, x + new_size, kFreeMask + k)
           h9 == Write(h8, x + s[x] - 4, k)
           h10 == ResetTheFreeTag(h9, x + new_size, k)
<1>1. SplitBlock(h, x, s[x], k) = [heap |-> h10, blk |-> x + new_size]
  BY Zenon DEF SplitBlock
<1>2. /\ Layout(B, s) /\ Part(m, B, s, F, {}) /\ x \in B /\ x \in F
      /\ U \in SUBSET (B \ {x}) /\ U \cap F = {} /\ F \subseteq B
  BY Zenon DEF Sound, Part
<1>3. /\ x \in Nat /\ s[x] \in Nat /\ s[x] >= 32 /\ x + 8 \in Offsets \ {0} /\ x \in Offsets \ {0}
      /\ m[x + 8] = next_blk /\ new_size = 16 /\ x + s[x] <= LastTag /\ LastTag \in Nat
  BY Zenon, <1>2, BlockWords DEF Read, NextField
<1>4. h0 = h
  BY <1>3, AccessRuns DEF Check, NextField
<1>5. h2 = TakeHead(h, l, next_blk)
  BY Zenon, <1>4 DEF TakeHead, PrevField, Class
<1> HIDE DEF next_blk, h0, h1, h2
<1>6. Delisted(h, h2, B, s, F, F \ {x}, {} \cup {x})
  BY Zenon, <1>2, <1>3, <1>5, TakeHeadPart
<1>7. Runs(h2) /\ Untouched(m, h2.mem, s, U)
  BY Zenon, <1>2, <1>6 DEF Delisted
<1>8. PICK f, v, h2a : /\ f = x + 12 /\ v = KeepTag(Read(h2, x), 16) /\ h2a = Write(h2, x, v)
  BY Zenon
<1>9. f \in Offsets \ {0} /\ v \in Int /\ 16 \in Int
  <2>1. x % 4 = 0
    BY Zenon, <1>3, AlignedOffsets DEF Aligned
  <2>2. Aligned(f) /\ f <= LastTag /\ f # 0
    BY <1>3, <1>8, <2>1 DEF Aligned
  <2>3. Read(h2, x) \in Int
    BY Zenon, <1>3, <1>7 DEF Read, Runs, Memory
  <2>4. kFreeMask \in Nat
    BY Zenon, SizeAssumption
  <2> QED
    BY <1>8, <2>2, <2>3, <2>4, AlignedOffsets DEF KeepTag
<1>10. h3 = Write(h2a, f, 16)
  BY <1>3, <1>8 DEF SetSize
<1> HIDE DEF h3, new_size
<1>11. Wrote(h2, h2a, x, v) /\ Runs(h2a)
  BY <1>3, <1>7, <1>8, <1>9, WrittenTo
<1>12. Wrote(h2a, h3, f, 16) /\ Runs(h3)
  BY <1>9, <1>10, <1>11, WrittenTo
<1>13. Untouched(h2.mem, h3.mem, s, U)
  <2>1. SUFFICES ASSUME NEW u \in U, NEW a \in Offsets, u + 4 <= a, a + 8 <= u + s[u]
                 PROVE  h3.mem[a] = h2.mem[a]
    BY Zenon DEF Untouched
  <2>2. u \in Nat /\ s[u] \in Nat /\ a \in Nat
    BY Zenon, <1>2, BlockWords, AlignedOffsets DEF Aligned
  <2>3. x + s[x] <= u \/ u + s[u] <= x
    BY Zenon, <1>2, Apart
  <2>4. a # x /\ a # f
    BY <1>3, <1>8, <2>1, <2>2, <2>3
  <2> QED
    BY Zenon, <1>11, <1>12, <2>4 DEF Wrote
<1>14. Untouched(m, h3.mem, s, U)
  BY Zenon, <1>7, <1>13, StillUntouched
<1>15. free_list = 0
  BY <1>3, SizeAssumption DEF GetFreeListByBlockSize
<1>16. d.abort = "offset" /\ d.abort # "none" /\ d.mem = h3.mem
  BY Zenon, <1>12, <1>15, ZeroAsserts
<1> HIDE DEF d, head, free_list
<1>17. h4 = d /\ h5 = d /\ h6 = d
  BY <1>16, DeadWrites
<1> HIDE DEF h4, h5, h6
<1>18. h7 = d
  BY Zenon, <1>16, <1>17, DeadWrites
<1> HIDE DEF h7
<1>19. h8 = d /\ h9 = d
  BY <1>16, <1>18, DeadWrites
<1> HIDE DEF h8, h9
<1>20. h10 = d
  BY <1>16, <1>19, DeadWrites DEF ResetTheFreeTag
<1> HIDE DEF h10
<1> QED
  BY <1>1, <1>12, <1>14, <1>16, <1>20 DEF Asserted, Runs

=============================================================================
