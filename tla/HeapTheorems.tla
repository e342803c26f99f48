---------------------------- MODULE HeapTheorems ----------------------------
(***************************************************************************)
(* What a reader of the tags and the lists of the allocator's heap finds,  *)
(* for every heap size, every size class table and every sequence of       *)
(* operations, from the invariant of HeapProofs: the walk along the size   *)
(* tags passes all blocks and ends at the last tag word, the free tags     *)
(* tell which blocks are in use, and every free list ends and holds free   *)
(* blocks of its class.                                                    *)
(*                                                                         *)
(* Walk and list are recursive functions of the memory. That they are well *)
(* defined, and what they return, is shown by induction, in the form that  *)
(* a set of numbers has a least element.                                   *)
(***************************************************************************)
EXTENDS HeapProofs

\* The words that a walk along the size tags visits.
Words == {a \in Offsets : a <= LastTag}

\* One step of the walk along the size tags in m, when f has the rest.
WalkFrom(m, f, b) ==
  LET size == SizeOf(m[b])
  IN  IF b = LastTag THEN {}
      ELSE IF size >= 16 /\ size % 16 = 0 /\ b + size <= LastTag
           THEN {b} \cup f[b + size] ELSE {b}

\* f[b] has the blocks that the walk from b meets.
Walks(m, f) == f = [b \in Words |-> WalkFrom(m, f, b)]

\* Blocks is what the walk from the first block meets.
LEMMA BlocksWalk == Blocks = (CHOOSE f : Walks(Mem, f))[FirstBlock]
BY Zenon DEF Blocks, Walks, WalkFrom, Words

\* What is known of those words.
LEMMA WordFacts ==
  /\ LastTag \in Words /\ LastTag \in Nat
  /\ \A b \in Words : b \in Nat /\ b % 4 = 0 /\ b <= LastTag /\ b \in Offsets
BY Geometry, AlignedOffsets DEF Words, Aligned

\* A step needs the walk from later words only.
LEMMA WalkOn ==
  ASSUME NEW m \in Memory, NEW f, NEW g, NEW b \in Words,
         \A c \in Words : b < c => f[c] = g[c]
  PROVE  WalkFrom(m, f, b) = WalkFrom(m, g, b)
<1>1. PICK size : size = SizeOf(m[b])
  BY Zenon
<1>2. size \in Int /\ b \in Nat /\ b % 4 = 0
  <2>1. m[b] \in Int
    BY Zenon, WordFacts DEF Memory
  <2> QED
    <3>1. kFreeMask \in Nat
      BY Zenon, SizeAssumption
    <3>2. \A w \in Int : SizeOf(w) \in Int
      BY ONLY <3>1 DEF SizeOf
    <3> QED
      BY Zenon, <1>1, <2>1, <3>2, WordFacts
<1>3. ASSUME size >= 16, size % 16 = 0, b + size <= LastTag
      PROVE  b + size \in Words /\ b < b + size
  <2>1. Aligned(b + size)
    BY <1>2, <1>3 DEF Aligned
  <2> QED
    BY <1>2, <1>3, <2>1, AlignedOffsets DEF Words
<1> QED
  BY Zenon, <1>1, <1>3 DEF WalkFrom

\* f is right from the word at b on.
WalksFrom(m, f, b) ==
  /\ f = [c \in Words |-> f[c]]
  /\ \A c \in Words : b <= c => f[c] = WalkFrom(m, f, c)

\* The walk is defined from every word: the tags lead upwards to LastTag.
LEMMA WalkExists ==
  ASSUME NEW m \in Memory PROVE \E f : Walks(m, f)
<1> DEFINE Bad == {n \in Nat : n <= LastTag /\ ~ \E f : WalksFrom(m, f, LastTag - n)}
<1>1. ASSUME Bad # {} PROVE FALSE
  <2>1. PICK n \in Bad : \A k \in Bad : n <= k
    <3> HIDE DEF Bad
    <3>1. Bad \subseteq Nat
      BY Zenon DEF Bad
    <3> QED
      BY Zenon, <1>1, <3>1, Least
  <2>2. PICK b : b = LastTag - n
    BY Zenon
  <2>3. b \in Nat /\ n \in Nat /\ n <= LastTag /\ ~ \E f : WalksFrom(m, f, b)
    BY <2>1, <2>2, WordFacts
  <2>4. PICK f : /\ f = [c \in Words |-> f[c]]
                 /\ \A c \in Words : b < c => f[c] = WalkFrom(m, f, c)
    <3>1. CASE n = 0
      <4>1. \A c \in Words : ~(b < c)
        BY <2>2, <3>1, WordFacts
      <4>2. PICK f : f = [c \in Words |-> {}]
        BY Zenon
      <4>3. f = [c \in Words |-> f[c]]
        BY Zenon, <4>2
      <4> QED
        BY Zenon, <4>1, <4>3
    <3>2. CASE n # 0
      <4>1. n - 1 \in Nat /\ n - 1 \notin Bad /\ n - 1 <= LastTag
        BY <2>1, <2>3, <3>2, WordFacts
      <4>2. PICK f : WalksFrom(m, f, LastTag - (n - 1))
        BY Zenon, <4>1
      <4>3. \A c \in Words : b < c => LastTag - (n - 1) <= c
        BY <2>2, <2>3, WordFacts
      <4> QED
        BY Zenon, <4>2, <4>3 DEF WalksFrom
    <3> QED
      BY Zenon, <3>1, <3>2
  <2>5. PICK g : g = [c \in Words |-> IF c = b THEN WalkFrom(m, f, b) ELSE f[c]]
    BY Zenon
  <2>6. ASSUME NEW c \in Words, b <= c PROVE g[c] = WalkFrom(m, g, c)
    <3>1. \A d \in Words : c < d => f[d] = g[d]
      BY <2>3, <2>5, <2>6, WordFacts
    <3>2. WalkFrom(m, f, c) = WalkFrom(m, g, c)
      BY Zenon, <3>1, WalkOn
    <3>3. c = b \/ b < c
      BY <2>3, <2>6, WordFacts
    <3> QED
      BY Zenon, <2>4, <2>5, <3>2, <3>3
  <2>7. g = [c \in Words |-> g[c]]
    BY Zenon, <2>5
  <2> QED
    BY Zenon, <2>3, <2>6, <2>7 DEF WalksFrom
<1>2. PICK f : WalksFrom(m, f, 0)
  <2>1. LastTag - LastTag = 0 /\ LastTag \in Nat /\ LastTag <= LastTag
    BY WordFacts
  <2>2. LastTag \notin Bad
    <3> HIDE DEF Bad
    <3> QED
      BY Zenon, <1>1
  <2> QED
    BY Zenon, <2>1, <2>2
<1>3. \A c \in Words : f[c] = WalkFrom(m, f, c)
  BY <1>2, WordFacts DEF WalksFrom
<1>4. f = [c \in Words |-> WalkFrom(m, f, c)]
  BY Zenon, <1>2, <1>3 DEF WalksFrom
<1> QED
  BY Zenon, <1>4 DEF Walks

\* In a sound heap the walk meets every block from where it starts.
LEMMA WalkMeets ==
  ASSUME NEW m, NEW B, NEW s, NEW F, Sound(m, B, s, F), NEW f, Walks(m, f)
  PROVE  \A b \in B : f[b] = {c \in B : b <= c}
<1> DEFINE Rest(b) == {c \in B : b <= c}
           Bad == {n \in Nat : \E b \in B : n = LastTag - b /\ f[b] # Rest(b)}
<1>1. /\ Layout(B, s) /\ B \subseteq Words /\ LastTag \in Nat /\ LastTag \in Words
      /\ \A b \in B : /\ b \in Nat /\ s[b] \in Nat /\ s[b] >= 32 /\ s[b] % 16 = 0
                      /\ b + s[b] <= LastTag /\ b + s[b] \in B \cup {LastTag}
                      /\ SizeOf(m[b]) = s[b]
  <2>1. Layout(B, s) /\ \A b \in B : Marked(m, s, F, b)
    BY Zenon DEF Sound, Part
  <2>2. \A b \in B : /\ b \in Offsets /\ s[b] \in Nat /\ s[b] >= 32 /\ s[b] % 16 = 0
                     /\ b + s[b] <= LastTag /\ b + s[b] \in B \cup {LastTag}
    BY Zenon, <2>1 DEF Layout
  <2>3. \A b \in B : b \in Nat
    BY Zenon, <2>1, BlockWords
  <2>4. \A b \in B : b <= LastTag
    BY <2>2, <2>3, WordFacts
  <2> QED
    BY Zenon, <2>1, <2>2, <2>3, <2>4, WordFacts DEF Words, Marked
<1>2. \A b \in Words : f[b] = WalkFrom(m, f, b)
  BY Zenon DEF Walks
<1>3. ASSUME NEW b \in B PROVE f[b] = {b} \cup f[b + s[b]] /\ b # LastTag
  <2>1. b # LastTag
    BY <1>1
  <2>2. f[b] = WalkFrom(m, f, b)
    BY Zenon, <1>1, <1>2
  <2>3. s[b] >= 16 /\ s[b] % 16 = 0 /\ b + s[b] <= LastTag /\ SizeOf(m[b]) = s[b]
    BY <1>1
  <2> QED
    BY ONLY <2>1, <2>2, <2>3 DEF WalkFrom
<1>4. f[LastTag] = {}
  BY Zenon, <1>1, <1>2 DEF WalkFrom
<1>5. ASSUME NEW b \in B PROVE \A c \in B : b <= c <=> c = b \/ b + s[b] <= c
  BY <1>1, <1>5 DEF Layout
<1>6. ASSUME Bad # {} PROVE FALSE
  <2>1. PICK n \in Bad : \A k \in Bad : n <= k
    <3>1. Bad \subseteq Nat
      BY Zenon
    <3> HIDE DEF Bad
    <3> QED
      BY Zenon, <1>6, <3>1, Least
  <2>2. PICK b \in B : n = LastTag - b /\ f[b] # Rest(b)
    BY Zenon, <2>1
  <2>3. CASE b + s[b] = LastTag
    <3>1. Rest(b) = {b}
      <4>1. ASSUME NEW c \in B, b <= c PROVE c = b
        <5>1. c = b \/ LastTag <= c
          BY Zenon, <1>5, <2>3, <4>1
        <5>2. c \in Nat /\ s[c] \in Nat /\ s[c] >= 32 /\ c + s[c] <= LastTag /\ LastTag \in Nat
          BY Zenon, <1>1
        <5>3. ~(LastTag <= c)
          BY ONLY <5>2
        <5> QED
          BY Zenon, <5>1, <5>3
      <4>2. b <= b
        <5>1. b \in Nat
          BY Zenon, <1>1
        <5> QED
          BY ONLY <5>1
      <4> QED
        BY Zenon, <4>1, <4>2
    <3> QED
      BY Zenon, <1>3, <1>4, <2>2, <2>3, <3>1
  <2>4. CASE b + s[b] \in B
    <3>1. LastTag - (b + s[b]) \in Nat /\ ~(n <= LastTag - (b + s[b]))
      BY <1>1, <2>2
    <3>2. LastTag - (b + s[b]) \notin Bad
      BY Zenon, <2>1, <3>1
    <3>3. f[b + s[b]] = Rest(b + s[b])
      BY Zenon, <2>4, <3>1, <3>2
    <3>4. Rest(b) = {b} \cup Rest(b + s[b])
      BY Zenon, <1>1, <1>5
    <3> QED
      BY Zenon, <1>3, <2>2, <3>3, <3>4
  <2> QED
    BY Zenon, <1>1, <2>3, <2>4
<1>7. ASSUME NEW b \in B PROVE f[b] = Rest(b)
  <2>1. LastTag - b \in Nat
    BY <1>1
  <2>2. LastTag - b \notin Bad
    <3> HIDE DEF Bad
    <3> QED
      BY Zenon, <1>6
  <2> QED
    BY Zenon, <2>1, <2>2
<1> QED
  BY Zenon, <1>7

\* In a sound heap the walk meets exactly the blocks that tile it.
LEMMA BlocksAre ==
  ASSUME NEW B, NEW s, NEW F, Sound(Mem, B, s, F) PROVE Blocks = B
<1>1. Mem \in Memory /\ Layout(B, s)
  BY Zenon DEF Sound, Part
<1>2. Walks(Mem, CHOOSE f : Walks(Mem, f))
  BY Zenon, <1>1, WalkExists
<1>3. PICK f : Walks(Mem, f) /\ Blocks = f[FirstBlock]
  BY Zenon, <1>2, BlocksWalk
<1>4. FirstBlock \in B /\ \A b \in B : FirstBlock <= b
  BY Zenon, <1>1 DEF Layout
<1> QED
  BY <1>3, <1>4, WalkMeets

\* The blocks of a running allocator.
LEMMA RunningBlocks ==
  ASSUME HeapInv, Running
  PROVE  \E s : /\ Sound(Mem, Blocks, s, Blocks \ Used(live)) /\ Blocked(live, Blocks, s)
                /\ \A b \in Blocks : BlockSize(b) = s[b]
<1>1. PICK B, s : Sound(Mem, B, s, B \ Used(live)) /\ Blocked(live, B, s)
  BY Zenon DEF HeapInv, Good, Running, Accounted, Mem
<1>2. Blocks = B
  BY Zenon, <1>1, BlocksAre
<1>3. \A b \in B : SizeOf(Mem[b]) = s[b]
  BY Zenon, <1>1 DEF Sound, Part, Marked
<1> QED
  BY Zenon, <1>1, <1>2, <1>3 DEF BlockSize

\* The last block ends where the last tag word is.
LEMMA LastBlock ==
  ASSUME NEW B, NEW s, Layout(B, s) PROVE \E b \in B : b + s[b] = LastTag
<1>1. \A b \in B : b \in Nat /\ s[b] \in Nat /\ s[b] >= 32 /\ b + s[b] <= LastTag /\ LastTag \in Nat
  BY Zenon, BlockWords
<1>2. PICK N : N = {LastTag - b : b \in B}
  BY Zenon
<1>3. N \subseteq Nat /\ N # {}
  BY <1>1, <1>2 DEF Layout
<1>4. PICK n \in N : \A k \in N : n <= k
  BY Zenon, <1>3, Least
<1>5. PICK b \in B : n = LastTag - b
  BY Zenon, <1>2
<1>6. b + s[b] \notin B
  <2>1. ASSUME b + s[b] \in B PROVE FALSE
    <3>1. n <= LastTag - (b + s[b])
      BY Zenon, <1>2, <1>4, <2>1
    <3> QED
      BY <1>1, <1>5, <3>1
  <2> QED
    BY Zenon, <2>1
<1> QED
  BY Zenon, <1>6 DEF Layout

\* Splitting and merging never lose track of a byte.
THEOREM TagsTile ==
  ASSUME ObjectsSpareFooters PROVE Spec => []BlocksTileHeap
<1>1. HeapInv => BlocksTileHeap
  <2> SUFFICES ASSUME HeapInv, Running
               PROVE  /\ \E b \in Blocks : b + BlockSize(b) = LastTag
                      /\ \A p \in DOMAIN live : /\ p - 4 \in Blocks
                                                /\ live[p].size + 4 <= BlockSize(p - 4)
    BY Zenon DEF BlocksTileHeap
  <2>1. PICK s : /\ Sound(Mem, Blocks, s, Blocks \ Used(live)) /\ Blocked(live, Blocks, s)
                 /\ \A b \in Blocks : BlockSize(b) = s[b]
    BY Zenon, RunningBlocks
  <2>2. Layout(Blocks, s)
    BY Zenon, <2>1 DEF Sound, Part
  <2>3. \E b \in Blocks : b + BlockSize(b) = LastTag
    BY Zenon, <2>1, <2>2, LastBlock
  <2>4. ASSUME NEW p \in DOMAIN live
        PROVE  p - 4 \in Blocks /\ live[p].size + 4 <= BlockSize(p - 4)
    <3>1. p - 4 \in Blocks /\ live[p].size + 8 <= s[p - 4]
      BY Zenon, <2>1 DEF Blocked, Used, Ahead
    <3>2. live[p].size \in Nat /\ s[p - 4] \in Nat
      BY Zenon, <2>2, <3>1, SizeFacts DEF HeapInv, Good, Kept, Layout
    <3> QED
      BY <2>1, <3>1, <3>2
  <2> QED
    BY Zenon, <2>3, <2>4
<1>2. HeapInv /\ [Next]_vars => HeapInv'
  BY Zenon, NextGood
<1> QED
  BY <1>1, <1>2, InitGood, PTL DEF Spec

\* The free tag of a block is set exactly while nobody holds the block.
THEOREM TagsAgree ==
  ASSUME ObjectsSpareFooters PROVE Spec => []FreeTagsAgree
<1>1. HeapInv => FreeTagsAgree
  <2> SUFFICES ASSUME HeapInv, Running, NEW b \in Blocks
               PROVE  /\ Tagged(Mem[b + BlockSize(b)]) <=> ~IsLive(b)
                      /\ ~IsLive(b) => Mem[b + BlockSize(b) - 4] = BlockSize(b)
    BY Zenon DEF FreeTagsAgree
  <2>1. PICK s : /\ Sound(Mem, Blocks, s, Blocks \ Used(live)) /\ Blocked(live, Blocks, s)
                 /\ \A c \in Blocks : BlockSize(c) = s[c]
    BY Zenon, RunningBlocks
  <2>2. Marked(Mem, s, Blocks \ Used(live), b) /\ Layout(Blocks, s)
    BY Zenon, <2>1 DEF Sound, Part
  <2>3. b \in Used(live) <=> IsLive(b)
    <3>1. b \in Nat /\ \A p \in DOMAIN live : p \in Nat
      BY Zenon, <2>2, BlockWords, AlignedOffsets DEF HeapInv, Good, Kept, Aligned
    <3>2. \A p \in DOMAIN live : b = p - 4 <=> p = b + 4
      BY <3>1
    <3>3. (b + 4) - 4 = b
      BY <3>1
    <3> QED
      BY Zenon, <3>2, <3>3 DEF Used, Ahead, IsLive
  <2> QED
    BY Zenon, <2>1, <2>2, <2>3 DEF Marked
<1>2. HeapInv /\ [Next]_vars => HeapInv'
  BY Zenon, NextGood
<1> QED
  BY <1>1, <1>2, InitGood, PTL DEF Spec

\* The i-th block of a list, when f has the ones before.
Follow(h, list, f, i) ==
  IF i = 0 THEN h.mem[list]
  ELSE IF f[i - 1] = 0 THEN 0 ELSE Read(h, NextField(f[i - 1]))

\* f has the first n blocks of a list, and 0 behind its end.
Chain(h, list, f, n) == f = [i \in 0..n |-> Follow(h, list, f, i)]

\* ListAt follows the chain.
LEMMA ListAtChain ==
  ASSUME NEW list, NEW n
  PROVE  ListAt(list, n) = (CHOOSE f : Chain(heap, list, f, n))[n]
BY Zenon DEF ListAt, Chain, Follow, Mem

\* A list can be followed for any number of steps.
LEMMA ChainExists ==
  ASSUME NEW h, NEW list, NEW n \in Nat PROVE \E f : Chain(h, list, f, n)
<1> DEFINE Bad == {k \in Nat : ~ \E f : Chain(h, list, f, k)}
<1>1. ASSUME Bad # {} PROVE FALSE
  <2>1. PICK k \in Bad : \A j \in Bad : k <= j
    <3>1. Bad \subseteq Nat
      BY Zenon
    <3> HIDE DEF Bad
    <3> QED
      BY Zenon, <1>1, <3>1, Least
  <2>2. k \in Nat /\ ~ \E f : Chain(h, list, f, k)
    BY Zenon, <2>1
  <2>3. CASE k = 0
    <3>1. PICK f : f = [i \in 0..0 |-> h.mem[list]]
      BY Zenon
    <3>2. f = [i \in 0..0 |-> Follow(h, list, f, i)]
      BY <3>1 DEF Follow
    <3> QED
      BY Zenon, <2>2, <2>3, <3>2 DEF Chain
  <2>4. CASE k # 0
    <3>1. k - 1 \in Nat /\ ~(k <= k - 1)
      BY <2>2, <2>4
    <3>2. PICK f : Chain(h, list, f, k - 1)
      BY Zenon, <2>1, <3>1
    <3>3. PICK g : g = [i \in 0..k |-> IF i = k THEN Follow(h, list, f, k) ELSE f[i]]
      BY Zenon
    <3>4. ASSUME NEW i \in 0..k PROVE g[i] = Follow(h, list, g, i)
      <4>1. Follow(h, list, f, i) = Follow(h, list, g, i)
        <5>1. CASE i = 0
          BY Zenon, <5>1 DEF Follow
        <5>2. CASE i # 0
          <6>1. i - 1 \in 0..k /\ i - 1 # k
            BY <2>2, <5>2
          <6>2. g[i - 1] = f[i - 1]
            BY Zenon, <3>3, <6>1
          <6> QED
            BY Zenon, <6>2 DEF Follow
        <5> QED
          BY Zenon, <5>1, <5>2
      <4>2. i # k => i \in 0..(k - 1)
        BY <2>2
      <4>3. i # k => f[i] = Follow(h, list, f, i)
        BY Zenon, <3>2, <4>2 DEF Chain
      <4> QED
        BY Zenon, <3>3, <4>1, <4>3
    <3>5. g = [i \in 0..k |-> Follow(h, list, g, i)]
      BY Zenon, <3>3, <3>4
    <3> QED
      BY Zenon, <2>2, <3>5 DEF Chain
  <2> QED
    BY Zenon, <2>3, <2>4
<1> QED
  <2>1. n \notin Bad
    <3> HIDE DEF Bad
    <3> QED
      BY Zenon, <1>1
  <2> QED
    BY Zenon, <2>1

\* Following a list for longer does not change the blocks met before.
LEMMA ChainUnique ==
  ASSUME NEW h, NEW list, NEW f, NEW g, NEW n \in Nat, NEW k \in Nat, k <= n,
         Chain(h, list, f, n), Chain(h, list, g, k)
  PROVE  f[k] = g[k]
<1> DEFINE Bad == {i \in Nat : i <= k /\ f[i] # g[i]}
<1>1. ASSUME Bad # {} PROVE FALSE
  <2>1. PICK i \in Bad : \A j \in Bad : i <= j
    <3>1. Bad \subseteq Nat
      BY Zenon
    <3> HIDE DEF Bad
    <3> QED
      BY Zenon, <1>1, <3>1, Least
  <2>2. i \in 0..k /\ i \in 0..n /\ f[i] # g[i] /\ i \in Nat
    BY <2>1
  <2>3. f[i] = Follow(h, list, f, i) /\ g[i] = Follow(h, list, g, i)
    BY Zenon, <2>2 DEF Chain
  <2>4. i # 0 => f[i - 1] = g[i - 1]
    BY <2>1
  <2> QED
    BY Zenon, <2>2, <2>3, <2>4 DEF Follow
<1>2. k \notin Bad
  <2> HIDE DEF Bad
  <2> QED
    BY Zenon, <1>1
<1> QED
  BY <1>2

\* So the blocks of a list are those of one chain.
LEMMA ListChain ==
  ASSUME NEW list, NEW n \in Nat
  PROVE  \E f : Chain(heap, list, f, n) /\ \A k \in 0..n : ListAt(list, k) = f[k]
<1>1. PICK f : Chain(heap, list, f, n)
  BY Zenon, ChainExists
<1>2. ASSUME NEW k \in 0..n PROVE ListAt(list, k) = f[k]
  <2>1. PICK g : g = CHOOSE e : Chain(heap, list, e, k)
    BY Zenon
  <2>2. Chain(heap, list, g, k) /\ ListAt(list, k) = g[k]
    BY <2>1, ChainExists, ListAtChain
  <2>3. k \in Nat /\ k <= n
    OBVIOUS
  <2> QED
    BY <1>1, <2>2, <2>3, ChainUnique
<1> QED
  BY Zenon, <1>1, <1>2

\* n + 1 things do not fit into n places.
Fits(f, n) ==
  /\ \A i \in 0..n : f[i] \in 0..(n - 1)
  /\ \A i, j \in 0..n : f[i] = f[j] => i = j

\* n + 1 numbers below n are not all different.
LEMMA Pigeons ==
  ASSUME NEW n \in Nat, NEW f, Fits(f, n) PROVE FALSE
<1> DEFINE Bad == {k \in Nat : \E g : Fits(g, k)}
<1>1. PICK k \in Bad : \A j \in Bad : k <= j
  <2>1. Bad \subseteq Nat /\ n \in Bad
    BY Zenon
  <2> HIDE DEF Bad
  <2> QED
    BY Zenon, <2>1, Least
<1>2. PICK g : Fits(g, k)
  BY Zenon, <1>1
<1>3. k \in Nat /\ k \in 0..k /\ k # 0
  <2>1. k \in Nat /\ k \in 0..k
    BY <1>1
  <2>2. g[k] \in 0..(k - 1)
    BY Zenon, <1>2, <2>1 DEF Fits
  <2> QED
    BY <2>1, <2>2
<1>4. PICK e : e = [i \in 0..(k - 1) |-> IF g[i] = k - 1 THEN g[k] ELSE g[i]]
  BY Zenon
<1>5. \A i \in 0..(k - 1) : i \in 0..k /\ i # k
  BY <1>3
<1>6. ASSUME NEW i \in 0..(k - 1) PROVE e[i] \in 0..((k - 1) - 1)
  <2>1. g[i] \in 0..(k - 1) /\ g[k] \in 0..(k - 1) /\ g[i] # g[k]
    BY Zenon, <1>2, <1>3, <1>5 DEF Fits
  <2>2. e[i] \in 0..(k - 1) /\ e[i] # k - 1
    BY Zenon, <1>4, <2>1
  <2> QED
    BY <1>3, <2>2
<1>7. ASSUME NEW i \in 0..(k - 1), NEW j \in 0..(k - 1), e[i] = e[j] PROVE i = j
  <2>1. g[i] # g[k] /\ g[j] # g[k] /\ (g[i] = g[j] => i = j)
    BY Zenon, <1>2, <1>3, <1>5 DEF Fits
  <2> QED
    BY Zenon, <1>4, <1>7, <2>1
<1>8. k - 1 \in Nat /\ Fits(e, k - 1) /\ ~(k <= k - 1)
  BY <1>3, <1>6, <1>7 DEF Fits
<1> QED
  BY Zenon, <1>1, <1>8

\* What a chain of a sound heap consists of.
Linked(m, s, F, list, f, i) ==
  /\ f[i] \in F /\ Class(s, f[i]) = list
  /\ m[f[i] + 4] = IF i = 0 THEN 0 ELSE f[i - 1]
  /\ i # 0 => f[i - 1] # 0

\* Every block met on a list is free, of its class, and names the one before.
LEMMA ChainLinked ==
  ASSUME NEW h, NEW B, NEW s, NEW F, Sound(h.mem, B, s, F), NEW list \in Lists,
         NEW n \in Nat, NEW f, Chain(h, list, f, n)
  PROVE  \A i \in 0..n : f[i] = 0 \/ Linked(h.mem, s, F, list, f, i)
<1> DEFINE Bad == {i \in Nat : i <= n /\ f[i] # 0 /\ ~Linked(h.mem, s, F, list, f, i)}
<1>1. Layout(B, s) /\ Links(h.mem, s, F) /\ F \subseteq B
  BY Zenon DEF Sound, Part
<1>2. ASSUME Bad # {} PROVE FALSE
  <2>1. PICK i \in Bad : \A j \in Bad : i <= j
    <3>1. Bad \subseteq Nat
      BY Zenon
    <3> HIDE DEF Bad
    <3> QED
      BY Zenon, <1>2, <3>1, Least
  <2>2. i \in Nat /\ i \in 0..n /\ f[i] # 0 /\ ~Linked(h.mem, s, F, list, f, i)
    BY <2>1
  <2>3. f[i] = Follow(h, list, f, i)
    BY Zenon, <2>2 DEF Chain
  <2>4. CASE i = 0
    <3>1. IsHead(h.mem, s, F, list, f[0])
      BY Zenon, <1>1, <2>2, <2>3, <2>4 DEF Follow, Links
    <3> QED
      BY Zenon, <2>2, <2>4, <3>1 DEF IsHead, Linked
  <2>5. CASE i # 0
    <3>1. PICK b : b = f[i - 1]
      BY Zenon
    <3>2. b # 0 /\ f[i] = Read(h, NextField(b))
      BY Zenon, <2>2, <2>3, <2>5, <3>1 DEF Follow
    <3>3. i - 1 \in Nat /\ i - 1 <= n /\ ~(i <= i - 1)
      BY <2>2, <2>5
    <3>4. Linked(h.mem, s, F, list, f, i - 1)
      BY Zenon, <2>1, <3>1, <3>2, <3>3
    <3>5. b \in F /\ Class(s, b) = list
      BY Zenon, <3>1, <3>4 DEF Linked
    <3>6. f[i] = h.mem[b + 8]
      <4>1. b + 8 \in Offsets
        BY Zenon, <1>1, <3>5, BlockWords
      <4> QED
        BY Zenon, <3>2, <4>1 DEF Read, NextField
    <3>7. LinkedOn(h.mem, s, F, b, f[i])
      BY Zenon, <1>1, <2>2, <3>5, <3>6 DEF Links
    <3> QED
      BY Zenon, <2>2, <2>5, <3>1, <3>2, <3>5, <3>7 DEF LinkedOn, Linked
  <2> QED
    BY Zenon, <2>4, <2>5
<1>3. ASSUME NEW i \in 0..n PROVE f[i] = 0 \/ Linked(h.mem, s, F, list, f, i)
  <2>1. i \notin Bad
    <3> HIDE DEF Bad
    <3> QED
      BY Zenon, <1>2
  <2> QED
    BY <2>1
<1> QED
  BY Zenon, <1>3

\* The place of a block among as many as the heap can have.
LEMMA BlockPlaces ==
  ASSUME NEW B, NEW s, Layout(B, s), NEW b \in B, NEW c \in B
  PROVE  /\ (b - FirstBlock) \div 16 \in 0..(MaxBlocks - 1)
         /\ (b - FirstBlock) \div 16 = (c - FirstBlock) \div 16 => b = c
<1>1. /\ b \in Nat /\ s[b] \in Nat /\ s[b] >= 32 /\ FirstBlock <= b /\ b + s[b] <= LastTag
      /\ c \in Nat /\ s[c] \in Nat /\ s[c] >= 32 /\ FirstBlock <= c /\ c + s[c] <= LastTag
      /\ FirstBlock \in Nat /\ LastTag \in Nat
  BY Zenon, BlockWords
<1>2. PICK x, y, z \in Nat : x = b - FirstBlock /\ y = c - FirstBlock /\ z = LastTag - FirstBlock
  BY <1>1
<1>3. x + 32 <= z /\ (b # c => x + 32 <= y \/ y + 32 <= x)
  <2>1. b # c => b + s[b] <= c \/ c + s[c] <= b
    BY Zenon, Apart
  <2> QED
    BY ONLY <1>1, <1>2, <2>1
<1>4. PICK i, j, k \in Nat : /\ i = x \div 16 /\ j = y \div 16 /\ k = z \div 16
                             /\ 16 * i <= x /\ x < 16 * i + 16 /\ 16 * j <= y /\ y < 16 * j + 16
                             /\ 16 * k <= z /\ z < 16 * k + 16
  BY ONLY <1>2
<1>5. i \in 0..(k - 1) /\ (i = j => b = c)
  BY ONLY <1>3, <1>4, <1>2
<1> QED
  BY Zenon, <1>2, <1>4, <1>5 DEF MaxBlocks

\* A list ends after at most as many blocks as there are.
LEMMA ChainEnds ==
  ASSUME NEW h, NEW B, NEW s, NEW F, Sound(h.mem, B, s, F), NEW list \in Lists,
         NEW n \in Nat, n = MaxBlocks, NEW f, Chain(h, list, f, n)
  PROVE  f[n] = 0
<1> SUFFICES ASSUME f[n] # 0 PROVE FALSE
  BY Zenon
<1>1. \A i \in 0..n : f[i] = 0 \/ Linked(h.mem, s, F, list, f, i)
  BY Zenon, ChainLinked
<1>2. Layout(B, s) /\ F \subseteq B
  BY Zenon DEF Sound, Part
<1>3. ASSUME NEW i \in 0..n, f[i] = 0 PROVE FALSE
  <2>1. PICK Gone : Gone = {k \in Nat : k <= n /\ f[n - k] = 0}
    BY Zenon
  <2>2. n - i \in Gone
    <3>1. n - (n - i) = i /\ n - i \in Nat /\ n - i <= n
      OBVIOUS
    <3> QED
      BY Zenon, <1>3, <2>1, <3>1
  <2>3. PICK k \in Gone : \A j \in Gone : k <= j
    BY Zenon, <2>1, <2>2, Least
  <2>4. k \in Nat /\ k <= n /\ f[n - k] = 0
    BY Zenon, <2>1
  <2>5. k # 0
    <3>1. n - 0 = n
      OBVIOUS
    <3> QED
      BY Zenon, <2>4, <3>1
  <2>6. PICK j : j = n - (k - 1)
    BY Zenon
  <2>7. j \in 0..n /\ j # 0 /\ j - 1 = n - k /\ k - 1 \in Nat /\ k - 1 <= n /\ ~(k <= k - 1)
    BY <2>4, <2>5, <2>6
  <2>8. f[j] # 0
    BY Zenon, <2>1, <2>3, <2>6, <2>7
  <2>9. f[j - 1] # 0
    BY Zenon, <1>1, <2>7, <2>8 DEF Linked
  <2> QED
    BY Zenon, <2>4, <2>7, <2>9
<1>4. \A i \in 0..n : Linked(h.mem, s, F, list, f, i)
  BY Zenon, <1>1, <1>3
<1>5. ASSUME NEW i \in 0..n, NEW j \in 0..n, i < j, f[i] = f[j] PROVE FALSE
  <2>1. PICK Twice : Twice = {k \in Nat : \E l \in 0..n : k < l /\ f[k] = f[l]}
    BY Zenon
  <2>2. i \in Twice
    BY <1>5, <2>1
  <2>3. PICK k \in Twice : \A l \in Twice : k <= l
    BY Zenon, <2>1, <2>2, Least
  <2>4. PICK l \in 0..n : k < l /\ f[k] = f[l]
    BY Zenon, <2>1
  <2>5. k \in 0..n /\ k \in Nat /\ l # 0 /\ l - 1 \in 0..n
    BY <2>1, <2>4
  <2>6. h.mem[f[k] + 4] = f[l - 1] /\ f[l - 1] # 0
    BY Zenon, <1>4, <2>4, <2>5 DEF Linked
  <2>7. k # 0 /\ f[k - 1] = f[l - 1]
    BY Zenon, <1>4, <2>5, <2>6 DEF Linked
  <2>8. k - 1 \in Twice /\ ~(k <= k - 1)
    BY <2>1, <2>4, <2>5, <2>7
  <2> QED
    BY Zenon, <2>3, <2>8
<1>6. PICK e : e = [i \in 0..n |-> (f[i] - FirstBlock) \div 16]
  BY Zenon
<1>7. \A i \in 0..n : f[i] \in B
  BY Zenon, <1>2, <1>4 DEF Linked
<1>8. ASSUME NEW i \in 0..n, NEW j \in 0..n
      PROVE  e[i] \in 0..(n - 1) /\ (e[i] = e[j] => i = j)
  <2>1. PICK b, c : b = f[i] /\ c = f[j]
    BY Zenon
  <2>2. b \in B /\ c \in B
    BY Zenon, <1>7, <2>1
  <2>3. /\ (b - FirstBlock) \div 16 \in 0..(n - 1)
        /\ (b - FirstBlock) \div 16 = (c - FirstBlock) \div 16 => b = c
    BY Zenon, <1>2, <2>2, BlockPlaces
  <2>4. b = c => i = j
    <3>1. i < j \/ j < i \/ i = j
      OBVIOUS
    <3> QED
      BY Zenon, <1>5, <2>1, <3>1
  <2> QED
    BY Zenon, <1>6, <2>1, <2>3, <2>4
<1>9. Fits(e, n)
  BY Zenon, <1>8 DEF Fits
<1> QED
  BY Zenon, <1>9, Pigeons

\* Whether a block is in use.
LEMMA LiveBlocks ==
  ASSUME HeapInv, NEW b \in Nat PROVE b \in Used(live) <=> IsLive(b)
<1>1. \A p \in DOMAIN live : p \in Nat
  BY Zenon, AlignedOffsets DEF HeapInv, Good, Kept, Aligned
<1>2. (b + 4) - 4 = b /\ \A p \in DOMAIN live : b = p - 4 <=> p = b + 4
  BY <1>1
<1> QED
  BY Zenon, <1>2 DEF Used, Ahead, IsLive

\* Every free list ends within the number of blocks the tablet can hold; each
\* block on it is free, of the list's class, and linked back to the one before.
THEOREM ListsSound ==
  ASSUME ObjectsSpareFooters PROVE Spec => []FreeListsSound
<1>1. HeapInv => FreeListsSound
  <2> SUFFICES ASSUME HeapInv, Running, NEW list \in Lists
               PROVE  /\ ListAt(list, MaxBlocks) = 0
                      /\ \A n \in 0..(MaxBlocks - 1) :
                           LET b == ListAt(list, n)
                           IN  b # 0 =>
                                 /\ b \in Blocks /\ ~IsLive(b)
                                 /\ GetFreeListByBlockSize(BlockSize(b)) = list
                                 /\ Mem[PrevField(b)] = IF n = 0 THEN 0 ELSE ListAt(list, n - 1)
    BY Zenon DEF FreeListsSound
  <2>1. PICK s : /\ Sound(Mem, Blocks, s, Blocks \ Used(live)) /\ Blocked(live, Blocks, s)
                 /\ \A c \in Blocks : BlockSize(c) = s[c]
    BY Zenon, RunningBlocks
  <2>2. Layout(Blocks, s)
    BY Zenon, <2>1 DEF Sound, Part
  <2>3. PICK N \in Nat : N = MaxBlocks
    <3>1. LastTag - FirstBlock \in Nat
      BY Geometry, SizeAssumption, AlignedOffsets DEF Aligned
    <3> QED
      BY <3>1 DEF MaxBlocks
  <2>4. PICK f : Chain(heap, list, f, N) /\ \A k \in 0..N : ListAt(list, k) = f[k]
    BY Zenon, ListChain
  <2>5. Sound(heap.mem, Blocks, s, Blocks \ Used(live))
    BY Zenon, <2>1 DEF Mem
  <2>6. f[N] = 0
    BY Zenon, <2>3, <2>4, <2>5, ChainEnds
  <2>7. \A i \in 0..N : f[i] = 0 \/ Linked(heap.mem, s, Blocks \ Used(live), list, f, i)
    BY Zenon, <2>4, <2>5, ChainLinked
  <2>8. ASSUME NEW n \in 0..(N - 1), f[n] # 0
        PROVE  /\ f[n] \in Blocks /\ ~IsLive(f[n])
               /\ GetFreeListByBlockSize(BlockSize(f[n])) = list
               /\ Mem[PrevField(f[n])] = IF n = 0 THEN 0 ELSE f[n - 1]
    <3>1. PICK b : b = f[n]
      BY Zenon
    <3>2. /\ b \in Blocks /\ b \notin Used(live) /\ Class(s, b) = list
          /\ Mem[b + 4] = IF n = 0 THEN 0 ELSE f[n - 1]
      BY <2>7, <2>8, <3>1 DEF Linked, Mem
    <3>3. b \in Nat
      BY Zenon, <2>2, <3>2, BlockWords
    <3>4. ~IsLive(b)
      BY Zenon, <3>2, <3>3, LiveBlocks
    <3> QED
      BY Zenon, <2>1, <3>1, <3>2, <3>4 DEF Class, PrevField
  <2>9. ListAt(list, MaxBlocks) = 0
    BY <2>3, <2>4, <2>6
  <2>10. \A n \in 0..(N - 1) : ListAt(list, n) = f[n] /\ (n # 0 => ListAt(list, n - 1) = f[n - 1])
    BY <2>4
  <2> QED
    BY <2>3, <2>8, <2>9, <2>10
<1>2. HeapInv /\ [Next]_vars => HeapInv'
  BY Zenon, NextGood
<1> QED
  BY <1>1, <1>2, InitGood, PTL DEF Spec

=============================================================================
