----------------------------- MODULE HeapProofs -----------------------------
(***************************************************************************)
(* The allocator in use keeps its heap in order: AllocBlock of a sound     *)
(* heap yields a sound heap, and so do the stores into an object and       *)
(* FreeBlock of it. Good, the invariant, says that the heap is sound for   *)
(* some set of blocks of which the user holds exactly those that are not   *)
(* free, and that each object still has the contents its owner stored.     *)
(*                                                                         *)
(* From it: the consistency assertions of the allocator hold, and objects  *)
(* are never overwritten.                                                  *)
(***************************************************************************)
EXTENDS AllocatorSpec, HeapLemmas, WellFoundedInduction

\* A set of natural numbers has a least element ...
LEMMA Least ==
  ASSUME NEW N, N \subseteq Nat, N # {} PROVE \E n \in N : \A k \in N : n <= k
<1> DEFINE R == OpToRel(<, Nat)
<1>1. IsWellFoundedOn(R, Nat)
  BY Zenon, NatLessThanWellFounded
<1>2. PICK n \in N : \A k \in N : ~(<<k, n>> \in R)
  <2> HIDE DEF R
  <2> QED
    BY Zenon, <1>1, WFMin
<1>3. \A k \in N : ~(k < n)
  BY Zenon, <1>2 DEF OpToRel
<1> QED
  BY <1>3

\* The words below the blocks are list heads.
LEMMA ListOffsets ==
  ASSUME NEW l \in Offsets, l <= GetLastFreeList PROVE l \in Lists
<1>1. l \in Nat /\ l % 4 = 0
  BY Zenon, AlignedOffsets DEF Aligned
<1>2. l = 4 * (l \div 4) /\ l \div 4 \in Nat
  BY <1>1
<1>3. l \div 4 \in 0..(kNumFreeLists - 1)
  BY <1>1, <1>2, Geometry
<1> QED
  BY Zenon, <1>2, <1>3 DEF Lists

\* AllocBlock(h, k) = r: no list has a block, or one has become one in use, or
\* the process died in `assert(offset)'; the blocks in W are as they were.
Outcome(r, k, m0, s0, W) ==
  \/ Asserted(r.heap, m0, s0, W)
  \/ r.blk = 0 /\ Runs(r.heap) /\ r.heap.mem = m0
  \/ r.blk \in Nat \ {0} /\ Granted(r.heap, r.blk, k, m0, s0, W)

\* The lists that may serve a request for k bytes.
FullLists(h, k) ==
  {l \in Offsets : GetFreeListByBlockSize(k) <= l /\ l <= GetLastFreeList /\ Read(h, l) # 0}

\* Block x is free, large enough, and the head of a list.
Candidate(m, B, s, U, k, list, x) ==
  /\ list \in Offsets \ {0} /\ x \in B \ U /\ m[x + 4] = 0
  /\ Class(s, x) = list /\ k <= s[x]

\* The head of the first list that is not empty and serves k bytes is free and
\* large enough.
LEMMA ChosenHead ==
  ASSUME NEW h, Runs(h), NEW B, NEW s, NEW U \in SUBSET B, Sound(h.mem, B, s, B \ U),
         NEW k \in Nat, k % 16 = 0, k >= 32, k <= kMaxBlockSize,
         NEW lists, lists = FullLists(h, k), lists # {},
         NEW list, list \in lists, \A m \in lists : list <= m
  PROVE  Candidate(h.mem, B, s, U, k, list, Read(h, list))
<1>3. list \in Offsets /\ list \in Lists /\ h.mem[list] # 0 /\ Read(h, list) = h.mem[list]
  BY Zenon, ListOffsets DEF Read, FullLists
<1>4. GetFreeListByBlockSize(k) > 0 /\ GetFreeListByBlockSize(k) <= list
  BY Zenon, ClassFacts DEF FullLists
<1>5. GetFreeListByBlockSize(k) \in Nat /\ list \in Nat
  BY Zenon, ClassFacts, ListWords, <1>3
<1>6. IsHead(h.mem, s, B \ U, list, h.mem[list])
  BY Zenon, <1>3 DEF Sound, Part, Links
<1>7. Layout(B, s)
  BY Zenon DEF Sound, Part
<1>8. ASSUME NEW x \in B, Class(s, x) = list PROVE k <= s[x]
  <2>1. s[x] \in Nat /\ s[x] >= 32 /\ s[x] % 16 = 0
    BY Zenon, <1>7 DEF Layout
  <2> QED
    BY Zenon, <2>1, <1>8, <1>4, ClassOrder DEF Class
<1>9. h.mem[list] \in B \ U /\ h.mem[h.mem[list] + 4] = 0 /\ Class(s, h.mem[list]) = list
  BY Zenon, <1>6 DEF IsHead
<1>10. k <= s[h.mem[list]]
  BY Zenon, <1>8, <1>9
<1>11. list # 0
  BY ONLY <1>4, <1>5
<1> QED
  BY Zenon, <1>3, <1>9, <1>10, <1>11 DEF Candidate

\* AllocBlock finds nothing, or hands out a block of a sound heap, or ends in
\* `assert(offset)'; what the users of blocks stored is untouched.
LEMMA AllocBlockSound ==
  ASSUME NEW h, Runs(h), NEW B, NEW s, NEW U \in SUBSET B, Sound(h.mem, B, s, B \ U),
         NEW k \in Nat, k % 16 = 0, k >= 16, k <= kMaxBlockSize
  PROVE  Outcome(AllocBlock(h, k), k, h.mem, s, U)
<1> DEFINE first == GetFreeListByBlockSize(k)
           lists == {l \in Offsets : /\ first <= l /\ l <= GetLastFreeList
                                     /\ Read(h, l) # 0}
           free_list == CHOOSE l \in lists : \A m \in lists : l <= m
           head == Read(h, free_list)
           head_size == ReadTheSizeTag(h, head)
           next_blk == Read(h, NextField(head))
           h0 == Access(h, first)
           h1 == Check(Access(Access(h0, head), head + head_size),
                       ReadTheFreeTag(h, head, head_size) /\ head_size >= k)
           h2 == ResetTheFreeTag(h1, head, head_size)
           h3 == Write(h2, free_list, next_blk)
           h4 == Write(h3, PrevField(next_blk), 0)
<1>1. AllocBlock(h, k) = IF h0.abort # "none" \/ lists = {} THEN [heap |-> h0, blk |-> 0]
                         ELSE IF head_size = k THEN [heap |-> h4, blk |-> head]
                         ELSE SplitBlock(h1, head, head_size, k)
  BY Zenon DEF AllocBlock
<1>2. CASE k < 32
  <2>1. k = 16
    BY <1>2, Sixteens
  <2>2. first = 0
    BY <2>1, SizeAssumption DEF GetFreeListByBlockSize
  <2>3. h0.abort = "offset" /\ h0.abort # "none" /\ h0.mem = h.mem
    BY Zenon, <2>2, ZeroAsserts
  <2>4. AllocBlock(h, k).heap = h0
    BY <1>1, <2>3
  <2> QED
    BY Zenon, <2>3, <2>4 DEF Outcome, Asserted, Untouched, Runs
<1>3. CASE k >= 32
  <2>1. first \in Offsets \ {0}
    BY <1>3, ClassFacts, ListWords
  <2>2. h0 = h /\ h0.abort = "none"
    BY Zenon, <2>1, AccessRuns DEF Runs
  <2>3. CASE lists = {}
    <3>1. AllocBlock(h, k).heap = h /\ AllocBlock(h, k).blk = 0
      BY <1>1, <2>2, <2>3
    <3> QED
      BY Zenon, <3>1 DEF Outcome
  <2>4. CASE lists # {}
    <3>1. PICK list : list = free_list
      BY Zenon
    <3>2. PICK x : x = head
      BY Zenon
    <3>3. /\ list \in Offsets \ {0} /\ x \in B \ U /\ h.mem[x + 4] = 0
          /\ Class(s, x) = list /\ k <= s[x]
      <4>1. lists = FullLists(h, k) /\ lists # {}
        BY Zenon, <2>4 DEF FullLists
      <4>2. lists \subseteq Nat
        BY Zenon, AlignedOffsets DEF Aligned
      <4>3. list \in lists /\ \A m \in lists : list <= m
        <5> HIDE DEF lists
        <5>1. \E l \in lists : \A m \in lists : l <= m
          BY Zenon, <4>1, <4>2, Least
        <5> QED
          BY Zenon, <3>1, <5>1
      <4>4. x = Read(h, list)
        BY Zenon, <3>1, <3>2
      <4> HIDE DEF lists, free_list, head
      <4>5. Candidate(h.mem, B, s, U, k, list, Read(h, list))
        BY Zenon, <1>3, <4>1, <4>3, ChosenHead
      <4> QED
        BY Zenon, <4>4, <4>5 DEF Candidate
    <3>4. Layout(B, s) /\ Marked(h.mem, s, B \ U, x)
      BY Zenon, <3>3 DEF Sound, Part
    <3>5. /\ {x, x + 4, x + 8, x + s[x]} \subseteq Offsets \ {0}
          /\ s[x] \in Nat /\ s[x] % 16 = 0 /\ s[x] >= 32 /\ x \in Nat \ {0}
      <4>1. s[x] \in Nat /\ s[x] % 16 = 0
        BY Zenon, <3>3, <3>4 DEF Layout
      <4> QED
        BY <4>1, <3>3, <3>4, BlockWords
    <3>6. ReadTheSizeTag(h, x) = s[x] /\ ReadTheFreeTag(h, x, s[x])
          /\ Read(h, NextField(x)) = h.mem[x + 8]
      BY Zenon, <3>3, <3>4, <3>5 DEF Marked, ReadTheSizeTag, ReadTheFreeTag, Read, NextField
    <3>7. head_size = s[x] /\ next_blk = h.mem[x + 8]
      BY Zenon, <3>2, <3>6
    <3>8. h1 = h
      <4>1. Access(h, x) = h /\ Access(h, x + s[x]) = h
        BY Zenon, <3>5, AccessRuns
      <4>2. h1 = Check(h, TRUE)
        BY Zenon, <4>1, <2>2, <3>2, <3>3, <3>5, <3>6, <3>7
      <4> QED
        BY Zenon, <4>2 DEF Check
    <3>9. CASE s[x] = k
      <4>1. AllocBlock(h, k) = [heap |-> h4, blk |-> x]
        BY Zenon, <1>1, <2>2, <2>4, <3>2, <3>7, <3>9
      <4>2. PICK n : n = h.mem[x + 8]
        BY Zenon
      <4>3. h4 = Write(Write(ResetTheFreeTag(h, x, s[x]), Class(s, x), n), n + 4, 0)
        BY Zenon, <3>1, <3>2, <3>3, <3>7, <3>8, <4>2 DEF PrevField
      <4> HIDE DEF h4
      <4>4. Granted(h4, x, s[x], h.mem, s, U)
        BY Zenon, <3>3, <4>2, <4>3, ExactFit
      <4> QED
        BY <3>5, <3>9, <4>1, <4>4 DEF Outcome
    <3>10. CASE s[x] # k
      <4>1. AllocBlock(h, k) = SplitBlock(h, x, s[x], k)
        BY Zenon, <1>1, <2>2, <2>4, <3>2, <3>7, <3>8, <3>10
      <4>2. s[x] - k = 16 \/ s[x] - k >= 32
        <5>1. s[x] > k
          BY <3>3, <3>5, <3>10
        <5>2. PICK i \in Nat, j \in Nat : s[x] = 16 * i /\ k = 16 * j
          BY Zenon, <3>5, Sixteens
        <5> QED
          BY ONLY <5>1, <5>2
      <4> HIDE DEF first, lists, free_list, head, head_size, next_blk, h0, h1, h2, h3, h4
      <4>3. CASE s[x] - k = 16
        <5>1. Asserted(SplitBlock(h, x, s[x], k).heap, h.mem, s, U)
          BY Zenon, <3>3, <4>3, SplitAsserts
        <5> QED
          BY Zenon, <4>1, <5>1 DEF Outcome
      <4>4. CASE s[x] - k >= 32
        <5>1. /\ Granted(SplitBlock(h, x, s[x], k).heap, SplitBlock(h, x, s[x], k).blk, k, h.mem, s, U)
              /\ SplitBlock(h, x, s[x], k).blk \in Nat \ {0}
          BY Zenon, <1>3, <3>3, <4>4, SplitSound
        <5> QED
          BY Zenon, <4>1, <5>1 DEF Outcome
      <4> QED
        BY Zenon, <4>2, <4>3, <4>4
    <3> QED
      BY Zenon, <3>9, <3>10
  <2> QED
    BY Zenon, <2>3, <2>4
<1> QED
  BY <1>2, <1>3

(* The allocator in use.                                                   *)

\* m2 differs from m only between the header and the footer of block u.
Stored(m, m2, s, u) ==
  \A a \in Offsets : m2[a] = m[a] \/ (u + 4 <= a /\ a + 8 <= u + s[u])

\* The user of a block may store what it likes there.
LEMMA StoredSound ==
  ASSUME NEW m, NEW B, NEW s, NEW F, Sound(m, B, s, F), NEW u \in B \ F,
         NEW m2 \in Memory, Stored(m, m2, s, u)
  PROVE  /\ Sound(m2, B, s, F)
         /\ \A W \in SUBSET (B \ {u}) : Untouched(m, m2, s, W)
<1>1. Layout(B, s) /\ m \in Memory /\ F \subseteq B /\ Links(m, s, F)
  BY Zenon DEF Sound, Part
<1>2. ASSUME NEW c \in B, NEW a \in Offsets, u + 4 <= a, a + 8 <= u + s[u]
      PROVE  /\ a # c /\ a # c + s[c] - 4 /\ a # c + s[c] /\ FirstBlock <= a /\ a # LastTag
             /\ c # u => a # c + 4 /\ a # c + 8
  <2>1. a \in Nat
    BY Zenon, AlignedOffsets DEF Aligned
  <2>2. u \in B /\ u \in Nat /\ s[u] \in Nat /\ FirstBlock <= u /\ u + s[u] <= LastTag
        /\ FirstBlock \in Nat /\ LastTag \in Nat
    BY Zenon, <1>1, BlockWords
  <2>3. CASE c = u
    BY ONLY <1>2, <2>1, <2>2, <2>3
  <2>4. CASE c # u
    <3>1. a # c /\ a # c + s[c] - 4 /\ a # c + s[c] /\ a # c + 4 /\ a # c + 8
      BY <1>1, <1>2, <2>1, <2>2, <2>4, Places
    <3> QED
      BY <3>1, <1>2, <2>1, <2>2
  <2> QED
    BY Zenon, <2>3, <2>4
<1>3. ASSUME NEW c \in B
      PROVE  /\ m2[c] = m[c] /\ m2[c + s[c] - 4] = m[c + s[c] - 4] /\ m2[c + s[c]] = m[c + s[c]]
             /\ c # u => m2[c + 4] = m[c + 4] /\ m2[c + 8] = m[c + 8]
  <2>1. {c, c + 4, c + 8, c + s[c] - 4, c + s[c]} \subseteq Offsets
    BY Zenon, <1>1, BlockWords
  <2> QED
    BY Zenon, <1>2, <2>1 DEF Stored
<1>4. m2[LastTag] = m[LastTag] /\ \A l \in Lists : m2[l] = m[l]
  <2>1. LastTag \in Offsets /\ \A l \in Lists : l \in Offsets /\ l < FirstBlock /\ l \in Nat
    BY Zenon, Geometry, ListWords
  <2>2. FirstBlock \in Nat /\ u \in B
    BY Zenon, <1>1, BlockWords
  <2> QED
    BY <1>2, <2>1, <2>2 DEF Stored
<1>5. Links(m2, s, F)
  BY <1>1, <1>3, <1>4, LinksKept
<1>6. Sound(m2, B, s, F)
  <2>1. FirstBlock \in B
    BY Zenon, <1>1 DEF Layout
  <2>2. \A b \in B : Marked(m, s, F, b) => Marked(m2, s, F, b)
    BY Zenon, <1>3 DEF Marked
  <2> QED
    BY Zenon, <1>1, <1>3, <1>4, <1>5, <2>1, <2>2 DEF Sound, Part
<1>7. ASSUME NEW W \in SUBSET (B \ {u}), NEW w \in W, NEW a \in Offsets,
             w + 4 <= a, a + 8 <= w + s[w]
      PROVE  m2[a] = m[a]
  <2>1. u + s[u] <= w \/ w + s[w] <= u
    BY Zenon, <1>1, Apart
  <2>2. a \in Nat /\ w \in Nat /\ u \in Nat /\ s[w] \in Nat /\ s[u] \in Nat
    BY Zenon, <1>1, BlockWords, AlignedOffsets DEF Aligned
  <2>3. ~(u + 4 <= a /\ a + 8 <= u + s[u])
    BY ONLY <1>7, <2>1, <2>2
  <2> QED
    BY Zenon, <2>3 DEF Stored
<1> QED
  BY Zenon, <1>6, <1>7 DEF Untouched

\* The blocks of the objects in D.
Ahead(D) == {p - 4 : p \in D}

\* The blocks in use: an object starts behind the size tag of its block.
Used(lv) == Ahead(DOMAIN lv)

\* The words of the objects, which lie in the tablet, hold what was stored.
Kept(m, lv) ==
  \A p \in DOMAIN lv :
    /\ p \in Offsets /\ p > 4 /\ lv[p].size \in Sizes /\ p + lv[p].size <= LastTag
    /\ \A a \in Offsets : p <= a /\ a + 4 <= p + lv[p].size => m[a] = lv[p].fill

\* Each object has a block, which is large enough to spare the footer.
Blocked(lv, B, s) ==
  Used(lv) \subseteq B /\ \A p \in DOMAIN lv : lv[p].size + 8 <= s[p - 4]

\* Some blocks tile the heap soundly, and those not in use are the free ones.
Accounted(m, lv) ==
  \E B, s : Sound(m, B, s, B \ Used(lv)) /\ Blocked(lv, B, s)

\* RoundupBlockSize gives a size the lists have.
LEMMA SizeFacts ==
  ASSUME NEW n \in Sizes
  PROVE  /\ n \in Nat /\ n >= 12 /\ n % 4 = 0 /\ n + 4 <= kMaxBlockSize
         /\ RoundupBlockSize(n + 4) \in Nat /\ RoundupBlockSize(n + 4) % 16 = 0
         /\ RoundupBlockSize(n + 4) >= 16 /\ RoundupBlockSize(n + 4) <= kMaxBlockSize
<1>1. n \in Nat /\ n >= 12 /\ n % 4 = 0 /\ n + 4 <= kMaxBlockSize
  BY UserAssumption, SizeAssumption
<1>2. PICK k \in Nat : kMaxBlockSize = 16 * k
  BY Zenon, SizeAssumption, Sixteens
<1>3. PICK j \in Nat : j = (n + 4 + 15) \div 16 /\ j >= 1 /\ j <= k
  <2> DEFINE j == (n + 4 + 15) \div 16
  <2>1. j \in Nat /\ 16 * j <= n + 19 /\ n + 19 < 16 * j + 16
    BY ONLY <1>1
  <2>2. j >= 1 /\ j <= k
    <3> HIDE DEF j
    <3> QED
      BY ONLY <1>1, <1>2, <2>1
  <2> QED
    BY Zenon, <2>1, <2>2
<1>4. RoundupBlockSize(n + 4) = j * 16
  BY Zenon, <1>3 DEF RoundupBlockSize
<1>5. j * 16 \in Nat /\ (j * 16) % 16 = 0 /\ j * 16 >= 16 /\ j * 16 <= kMaxBlockSize
  BY ONLY <1>2, <1>3
<1> QED
  BY Zenon, <1>1, <1>4, <1>5

\* Objects are kept while their blocks are untouched.
LEMMA StillKept ==
  ASSUME NEW m, NEW m2, NEW lv, NEW B, NEW s, Layout(B, s), Kept(m, lv), Blocked(lv, B, s),
         NEW D \in SUBSET DOMAIN lv, Untouched(m, m2, s, Ahead(D)),
         NEW p \in D, NEW a \in Offsets, p <= a, a + 4 <= p + lv[p].size
  PROVE  m2[a] = lv[p].fill
<1>1. p \in Nat /\ a \in Nat /\ lv[p].size \in Nat /\ m[a] = lv[p].fill
  BY Zenon, AlignedOffsets, SizeFacts DEF Aligned, Kept
<1>2. p - 4 \in B /\ s[p - 4] \in Nat /\ lv[p].size + 8 <= s[p - 4]
  BY Zenon DEF Blocked, Layout, Used, Ahead
<1>3. (p - 4) + 4 <= a /\ a + 8 <= (p - 4) + s[p - 4]
  BY <1>1, <1>2
<1>4. p - 4 \in Ahead(D)
  BY Zenon DEF Ahead
<1> QED
  BY Zenon, <1>1, <1>3, <1>4 DEF Untouched

\* The inductive invariant, for heap h and objects lv.
Good(h, lv) ==
  /\ h.abort \in {"none", "offset"} /\ h.mem \in Memory /\ Kept(h.mem, lv)
  /\ h.abort = "none" => Runs(h) /\ Accounted(h.mem, lv)

\* Free keeps the invariant.
LEMMA FreeGood ==
  ASSUME NEW h, Runs(h), NEW lv, Kept(h.mem, lv), Accounted(h.mem, lv), NEW ptr \in DOMAIN lv,
         NEW lw, lw = [p \in DOMAIN lv \ {ptr} |-> lv[p]]
  PROVE  Good(Free(h, ptr), lw)
<1>1. PICK B, s : Sound(h.mem, B, s, B \ Used(lv)) /\ Blocked(lv, B, s)
  BY Zenon DEF Accounted
<1>2. PICK U, b : U = Used(lv) /\ b = ptr - 4
  BY Zenon
<1>3. U \in SUBSET B /\ b \in U /\ Layout(B, s)
  BY Zenon, <1>1, <1>2 DEF Blocked, Used, Ahead, Sound, Part
<1>4. Free(h, ptr) = FreeBlock(h, b)
  <2>1. ptr > 4 /\ ptr <= kSize
    <3>1. ptr \in Nat /\ ptr > 4 /\ ptr + lv[ptr].size <= LastTag /\ lv[ptr].size \in Nat
      BY Zenon, AlignedOffsets, SizeFacts DEF Kept, Aligned
    <3>2. LastTag \in Nat /\ LastTag + 4 <= kSize /\ kSize \in Nat
      BY Zenon, Geometry, AlignedOffsets, SizeAssumption DEF Aligned
    <3> QED
      BY <3>1, <3>2
  <2> QED
    BY Zenon, <1>2, <2>1 DEF Free, Check
<1>5. PICK g : g = Free(h, ptr)
  BY Zenon
<1>6. Restored(g, h.mem, s, U \ {b})
  <2>1. Sound(h.mem, B, s, B \ U)
    BY Zenon, <1>1, <1>2
  <2> QED
    <3>1. Restored(FreeBlock(h, b), h.mem, s, U \ {b})
      BY Zenon, <1>3, <2>1, FreeBlockSound
    <3> QED
      BY Zenon, <3>1, <1>4, <1>5
<1>7. U \ {b} = Ahead(DOMAIN lw) /\ DOMAIN lw \subseteq DOMAIN lv
      /\ \A p \in DOMAIN lw : lw[p] = lv[p]
  <2>1. \A p \in DOMAIN lv : p \in Nat
    BY Zenon, AlignedOffsets DEF Kept, Aligned
  <2>2. \A p \in DOMAIN lv : p - 4 = b => p = ptr
    BY <1>2, <2>1
  <2> QED
    BY Zenon, <1>2, <2>2 DEF Used, Ahead
<1>8. Kept(g.mem, lw)
  <2>1. Untouched(h.mem, g.mem, s, Ahead(DOMAIN lw))
    BY Zenon, <1>6, <1>7 DEF Restored
  <2>2. ASSUME NEW p \in DOMAIN lw, NEW a \in Offsets, p <= a, a + 4 <= p + lv[p].size
        PROVE  g.mem[a] = lv[p].fill
    BY <1>1, <1>3, <1>7, <2>1, <2>2, StillKept
  <2> QED
    BY Zenon, <1>7, <2>2 DEF Kept
<1>9. Accounted(g.mem, lw)
  <2>1. PICK C, t : /\ U \ {b} \subseteq C /\ (\A w \in U \ {b} : t[w] = s[w])
                    /\ Sound(g.mem, C, t, C \ (U \ {b}))
    BY Zenon, <1>6 DEF Restored
  <2>2. \A p \in DOMAIN lw : lw[p].size + 8 <= t[p - 4]
    BY Zenon, <1>1, <1>7, <2>1 DEF Blocked, Ahead
  <2> QED
    BY Zenon, <1>7, <2>1, <2>2 DEF Accounted, Blocked, Used
<1> QED
  BY Zenon, <1>5, <1>6, <1>8, <1>9 DEF Good, Restored, Runs

\* Every object leaves the footer of its block alone.
ObjectsSpareFooters == \A n \in Sizes : n + 8 <= RoundupBlockSize(n + 4)

\* The user stores fill in every word of the object.
Fill(h, ptr, size, fill) == WriteRange(h, ptr, size, [a \in Offsets |-> fill])

\* g is h with the object at ptr, in block b, filled.
Filled(h, g, s, b, ptr, size, fill) ==
  /\ Runs(g) /\ Stored(h.mem, g.mem, s, b)
  /\ ptr \in Offsets /\ ptr > 4 /\ ptr + size <= LastTag
  /\ \A a \in Offsets : ptr <= a /\ a + 4 <= ptr + size => g.mem[a] = fill

\* What Tablet stores in a block that Alloc returned.
LEMMA FillStored ==
  ASSUME NEW h, Runs(h), NEW B, NEW s, Layout(B, s), NEW b \in B, NEW ptr, ptr = b + 4,
         NEW size \in Sizes, size + 8 <= s[b], NEW fill \in Int,
         NEW g, g = Fill(h, ptr, size, fill)
  PROVE  Filled(h, g, s, b, ptr, size, fill)
<1>1. /\ b \in Nat /\ s[b] \in Nat /\ ptr \in Offsets \ {0} /\ b % 4 = 0 /\ b >= 12
      /\ b + s[b] <= LastTag /\ LastTag \in Nat
  <2>1. b \in Offsets
    BY Zenon, BlockWords
  <2> QED
    BY <2>1, BlockWords, AlignedOffsets DEF Aligned
<1>2. size \in Nat /\ size >= 12 /\ size % 4 = 0
  BY Zenon, SizeFacts
<1>3. ptr + size - 4 \in Offsets \ {0} /\ ptr + size <= LastTag /\ ptr > 4 /\ ptr \in Nat
  <2>1. Aligned(ptr + size - 4)
    BY <1>1, <1>2 DEF Aligned
  <2>2. ptr + size - 4 <= LastTag
    BY <1>1, <1>2
  <2> QED
    BY <1>1, <1>2, <2>1, <2>2, AlignedOffsets
<1>4. PICK words : words = [a \in Offsets |-> fill]
  BY Zenon
<1>5. g = StoreWords(h, ptr, size, words)
  BY Zenon, <1>1, <1>3, <1>4, AccessRuns DEF Fill, WriteRange
<1>6. PICK m2 : m2 = [a \in Offsets |-> IF ptr <= a /\ a < ptr + size THEN words[a] ELSE h.mem[a]]
  BY Zenon
<1>7. /\ g = [mem |-> m2, mods |-> Append(h.mods, [des |-> ptr, len |-> size]), abort |-> "none"]
      /\ g.mem = m2
  <2>1. h.abort = "none"
    BY Zenon DEF Runs
  <2>2. g = [mem |-> m2, mods |-> Append(h.mods, [des |-> ptr, len |-> size]), abort |-> "none"]
    BY <1>5, <1>6, <2>1, Zenon DEF StoreWords
  <2> QED
    BY <2>2
<1>8. m2 \in Memory
  BY Zenon, <1>4, <1>6 DEF Runs, Memory
<1>9. Runs(g)
  BY <1>7, <1>8 DEF Runs
<1>10. ASSUME NEW a \in Offsets
       PROVE  /\ m2[a] = h.mem[a] \/ (b + 4 <= a /\ a + 8 <= b + s[b])
              /\ ptr <= a /\ a + 4 <= ptr + size => m2[a] = fill
  <2>1. a \in Nat /\ a % 4 = 0 /\ ptr % 4 = 0
    BY Zenon, <1>1, AlignedOffsets DEF Aligned
  <2>2. a < ptr + size <=> a + 4 <= ptr + size
    BY <1>2, <1>3, <2>1
  <2>3. m2[a] = IF ptr <= a /\ a < ptr + size THEN fill ELSE h.mem[a]
    BY Zenon, <1>4, <1>6
  <2>4. ptr <= a /\ a + 4 <= ptr + size => b + 4 <= a /\ a + 8 <= b + s[b]
    BY <1>1, <1>2, <2>1
  <2> QED
    BY Zenon, <2>2, <2>3, <2>4
<1> QED
  BY Zenon, <1>1, <1>3, <1>7, <1>9, <1>10 DEF Stored, Filled

\* The object at ptr is added to those in lv.
Added(lv, ptr, size, fill) ==
  [p \in DOMAIN lv \cup {ptr} |-> IF p = ptr THEN [size |-> size, fill |-> fill] ELSE lv[p]]

\* A block was found.
LEMMA GrantGood ==
  ASSUME NEW h, NEW lv, Kept(h.mem, lv), NEW B, NEW s, Layout(B, s), Blocked(lv, B, s),
         NEW size \in Sizes, NEW fill \in Int, NEW k, size + 8 <= k,
         NEW g, NEW b \in Nat, Granted(g, b, k, h.mem, s, Used(lv)), NEW ptr, ptr = b + 4,
         NEW g2, g2 = Fill(g, ptr, size, fill),
         NEW lw, lw = Added(lv, ptr, size, fill)
  PROVE  Good(g2, lw)
<1>1. PICK C, t : /\ Used(lv) \subseteq C /\ b \in C /\ t[b] = k
                  /\ \A w \in Used(lv) : t[w] = s[w]
                  /\ Sound(g.mem, C, t, C \ (Used(lv) \cup {b}))
  BY Zenon DEF Granted
<1>2. Layout(C, t) /\ Runs(g) /\ Untouched(h.mem, g.mem, s, Used(lv)) /\ b \notin Used(lv)
  BY Zenon, <1>1 DEF Sound, Part, Granted
<1>3. /\ Runs(g2) /\ Stored(g.mem, g2.mem, t, b)
      /\ ptr \in Offsets /\ ptr > 4 /\ ptr + size <= LastTag
      /\ \A a \in Offsets : ptr <= a /\ a + 4 <= ptr + size => g2.mem[a] = fill
  <2>1. size + 8 <= t[b]
    BY Zenon, <1>1
  <2> QED
    <3>1. Filled(g, g2, t, b, ptr, size, fill)
      BY Zenon, <1>1, <1>2, <2>1, FillStored
    <3> QED
      BY Zenon, <3>1 DEF Filled
<1>4. PICK F : F = C \ (Used(lv) \cup {b})
  BY Zenon
<1>5. Sound(g2.mem, C, t, F) /\ Untouched(g.mem, g2.mem, t, Used(lv))
  <2>1. Sound(g.mem, C, t, F) /\ b \in C \ F /\ g2.mem \in Memory
    BY Zenon, <1>1, <1>3, <1>4 DEF Runs
  <2>2. Used(lv) \in SUBSET (C \ {b})
    BY Zenon, <1>1, <1>2
  <2>3. Sound(g2.mem, C, t, F) /\ \A W \in SUBSET (C \ {b}) : Untouched(g.mem, g2.mem, t, W)
    BY Zenon, <1>3, <2>1, StoredSound
  <2> QED
    BY Zenon, <2>2, <2>3
<1>6. Untouched(h.mem, g2.mem, s, Used(lv))
  <2>1. PICK W : W = Used(lv)
    BY Zenon
  <2> QED
    BY <1>1, <1>2, <1>5, <2>1, StillUntouched
<1>7. /\ DOMAIN lw = DOMAIN lv \cup {ptr} /\ ptr \notin DOMAIN lv
      /\ lw[ptr].size = size /\ lw[ptr].fill = fill /\ \A p \in DOMAIN lv : lw[p] = lv[p]
  <2>1. ptr \notin DOMAIN lv
    <3>1. ptr - 4 = b
      OBVIOUS
    <3> QED
      BY Zenon, <1>2, <3>1 DEF Used, Ahead
  <2> QED
    BY Zenon, <2>1 DEF Added
<1>8. Used(lw) = Used(lv) \cup {b}
  <2>1. ptr - 4 = b
    OBVIOUS
  <2> QED
    BY Zenon, <1>7, <2>1 DEF Used, Ahead
<1>9. Kept(g2.mem, lw)
  <2>1. ASSUME NEW p \in DOMAIN lv, NEW a \in Offsets, p <= a, a + 4 <= p + lv[p].size
        PROVE  g2.mem[a] = lv[p].fill
    <3>1. PICK D : D = DOMAIN lv
      BY Zenon
    <3>2. Untouched(h.mem, g2.mem, s, Ahead(D)) /\ D \in SUBSET DOMAIN lv /\ p \in D
      BY Zenon, <3>1, <1>6 DEF Used
    <3> QED
      BY <2>1, <3>2, StillKept
  <2> QED
    <3> SUFFICES ASSUME NEW p \in DOMAIN lw
                 PROVE  /\ p \in Offsets /\ p > 4 /\ lw[p].size \in Sizes
                        /\ p + lw[p].size <= LastTag
                        /\ \A a \in Offsets : p <= a /\ a + 4 <= p + lw[p].size
                                                => g2.mem[a] = lw[p].fill
      BY Zenon DEF Kept
    <3>1. CASE p = ptr
      BY Zenon, <1>3, <1>7, <3>1
    <3>2. CASE p # ptr
      BY <1>7, <2>1, <3>2 DEF Kept
    <3> QED
      BY Zenon, <3>1, <3>2
<1>10. Accounted(g2.mem, lw)
  <2>1. Sound(g2.mem, C, t, C \ Used(lw)) /\ Used(lw) \subseteq C
    BY Zenon, <1>1, <1>4, <1>5, <1>8
  <2>2. ASSUME NEW p \in DOMAIN lw PROVE lw[p].size + 8 <= t[p - 4]
    <3>1. CASE p = ptr
      <4>1. p - 4 = b
        BY <3>1
      <4> QED
        BY Zenon, <4>1, <3>1, <1>1, <1>7
    <3>2. CASE p # ptr
      <4>1. p \in DOMAIN lv /\ p - 4 \in Used(lv)
        BY Zenon, <3>2, <1>7 DEF Used, Ahead
      <4> QED
        BY Zenon, <4>1, <1>1, <1>7 DEF Blocked
    <3> QED
      BY Zenon, <3>1, <3>2
  <2> QED
    BY Zenon, <2>1, <2>2 DEF Accounted, Blocked
<1> QED
  BY Zenon, <1>3, <1>9, <1>10 DEF Good, Runs

\* Alloc, and storing the object in what it returns, keeps the invariant.
LEMMA AllocGood ==
  ASSUME ObjectsSpareFooters, NEW h, Runs(h), NEW lv, Kept(h.mem, lv), Accounted(h.mem, lv),
         NEW size \in Sizes, NEW fill \in Int, NEW r, r = Alloc(h, size)
  PROVE  IF r.heap.abort = "none" /\ r.ptr # 0
         THEN Good(Fill(r.heap, r.ptr, size, fill), Added(lv, r.ptr, size, fill))
         ELSE Good(r.heap, lv)
<1>1. PICK B, s : Sound(h.mem, B, s, B \ Used(lv)) /\ Blocked(lv, B, s)
  BY Zenon DEF Accounted
<1>2. PICK U, k : U = Used(lv) /\ k = RoundupBlockSize(size + 4)
  BY Zenon
<1>3. U \in SUBSET B /\ Layout(B, s) /\ Sound(h.mem, B, s, B \ U)
  BY Zenon, <1>1, <1>2 DEF Blocked, Sound, Part
<1>4. /\ k \in Nat /\ k % 16 = 0 /\ k >= 16 /\ k <= kMaxBlockSize
      /\ size + 8 <= k /\ size + 4 <= kMaxBlockSize
  BY Zenon, <1>2, SizeFacts DEF ObjectsSpareFooters
<1>5. PICK q : q = AllocBlock(h, k)
  BY Zenon
<1>6. r.heap = q.heap /\ r.ptr = IF q.blk = 0 THEN 0 ELSE q.blk + 4
  BY Zenon, <1>2, <1>4, <1>5 DEF Alloc, ObjectIn, Check
<1>7. Outcome(q, k, h.mem, s, U)
  <2>1. Outcome(AllocBlock(h, k), k, h.mem, s, U)
    BY Zenon, <1>3, <1>4, AllocBlockSound
  <2> QED
    BY Zenon, <1>5, <2>1
<1>8. CASE Asserted(q.heap, h.mem, s, U)
  <2>1. Kept(q.heap.mem, lv)
    <3>1. PICK D : D = DOMAIN lv
      BY Zenon
    <3>2. Untouched(h.mem, q.heap.mem, s, Ahead(D)) /\ D \in SUBSET DOMAIN lv
      BY Zenon, <1>2, <1>8, <3>1 DEF Used, Asserted
    <3>3. PICK m2 : m2 = q.heap.mem
      BY Zenon
    <3>4. ASSUME NEW p \in D, NEW a \in Offsets, p <= a, a + 4 <= p + lv[p].size
          PROVE  m2[a] = lv[p].fill
      BY <1>1, <1>3, <3>2, <3>3, <3>4, StillKept
    <3> QED
      BY Zenon, <3>1, <3>3, <3>4 DEF Kept
  <2> QED
    BY Zenon, <1>6, <1>8, <2>1 DEF Asserted, Good
<1>9. CASE q.blk = 0 /\ Runs(q.heap) /\ q.heap.mem = h.mem
  BY Zenon, <1>6, <1>9 DEF Good, Runs
<1>10. CASE q.blk \in Nat \ {0} /\ Granted(q.heap, q.blk, k, h.mem, s, U)
  <2>1. PICK g, b, ptr : g = r.heap /\ b = q.blk /\ ptr = b + 4
    BY Zenon
  <2>2. g = q.heap /\ ptr = r.ptr /\ b \in Nat /\ ptr # 0 /\ Granted(g, b, k, h.mem, s, Used(lv))
    BY <1>2, <1>6, <1>10, <2>1
  <2>3. PICK g2, lw : /\ g2 = Fill(g, ptr, size, fill)
                      /\ lw = Added(lv, ptr, size, fill)
    BY Zenon
  <2>4. Good(g2, lw)
    BY Zenon, <1>1, <1>3, <1>4, <2>1, <2>2, <2>3, GrantGood
  <2>5. g.abort = "none"
    BY Zenon, <2>2 DEF Granted, Runs
  <2> QED
    BY Zenon, <2>1, <2>2, <2>3, <2>4, <2>5
<1> QED
  BY Zenon, <1>7, <1>8, <1>9, <1>10 DEF Outcome

\* The invariant, of the state.
HeapInv == Good(heap, live)

\* Format leaves one free block, on the last list.
Formatted(m) ==
  /\ m[GetLastFreeList] = FirstBlock /\ m[FirstBlock] = LastTag - FirstBlock
  /\ m[LastTag - 4] = LastTag - FirstBlock /\ m[LastTag] = kFreeMask
  /\ \A a \in Offsets : a \in {GetLastFreeList, FirstBlock, LastTag - 4, LastTag} \/ m[a] = 0

\* Format's stores all succeed.
LEMMA FormatRuns == Runs(Format) /\ Formatted(Format.mem)
<1> DEFINE zero == [mem |-> [a \in Offsets |-> 0], mods |-> <<>>, abort |-> "none"]
           size == LastTag - FirstBlock
           h1 == Write(zero, GetLastFreeList, FirstBlock)
           h2 == Write(h1, FirstBlock, size)
           h3 == Write(h2, LastTag - 4, size)
           h4 == SetTheFreeTag(h3, FirstBlock, size)
<1>1. Format = set_modifications(h4)
  BY Zenon DEF Format
<1>2. /\ GetLastFreeList \in Nat /\ FirstBlock \in Nat /\ LastTag \in Nat
      /\ GetLastFreeList < FirstBlock /\ FirstBlock < LastTag - 4
  BY Geometry, SizeAssumption, AlignedOffsets DEF Aligned
<1>3. {GetLastFreeList, FirstBlock, LastTag - 4, LastTag} \subseteq Offsets \ {0}
  <2>1. GetLastFreeList > 0 /\ GetLastFreeList % 4 = 0 /\ LastTag % 4 = 0
    BY Geometry, AlignedOffsets DEF Aligned
  <2>2. (LastTag - 4) % 4 = 0
    BY <1>2, <2>1
  <2> QED
    BY <1>2, <2>1, <2>2, Geometry, AlignedOffsets DEF Aligned
<1>4. size \in Nat /\ size \in Int /\ FirstBlock \in Int /\ FirstBlock + size = LastTag
  BY <1>2
<1>5. Runs(zero)
  BY DEF Runs, Memory
<1> HIDE DEF zero, size, h1, h2, h3, h4
<1>6. Wrote(zero, h1, GetLastFreeList, FirstBlock) /\ Runs(h1)
  BY Zenon, <1>3, <1>4, <1>5, WrittenTo DEF h1
<1>7. Wrote(h1, h2, FirstBlock, size) /\ Runs(h2)
  BY Zenon, <1>3, <1>4, <1>6, WrittenTo DEF h2
<1>8. Wrote(h2, h3, LastTag - 4, size) /\ Runs(h3)
  BY <1>3, <1>4, <1>7, WrittenTo DEF h3
<1>9. h3.mem[LastTag] = 0
  BY <1>2, <1>3, <1>6, <1>7, <1>8 DEF Wrote, zero
<1>10. h4 = Write(h3, LastTag, kFreeMask)
  <2>1. SetTag(0) = kFreeMask
    BY SizeAssumption DEF SetTag, SizeOf
  <2> QED
    BY Zenon, <1>3, <1>4, <1>9, <2>1 DEF h4, SetTheFreeTag, Read
<1>11. Wrote(h3, h4, LastTag, kFreeMask) /\ Runs(h4)
  <2>1. kFreeMask \in Int
    BY SizeAssumption
  <2> QED
    BY Zenon, <1>3, <1>8, <1>10, <2>1, WrittenTo
<1>12. \A a \in Offsets : zero.mem[a] = 0
  BY Zenon DEF zero
<1>13. Formatted(h4.mem)
  BY <1>2, <1>3, <1>6, <1>7, <1>8, <1>11, <1>12 DEF Wrote, Formatted, size
<1>14. Runs(Format) /\ Format.mem = h4.mem
  BY Zenon, <1>1, <1>11 DEF Runs, set_modifications
<1> QED
  BY Zenon, <1>13, <1>14

\* What Format leaves is a sound heap of free blocks.
LEMMA FormatSound ==
  ASSUME NEW m \in Memory, Formatted(m)
  PROVE  \E B, s : Sound(m, B, s, B)
<1> DEFINE B == {FirstBlock}
           s == [b \in B |-> LastTag - FirstBlock]
<1>1. /\ FirstBlock \in Nat /\ LastTag \in Nat /\ FirstBlock \in Offsets
      /\ LastTag - FirstBlock \in Nat /\ LastTag - FirstBlock > kMaxBlockSize
      /\ LastTag - FirstBlock >= 48 /\ (LastTag - FirstBlock) % 16 = 0
      /\ GetLastFreeList = FirstBlock - 4
  BY Geometry, SizeAssumption, AlignedOffsets DEF Aligned
<1>2. /\ s \in [B -> Nat] /\ s[FirstBlock] = LastTag - FirstBlock
      /\ FirstBlock + s[FirstBlock] = LastTag
  BY <1>1
<1>3. Layout(B, s)
  BY <1>1, <1>2 DEF Layout
<1>4. Marked(m, s, B, FirstBlock) /\ SizeOf(m[LastTag]) = 0 /\ ~Tagged(m[FirstBlock])
  <2>1. LastTag - FirstBlock < kFreeMask /\ kFreeMask \in Nat
    BY <1>1, SizeAssumption, Geometry
  <2> QED
    BY <1>1, <1>2, <2>1 DEF Marked, Formatted, SizeOf, Tagged
<1>5. Links(m, s, B)
  <2>1. Class(s, FirstBlock) = GetLastFreeList
    BY <1>1, <1>2, SizeAssumption DEF Class, GetFreeListByBlockSize
  <2>2. m[FirstBlock + 4] = 0 /\ m[FirstBlock + 8] = 0
    <3>1. FirstBlock + 4 \in Offsets /\ FirstBlock + 8 \in Offsets
      BY Zenon, <1>3, BlockWords
    <3>2. /\ FirstBlock + 4 \notin {GetLastFreeList, FirstBlock, LastTag - 4, LastTag}
          /\ FirstBlock + 8 \notin {GetLastFreeList, FirstBlock, LastTag - 4, LastTag}
      BY ONLY <1>1
    <3> QED
      BY Zenon, <3>1, <3>2 DEF Formatted
  <2>3. ASSUME NEW l \in Lists PROVE m[l] = 0 \/ IsHead(m, s, B, l, m[l])
    <3>1. l \in Offsets /\ l \in Nat /\ l < FirstBlock
      BY Zenon, ListWords
    <3>2. l \notin {FirstBlock, LastTag - 4, LastTag}
      BY ONLY <3>1, <1>1
    <3> QED
      BY Zenon, <3>1, <3>2, <2>1, <2>2 DEF Formatted, IsHead
  <2> QED
    BY Zenon, <2>2, <2>3 DEF Links
<1> HIDE DEF s
<1>6. Sound(m, B, s, B)
  BY Zenon, <1>3, <1>4, <1>5 DEF Sound, Part
<1> QED
  BY Zenon, <1>6

\* The invariant holds after Format.
LEMMA InitGood == Init => HeapInv
<1> SUFFICES ASSUME Init PROVE Good(heap, live)
  BY Zenon DEF HeapInv
<1>1. Runs(heap) /\ Formatted(heap.mem)
  BY Zenon, FormatRuns DEF Init
<1>2. heap.mem \in Memory
  BY Zenon, <1>1 DEF Runs
<1>3. PICK B, s : Sound(heap.mem, B, s, B)
  BY Zenon, <1>1, <1>2, FormatSound
<1>4. DOMAIN live = {} /\ Used(live) = {}
  BY Zenon DEF Init, NoObjects, Used, Ahead
<1>5. B \ Used(live) = B
  BY Zenon, <1>4
<1>6. Accounted(heap.mem, live)
  <2>1. Blocked(live, B, s)
    BY Zenon, <1>4 DEF Blocked
  <2> QED
    BY Zenon, <1>3, <1>5, <2>1 DEF Accounted
<1> QED
  BY Zenon, <1>1, <1>2, <1>4, <1>6 DEF Good, Kept, Runs

\* Each step keeps the invariant.
LEMMA NextGood == ObjectsSpareFooters /\ HeapInv /\ [Next]_vars => HeapInv'
<1> SUFFICES ASSUME ObjectsSpareFooters, HeapInv, [Next]_vars PROVE HeapInv'
  BY Zenon
<1> DEFINE h == set_modifications(heap)
<1>1. ASSUME Running PROVE Runs(h) /\ Kept(h.mem, live) /\ Accounted(h.mem, live)
  <2>1. Runs(heap) /\ Kept(heap.mem, live) /\ Accounted(heap.mem, live)
    BY Zenon, <1>1 DEF Running, HeapInv, Good
  <2>2. h = [mem |-> heap.mem, mods |-> <<>>, abort |-> "none"]
    BY <2>1 DEF Runs, set_modifications
  <2> QED
    BY <2>1, <2>2 DEF Runs
<1> HIDE DEF h
<1>2. ASSUME NEW size \in Sizes, NEW fill \in Fills, AllocObject(size, fill) PROVE HeapInv'
  <2>1. PICK r : r = Alloc(h, size)
    BY Zenon
  <2>2. fill \in Int /\ Running
    BY <1>2, UserAssumption, SizeAssumption DEF AllocObject
  <2>3. /\ heap' = IF r.heap.abort = "none" /\ r.ptr # 0 THEN Fill(r.heap, r.ptr, size, fill)
                                                       ELSE r.heap
        /\ live' = IF r.heap.abort = "none" /\ r.ptr # 0 THEN Added(live, r.ptr, size, fill)
                                                       ELSE live
    BY <1>2, <2>1, Zenon DEF AllocObject, Fill, Added, h
  <2>4. IF r.heap.abort = "none" /\ r.ptr # 0
        THEN Good(Fill(r.heap, r.ptr, size, fill), Added(live, r.ptr, size, fill))
        ELSE Good(r.heap, live)
    BY Zenon, <1>1, <2>1, <2>2, AllocGood
  <2>5. Good(heap', live')
    BY Zenon, <2>3, <2>4
  <2> QED
    BY Zenon, <2>5 DEF HeapInv
<1>3. ASSUME NEW ptr \in DOMAIN live, FreeObject(ptr) PROVE HeapInv'
  <2>1. heap' = Free(h, ptr) /\ live' = [p \in DOMAIN live \ {ptr} |-> live[p]] /\ Running
    BY Zenon, <1>3 DEF FreeObject, h
  <2>2. PICK lw : lw = [p \in DOMAIN live \ {ptr} |-> live[p]]
    BY Zenon
  <2>3. Good(Free(h, ptr), lw)
    BY Zenon, <1>1, <2>1, <2>2, FreeGood
  <2>4. Good(heap', live')
    BY Zenon, <2>1, <2>2, <2>3
  <2> QED
    BY Zenon, <2>4 DEF HeapInv
<1>4. ASSUME UNCHANGED vars PROVE HeapInv'
  BY Zenon, <1>4 DEF HeapInv, vars
<1> QED
  BY Zenon, <1>2, <1>3, <1>4 DEF Next

\* The assertions of AllocBlock, SplitBlock and RemoveBlock never fail.
THEOREM AssertionsHold ==
  ASSUME ObjectsSpareFooters PROVE Spec => []OnlyOffsetAssertFails
<1>1. HeapInv => OnlyOffsetAssertFails
  BY Zenon DEF HeapInv, Good, OnlyOffsetAssertFails
<1>2. HeapInv /\ [Next]_vars => HeapInv'
  BY Zenon, NextGood
<1> QED
  BY <1>1, <1>2, InitGood, PTL DEF Spec

\* No Alloc or Free, with the splitting and coalescing they do, changes a word
\* of an object that is still allocated.
THEOREM ObjectsKept ==
  ASSUME ObjectsSpareFooters PROVE Spec => []LiveDataIntact
<1>1. HeapInv => LiveDataIntact
  <2> SUFFICES ASSUME HeapInv, NEW p \in DOMAIN live, NEW i \in 0..(live[p].size \div 4 - 1)
               PROVE  Mem[p + 4 * i] = live[p].fill
    BY Zenon DEF LiveDataIntact
  <2>1. /\ p \in Offsets /\ live[p].size \in Sizes /\ p + live[p].size <= LastTag
        /\ \A a \in Offsets : p <= a /\ a + 4 <= p + live[p].size => Mem[a] = live[p].fill
    BY Zenon DEF HeapInv, Good, Kept, Mem
  <2>2. PICK n : n = live[p].size
    BY Zenon
  <2>3. n \in Nat /\ n % 4 = 0 /\ p \in Nat /\ p % 4 = 0 /\ LastTag \in Nat
    BY Zenon, <2>1, <2>2, SizeFacts, Geometry, AlignedOffsets DEF Aligned
  <2>4. i \in Nat /\ 4 * i + 4 <= n
    <3>1. n \div 4 \in Nat /\ 4 * (n \div 4) = n
      BY ONLY <2>3
    <3> QED
      BY <2>2, <3>1
  <2>5. Aligned(p + 4 * i) /\ p + 4 * i <= LastTag
    BY <2>1, <2>2, <2>3, <2>4 DEF Aligned
  <2>6. p + 4 * i \in Offsets
    BY Zenon, <2>5, AlignedOffsets
  <2> QED
    BY <2>1, <2>2, <2>3, <2>4, <2>6
<1>2. HeapInv /\ [Next]_vars => HeapInv'
  BY Zenon, NextGood
<1> QED
  BY <1>1, <1>2, InitGood, PTL DEF Spec

=============================================================================
