-------------------------- MODULE AllocatorProofs ---------------------------
(***************************************************************************)
(* What holds of the allocator for every heap size, every size class table *)
(* and every sequence of operations, also once the process has died half   *)
(* way through one: the heap stays well typed, and the modification list   *)
(* left for Sync covers every word the operation changed.                  *)
(*                                                                         *)
(* Both follow from one relation, Tracks(m, h): h is a heap, and wherever  *)
(* it differs from the memory m the operation started from, its            *)
(* modification list says so.  Write and WriteRange, the only operators    *)
(* that touch memory, preserve it, and each method is a composition of     *)
(* them.                                                                   *)
(***************************************************************************)
EXTENDS AllocatorSpec, TLAPS

Tracks(m, h) ==
  /\ h \in Heap
  /\ \A a \in Offsets : h.mem[a] # m[a] => Logged(h.mods, a)

\* A list that grows at its end covers what it covered before.
LEMMA AppendLogs ==
  ASSUME NEW mods \in Seq(Modification), NEW m \in Modification
  PROVE  /\ Append(mods, m) \in Seq(Modification)
         /\ \A a \in Int : Logged(mods, a) => Logged(Append(mods, m), a)
         /\ \A a \in Int : m.des <= a /\ a < m.des + m.len
                             => Logged(Append(mods, m), a)
<1>1. Append(mods, m) \in Seq(Modification)
  OBVIOUS
<1>2. /\ Len(Append(mods, m)) = Len(mods) + 1
      /\ Len(mods) \in Nat
      /\ \A i \in 1..Len(mods) : Append(mods, m)[i] = mods[i]
      /\ Append(mods, m)[Len(mods) + 1] = m
  OBVIOUS
<1>3. ASSUME NEW a \in Int, Logged(mods, a) PROVE Logged(Append(mods, m), a)
  BY <1>2, <1>3 DEF Logged
<1>4. ASSUME NEW a \in Int, m.des <= a, a < m.des + m.len
      PROVE  Logged(Append(mods, m), a)
  <2>1. Len(mods) + 1 \in 1..Len(Append(mods, m))
    BY <1>2
  <2>2. m.des < a + 4
    BY <1>4 DEF Modification
  <2> QED
    BY Zenon, <2>1, <2>2, <1>2, <1>4 DEF Logged
<1> QED
  BY Zenon, <1>1, <1>3, <1>4

\* Offsets into a tablet are integers.
LEMMA OffsetsAreIntegers == Offsets \subseteq Int
BY SizeAssumption DEF Offsets

\* Read returns an integer, also for an offset outside the tablet.
LEMMA ReadInt ==
  ASSUME NEW h \in Heap, NEW offset PROVE Read(h, offset) \in Int
BY DEF Read, Heap

\* Tag arithmetic stays within the integers.
LEMMA TagsInt ==
  ASSUME NEW word \in Int, NEW size \in Int
  PROVE  SizeOf(word) \in Int /\ SetTag(word) \in Int /\ KeepTag(word, size) \in Int
BY SizeAssumption DEF SizeOf, SetTag, KeepTag

\* A failing process changes neither memory nor list.
LEMMA DieTracks ==
  ASSUME NEW m, NEW h, Tracks(m, h), NEW why \in {"offset", "assert", "wild"}
  PROVE  Tracks(m, Die(h, why)) /\ Die(h, why).abort # "none"
<1>1. CASE h.abort = "none"
  <2>1. /\ Die(h, why).mem = h.mem /\ Die(h, why).mods = h.mods
        /\ Die(h, why).abort = why /\ Die(h, why) \in Heap
    BY Zenon, <1>1 DEF Die, Heap, Tracks
  <2> QED
    BY Zenon, <2>1 DEF Tracks
<1>2. CASE h.abort # "none"
  BY Zenon, <1>2 DEF Die
<1> QED
  BY Zenon, <1>1, <1>2

\* An assertion changes neither memory nor list.
LEMMA CheckTracks ==
  ASSUME NEW m, NEW h, Tracks(m, h), NEW cond
  PROVE  Tracks(m, Check(h, cond))
BY Zenon, DieTracks DEF Check

\* The checks of OffsetToPtr change neither memory nor list.
LEMMA AccessTracks ==
  ASSUME NEW m, NEW h, Tracks(m, h), NEW offset
  PROVE  Tracks(m, Access(h, offset))
BY Zenon, DieTracks DEF Access

\* Write: the one word stored is the one word recorded.
LEMMA WriteTracks ==
  ASSUME NEW m, NEW h, Tracks(m, h), NEW offset, NEW val \in Int
  PROVE  Tracks(m, Write(h, offset, val))
<1>1. SUFFICES ASSUME NEW g, Tracks(m, g), offset \in Offsets \/ g.abort # "none"
               PROVE  Tracks(m, StoreWord(g, offset, val))
  <2>1. offset \in Offsets \/ Access(h, offset).abort # "none"
    BY Zenon, DieTracks DEF Access
  <2> QED
    BY Zenon, <2>1, AccessTracks DEF Write
<1>2. CASE g.abort # "none"
  BY Zenon, <1>1, <1>2 DEF StoreWord
<1>3. CASE g.abort = "none"
  <2>0. offset \in Int
    BY Zenon, <1>1, <1>3, OffsetsAreIntegers
  <2> DEFINE mod == [des |-> offset, len |-> 4]
             w == StoreWord(g, offset, val)
  <2>1. mod \in Modification
    BY <2>0 DEF Modification
  <2>2. g.mods \in Seq(Modification) /\ g.mem \in [Offsets -> Int]
    BY Zenon, <1>1 DEF Tracks, Heap
  <2>3. /\ w.mods = Append(g.mods, mod) /\ w.mem = [g.mem EXCEPT ![offset] = val]
        /\ w \in Heap
    BY Zenon, <1>3, <2>1, <2>2, AppendLogs DEF StoreWord, Heap
  <2>4. ASSUME NEW a \in Offsets, w.mem[a] # m[a] PROVE Logged(w.mods, a)
    <3>1. a \in Int
      BY Zenon, OffsetsAreIntegers
    <3>2. CASE a = offset
      BY <3>1, <3>2, <2>1, <2>2, <2>3, AppendLogs
    <3>3. CASE a # offset
      <4>1. Logged(g.mods, a)
        BY Zenon, <3>3, <2>4, <2>3, <2>2, <1>1 DEF Tracks
      <4> QED
        BY <4>1, <3>1, <2>1, <2>2, <2>3, AppendLogs
    <3> QED
      BY Zenon, <3>2, <3>3
  <2> QED
    BY Zenon, <2>3, <2>4 DEF Tracks
<1> QED
  BY Zenon, <1>2, <1>3

\* WriteRange: every word stored is in the range recorded.
LEMMA WriteRangeTracks ==
  ASSUME NEW m, NEW h, Tracks(m, h), NEW offset \in Int, NEW len \in Int,
         NEW words \in [Offsets -> Int]
  PROVE  Tracks(m, WriteRange(h, offset, len, words))
<1>1. SUFFICES ASSUME NEW g, Tracks(m, g)
               PROVE  Tracks(m, StoreWords(g, offset, len, words))
  BY Zenon, AccessTracks DEF WriteRange
<1>2. CASE g.abort # "none"
  BY Zenon, <1>1, <1>2 DEF StoreWords
<1>3. CASE g.abort = "none"
  <2> DEFINE mod == [des |-> offset, len |-> len]
             w == StoreWords(g, offset, len, words)
  <2>1. mod \in Modification
    BY Zenon DEF Modification
  <2>2. g.mods \in Seq(Modification) /\ g.mem \in [Offsets -> Int]
    BY Zenon, <1>1 DEF Tracks, Heap
  <2>3. /\ w.mods = Append(g.mods, mod)
        /\ \A a \in Offsets : w.mem[a] = IF offset <= a /\ a < offset + len
                                        THEN words[a] ELSE g.mem[a]
        /\ w \in Heap
    BY Zenon, <1>3, <2>1, <2>2, AppendLogs DEF StoreWords, Heap
  <2>4. ASSUME NEW a \in Offsets, w.mem[a] # m[a] PROVE Logged(w.mods, a)
    <3>1. a \in Int
      BY Zenon, OffsetsAreIntegers
    <3>2. CASE offset <= a /\ a < offset + len
      BY <3>1, <3>2, <2>1, <2>2, <2>3, AppendLogs
    <3>3. CASE ~(offset <= a /\ a < offset + len)
      <4>1. Logged(g.mods, a)
        BY Zenon, <3>3, <2>4, <2>3, <1>1 DEF Tracks
      <4> QED
        BY Zenon, <4>1, <3>1, <2>1, <2>2, <2>3, AppendLogs
    <3> QED
      BY Zenon, <3>2, <3>3
  <2> QED
    BY Zenon, <2>3, <2>4 DEF Tracks
<1> QED
  BY Zenon, <1>2, <1>3

----------------------------------------------------------------------------
(* The helpers on tags, and each method in turn.                           *)

\* The free list of a block size is at an integer offset.
LEMMA FreeListInt ==
  ASSUME NEW blk_size \in Int PROVE GetFreeListByBlockSize(blk_size) \in Int
BY SizeAssumption DEF GetFreeListByBlockSize, GetLastFreeList, kNumFreeLists

\* So are the links of a block.
LEMMA FieldsInt ==
  ASSUME NEW blk \in Int PROVE PrevField(blk) \in Int /\ NextField(blk) \in Int
BY DEF PrevField, NextField

\* The first half of Tracks.
LEMMA TracksHeap == ASSUME NEW m, NEW h, Tracks(m, h) PROVE h \in Heap
BY Zenon DEF Tracks

\* SetTheFreeTag and ResetTheFreeTag log the tag they change.
LEMMA FreeTagTracks ==
  ASSUME NEW m, NEW h, Tracks(m, h), NEW blk \in Int, NEW blk_size \in Int
  PROVE  /\ Tracks(m, SetTheFreeTag(h, blk, blk_size))
         /\ Tracks(m, ResetTheFreeTag(h, blk, blk_size))
<1> DEFINE tag == blk + blk_size
<1>1. tag \in Int /\ Read(h, tag) \in Int
  BY ReadInt, TracksHeap
<1>2. SetTag(Read(h, tag)) \in Int /\ SizeOf(Read(h, tag)) \in Int
  BY Zenon, <1>1, TagsInt
<1> HIDE DEF tag
<1>3. /\ Tracks(m, Write(h, tag, SetTag(Read(h, tag))))
      /\ Tracks(m, Write(h, tag, SizeOf(Read(h, tag))))
  BY Zenon, <1>1, <1>2, WriteTracks
<1> QED
  BY Zenon, <1>3 DEF SetTheFreeTag, ResetTheFreeTag, tag

\* The stores of a size to header and footer are logged.
LEMMA SetSizeTracks ==
  ASSUME NEW m, NEW h, Tracks(m, h), NEW blk \in Int, NEW size \in Int
  PROVE  Tracks(m, SetSize(h, blk, size))
<1>1. KeepTag(Read(h, blk), size) \in Int
  BY Zenon, ReadInt, TracksHeap, TagsInt
<1>2. Tracks(m, Write(h, blk, KeepTag(Read(h, blk), size)))
  BY Zenon, <1>1, WriteTracks
<1>3. blk + size - 4 \in Int
  OBVIOUS
<1> QED
  BY Zenon, <1>2, <1>3, WriteTracks DEF SetSize

\* RemoveBlock logs the links and the list head it changes.
LEMMA RemoveBlockTracks ==
  ASSUME NEW m, NEW h, Tracks(m, h), NEW blk \in Int, NEW blk_size \in Int
  PROVE  Tracks(m, RemoveBlock(h, blk, blk_size))
<1> DEFINE prev_blk == Read(h, PrevField(blk))
           next_blk == Read(h, NextField(blk))
           h0 == Check(Access(Access(Access(h, blk + blk_size),
                                     PrevField(blk)), NextField(blk)),
                       ReadTheFreeTag(h, blk, blk_size))
           h1 == IF prev_blk # 0
                 THEN Write(h0, NextField(prev_blk), next_blk)
                 ELSE Write(h0, GetFreeListByBlockSize(blk_size), next_blk)
           h2 == IF next_blk # 0 THEN Write(h1, PrevField(next_blk), prev_blk)
                                 ELSE h1
<1>1. prev_blk \in Int /\ next_blk \in Int
  BY Zenon, ReadInt, TracksHeap
<1>2. Tracks(m, h0)
  BY Zenon, AccessTracks, CheckTracks
<1>3. RemoveBlock(h, blk, blk_size) = h2
  BY Zenon DEF RemoveBlock
<1> HIDE DEF prev_blk, next_blk, h0
<1>4. Tracks(m, h1)
  BY Zenon, <1>1, <1>2, WriteTracks, FieldsInt, FreeListInt
<1> HIDE DEF h1
<1> QED
  BY <1>1, <1>3, <1>4, WriteTracks, FieldsInt

\* SplitBlock logs all it changes, and returns an integer offset.
LEMMA SplitBlockTracks ==
  ASSUME NEW m, NEW h, Tracks(m, h), NEW blk \in Int, NEW blk_size \in Int,
         NEW needed_size \in Int
  PROVE  /\ Tracks(m, SplitBlock(h, blk, blk_size, needed_size).heap)
         /\ SplitBlock(h, blk, blk_size, needed_size).blk \in Int
<1> DEFINE next_blk == Read(h, NextField(blk))
           new_size == blk_size - needed_size
           old_list == GetFreeListByBlockSize(blk_size)
           free_list == GetFreeListByBlockSize(new_size)
           h0 == Check(Access(h, NextField(blk)), blk_size > needed_size)
           h1 == Write(h0, old_list, next_blk)
           h2 == IF next_blk # 0 THEN Write(h1, PrevField(next_blk), 0) ELSE h1
           h3 == SetSize(h2, blk, new_size)
           head == Read(h3, free_list)
           h4 == Write(Access(h3, free_list), PrevField(blk), 0)
           h5 == Write(h4, NextField(blk), head)
           h6 == Write(h5, free_list, blk)
           h7 == IF head # 0 THEN Write(h6, PrevField(head), blk) ELSE h6
           h8 == Write(h7, blk + new_size, kFreeMask + needed_size)
           h9 == Write(h8, blk + blk_size - 4, needed_size)
           h10 == ResetTheFreeTag(h9, blk + new_size, needed_size)
<1>1. SplitBlock(h, blk, blk_size, needed_size)
        = [heap |-> h10, blk |-> blk + new_size]
  BY Zenon DEF SplitBlock
<1>2. /\ new_size \in Int /\ blk + new_size \in Int /\ blk + blk_size - 4 \in Int
      /\ kFreeMask + needed_size \in Int
  BY SizeAssumption
<1>3. /\ next_blk \in Int /\ old_list \in Int /\ free_list \in Int
      /\ NextField(blk) \in Int /\ PrevField(blk) \in Int
  BY Zenon, <1>2, ReadInt, TracksHeap, FreeListInt, FieldsInt
<1>4. Tracks(m, h0)
  BY Zenon, AccessTracks, CheckTracks
<1> HIDE DEF next_blk, new_size, old_list, free_list, h0
<1>5. Tracks(m, h1)
  BY Zenon, <1>3, <1>4, WriteTracks
<1> HIDE DEF h1
<1>6. Tracks(m, h2)
  BY <1>3, <1>5, FieldsInt, WriteTracks
<1> HIDE DEF h2
<1>7. Tracks(m, h3)
  BY Zenon, <1>2, <1>6, SetSizeTracks
<1> HIDE DEF h3
<1>8. head \in Int
  BY Zenon, <1>7, ReadInt, TracksHeap
<1> HIDE DEF head
<1>9. Tracks(m, h4)
  BY <1>3, <1>7, AccessTracks, WriteTracks
<1> HIDE DEF h4
<1>10. Tracks(m, h5)
  BY Zenon, <1>3, <1>8, <1>9, WriteTracks
<1> HIDE DEF h5
<1>11. Tracks(m, h6)
  BY Zenon, <1>3, <1>10, WriteTracks
<1> HIDE DEF h6
<1>12. Tracks(m, h7)
  BY Zenon, <1>8, <1>11, FieldsInt, WriteTracks
<1> HIDE DEF h7
<1>13. Tracks(m, h8)
  BY Zenon, <1>2, <1>12, WriteTracks
<1> HIDE DEF h8
<1>14. Tracks(m, h9)
  BY Zenon, <1>2, <1>13, WriteTracks
<1> HIDE DEF h9
<1>15. Tracks(m, h10)
  BY Zenon, <1>2, <1>14, FreeTagTracks
<1> HIDE DEF h10
<1> QED
  BY <1>1, <1>2, <1>15

\* So does AllocBlock, whichever of its branches it takes.
LEMMA AllocBlockTracks ==
  ASSUME NEW m, NEW h, Tracks(m, h), NEW blk_size \in Int
  PROVE  /\ Tracks(m, AllocBlock(h, blk_size).heap)
         /\ AllocBlock(h, blk_size).blk \in Int
<1> DEFINE first == GetFreeListByBlockSize(blk_size)
           lists == {l \in Offsets : /\ first <= l /\ l <= GetLastFreeList
                                     /\ Read(h, l) # 0}
           free_list == CHOOSE l \in lists : \A k \in lists : l <= k
           head == Read(h, free_list)
           head_size == ReadTheSizeTag(h, head)
           next_blk == Read(h, NextField(head))
           h0 == Access(h, first)
           h1 == Check(Access(Access(h0, head), head + head_size),
                       ReadTheFreeTag(h, head, head_size) /\ head_size >= blk_size)
           h2 == ResetTheFreeTag(h1, head, head_size)
           h3 == Write(h2, free_list, next_blk)
           h4 == Write(h3, PrevField(next_blk), 0)
<1>1. AllocBlock(h, blk_size) =
        IF h0.abort # "none" \/ lists = {} THEN [heap |-> h0, blk |-> 0]
        ELSE IF head_size = blk_size THEN [heap |-> h4, blk |-> head]
        ELSE SplitBlock(h1, head, head_size, blk_size)
  BY Zenon DEF AllocBlock
<1>2. head \in Int /\ next_blk \in Int
  BY Zenon, ReadInt, TracksHeap
<1>3. head_size \in Int
  BY Zenon, ReadInt, TracksHeap, TagsInt DEF ReadTheSizeTag
<1>4. Tracks(m, h0)
  BY Zenon, AccessTracks
<1> HIDE DEF lists, free_list, head, head_size, next_blk, h0
<1>5. Tracks(m, h1)
  BY Zenon, <1>4, AccessTracks, CheckTracks
<1> HIDE DEF h1
<1>6. Tracks(m, h2)
  BY Zenon, <1>2, <1>3, <1>5, FreeTagTracks
<1> HIDE DEF h2
<1>7. Tracks(m, h3)
  BY Zenon, <1>2, <1>6, WriteTracks
<1> HIDE DEF h3
<1>8. Tracks(m, h4)
  BY <1>7, WriteTracks
<1> HIDE DEF h4
<1> QED
  BY <1>1, <1>2, <1>3, <1>4, <1>5, <1>8, SplitBlockTracks

\* So does the push on a free list.
LEMMA PushBlockTracks ==
  ASSUME NEW m, NEW h, Tracks(m, h), NEW blk \in Int, NEW free_list
  PROVE  Tracks(m, PushBlock(h, blk, free_list))
<1> DEFINE head == Read(h, free_list)
           h1 == Write(Access(h, free_list), free_list, blk)
           h2 == Write(h1, PrevField(blk), 0)
           h3 == Write(h2, NextField(blk), head)
<1>1. PushBlock(h, blk, free_list) = IF head # 0 THEN Write(h3, PrevField(head), blk) ELSE h3
  BY Zenon DEF PushBlock
<1>2. head \in Int
  BY Zenon, ReadInt, TracksHeap
<1> HIDE DEF head
<1>3. Tracks(m, h1)
  BY Zenon, AccessTracks, WriteTracks
<1> HIDE DEF h1
<1>4. Tracks(m, h2)
  BY <1>3, WriteTracks
<1> HIDE DEF h2
<1>5. Tracks(m, h3)
  BY Zenon, <1>2, <1>4, WriteTracks
<1> HIDE DEF h3
<1> QED
  BY Zenon, <1>1, <1>5, WriteTracks

\* FreeBlock logs all it changes, merging on neither, one or both sides.
LEMMA FreeBlockTracks ==
  ASSUME NEW m, NEW h, Tracks(m, h), NEW block \in Int
  PROVE  Tracks(m, FreeBlock(h, block))
<1> DEFINE size0 == ReadTheSizeTag(h, block)
           prev_size == Read(h, block - 4)
           next_blk == block + size0
           next_size == ReadTheSizeTag(h, next_blk)
           h0 == Access(Access(Access(Access(h, block), block - 4), next_blk),
                        next_blk + next_size)
           with_prev == /\ ReadThePrevFreeTag(h, block)
                        /\ size0 <= kMaxBlockSize /\ prev_size <= kMaxBlockSize
           h1 == IF with_prev THEN RemoveBlock(h0, block - prev_size, prev_size)
                              ELSE h0
           blk == IF with_prev THEN block - prev_size ELSE block
           size1 == IF with_prev THEN size0 + prev_size ELSE size0
           with_next == /\ ReadTheFreeTag(h1, next_blk, next_size)
                        /\ size1 <= kMaxBlockSize /\ next_size <= kMaxBlockSize
           h2 == IF with_next THEN RemoveBlock(h1, next_blk, next_size) ELSE h1
           size == IF with_next THEN size1 + next_size ELSE size1
           h3 == IF size # size0 THEN SetSize(h2, blk, size) ELSE h2
           h4 == SetTheFreeTag(h3, blk, size)
           free_list == GetFreeListByBlockSize(size)
<1>1. FreeBlock(h, block) = PushBlock(h4, blk, free_list)
  BY Zenon DEF FreeBlock
<1>2. size0 \in Int /\ prev_size \in Int
  BY Zenon, ReadInt, TracksHeap, TagsInt DEF ReadTheSizeTag
<1>3. next_size \in Int
  BY Zenon, ReadInt, TracksHeap, TagsInt DEF ReadTheSizeTag
<1>4. Tracks(m, h0)
  BY Zenon, AccessTracks
<1> HIDE DEF size0, prev_size, next_size, h0
<1>5. next_blk \in Int /\ blk \in Int /\ size1 \in Int
  BY <1>2
<1>6. Tracks(m, h1)
  <2>1. block - prev_size \in Int
    BY <1>2
  <2> QED
    BY Zenon, <2>1, <1>2, <1>4, RemoveBlockTracks
<1> HIDE DEF next_blk, blk, size1, with_prev, h1
<1>7. Tracks(m, h2)
  BY Zenon, <1>3, <1>5, <1>6, RemoveBlockTracks
<1>8. size \in Int
  BY <1>3, <1>5
<1> HIDE DEF with_next, h2, size
<1>9. Tracks(m, h3)
  BY Zenon, <1>5, <1>7, <1>8, SetSizeTracks
<1> HIDE DEF h3
<1>10. Tracks(m, h4)
  BY Zenon, <1>5, <1>8, <1>9, FreeTagTracks
<1> HIDE DEF h4
<1> QED
  BY Zenon, <1>1, <1>5, <1>10, PushBlockTracks

\* Alloc logs all it changes.
LEMMA AllocTracks ==
  ASSUME NEW m, NEW h, Tracks(m, h), NEW size \in Int
  PROVE  Tracks(m, Alloc(h, size).heap) /\ Alloc(h, size).ptr \in Int
<1> DEFINE h0 == Check(h, size + 4 <= kMaxBlockSize)
           blk_size == RoundupBlockSize(size + 4)
           r == AllocBlock(h0, blk_size)
<1>1. Alloc(h, size) = [heap |-> r.heap, ptr |-> IF r.blk = 0 THEN 0 ELSE r.blk + 4]
  BY Zenon DEF Alloc, ObjectIn
<1>2. Tracks(m, h0)
  BY Zenon, CheckTracks
<1>3. blk_size \in Int
  BY DEF RoundupBlockSize
<1> HIDE DEF h0, blk_size
<1>4. Tracks(m, r.heap) /\ r.blk \in Int
  BY Zenon, <1>2, <1>3, AllocBlockTracks
<1> HIDE DEF r
<1> QED
  BY <1>1, <1>4

\* Free logs all it changes.
LEMMA FreeTracks ==
  ASSUME NEW m, NEW h, Tracks(m, h), NEW ptr \in Int
  PROVE  Tracks(m, Free(h, ptr))
<1>1. ptr - 4 \in Int
  OBVIOUS
<1>2. Tracks(m, Check(h, ptr > 4 /\ ptr <= kSize))
  BY Zenon, CheckTracks
<1> QED
  BY Zenon, <1>1, <1>2, FreeBlockTracks DEF Free

----------------------------------------------------------------------------
(* The two theorems.                                                       *)

\* set_modifications starts an empty list and leaves the memory alone.
LEMMA ClearHeap ==
  ASSUME NEW h \in Heap
  PROVE  set_modifications(h) \in Heap /\ set_modifications(h).mem = h.mem
<1>1. <<>> \in Seq(Modification)
  OBVIOUS
<1> QED
  BY Zenon, <1>1 DEF set_modifications, Heap

\* An operation starts with nothing changed and nothing logged.
LEMMA StartTracks ==
  ASSUME heap \in Heap PROVE Tracks(heap.mem, set_modifications(heap))
BY Zenon, ClearHeap DEF Tracks

\* Format leaves a well-typed heap.
LEMMA FormatHeap == Format \in Heap
<1> DEFINE zero == [mem |-> [a \in Offsets |-> 0], mods |-> <<>>,
                    abort |-> "none"]
           size == LastTag - FirstBlock
           h1 == Write(zero, GetLastFreeList, FirstBlock)
           h2 == Write(h1, FirstBlock, size)
           h3 == Write(h2, LastTag - 4, size)
           h4 == SetTheFreeTag(h3, FirstBlock, size)
<1>1. Format = set_modifications(h4)
  BY Zenon DEF Format
<1>2. FirstBlock \in Int /\ LastTag \in Int /\ size \in Int
  BY SizeAssumption DEF FirstBlock, LastTag, kNumFreeLists
<1>3. Tracks(zero.mem, zero)
  BY DEF Tracks, Heap
<1> HIDE DEF zero, size
<1>4. Tracks(zero.mem, h1)
  BY Zenon, <1>2, <1>3, WriteTracks
<1> HIDE DEF h1
<1>5. Tracks(zero.mem, h2)
  BY Zenon, <1>2, <1>4, WriteTracks
<1> HIDE DEF h2
<1>6. Tracks(zero.mem, h3)
  BY Zenon, <1>2, <1>5, WriteTracks
<1> HIDE DEF h3
<1>7. h4 \in Heap
  BY Zenon, <1>2, <1>6, FreeTagTracks, TracksHeap
<1> HIDE DEF h4
<1> QED
  BY Zenon, <1>1, <1>7, ClearHeap

\* Allocating and filling an object keeps types and logs all stores.
LEMMA AllocObjectStep ==
  ASSUME TypeOK, NEW size \in Sizes, NEW fill \in Fills, AllocObject(size, fill)
  PROVE  TypeOK' /\ Tracks(heap.mem, heap')
<1> DEFINE r == Alloc(set_modifications(heap), size)
           got == r.heap.abort = "none" /\ r.ptr # 0
           words == [a \in Offsets |-> fill]
<1>1. size \in Int /\ fill \in Int
  BY UserAssumption, SizeAssumption
<1>2. Tracks(heap.mem, r.heap) /\ r.ptr \in Int
  BY Zenon, <1>1, StartTracks, AllocTracks DEF TypeOK
<1>3. words \in [Offsets -> Int]
  BY Zenon, <1>1
<1>4. /\ heap' = IF got THEN WriteRange(r.heap, r.ptr, size, words) ELSE r.heap
      /\ live' = IF got
                 THEN [p \in DOMAIN live \cup {r.ptr} |->
                         IF p = r.ptr THEN [size |-> size, fill |-> fill]
                                      ELSE live[p]]
                 ELSE live
  BY Zenon DEF AllocObject
<1> HIDE DEF r, words
<1>5. Tracks(heap.mem, heap')
  BY Zenon, <1>1, <1>2, <1>3, <1>4, WriteRangeTracks
<1>6. ASSUME NEW p \in DOMAIN live'
      PROVE  p \in Int \ {0} /\ live'[p] \in [size : Sizes, fill : Fills]
  BY Zenon, <1>2, <1>4 DEF TypeOK
<1> QED
  BY Zenon, <1>5, <1>6, TracksHeap DEF TypeOK

\* Freeing an object keeps types and logs all stores.
LEMMA FreeObjectStep ==
  ASSUME TypeOK, NEW ptr \in DOMAIN live, FreeObject(ptr)
  PROVE  TypeOK' /\ Tracks(heap.mem, heap')
<1>1. Tracks(heap.mem, heap')
  BY Zenon, StartTracks, FreeTracks DEF TypeOK, FreeObject
<1>2. ASSUME NEW p \in DOMAIN live'
      PROVE  p \in Int \ {0} /\ live'[p] \in [size : Sizes, fill : Fills]
  BY Zenon DEF TypeOK, FreeObject
<1> QED
  BY Zenon, <1>1, <1>2, TracksHeap DEF TypeOK

\* Every step keeps types and logs all stores.
LEMMA NextStep ==
  ASSUME TypeOK, Next PROVE TypeOK' /\ Tracks(heap.mem, heap')
BY Zenon, AllocObjectStep, FreeObjectStep DEF Next

\* Whatever is allocated and freed, whatever user data the allocator takes
\* for tags, the heap remains a heap and Alloc's null offset is never used.
THEOREM TypeCorrect == Spec => []TypeOK
<1>1. Init => TypeOK
  BY Zenon, FormatHeap DEF Init, TypeOK, NoObjects
<1>2. TypeOK /\ [Next]_vars => TypeOK'
  <2>1. ASSUME TypeOK, UNCHANGED vars PROVE TypeOK'
    BY Zenon, <2>1 DEF TypeOK, vars
  <2> QED
    BY Zenon, <2>1, NextStep
<1> QED
  BY <1>1, <1>2, PTL DEF Spec

\* Replication loses nothing at its source: in every step of every behaviour,
\* with any heap size, each word that changes is covered by the modification
\* list that Serve hands to Sync.
THEOREM ModificationsComplete == Spec => ModificationsCover
<1> DEFINE Covers == \A a \in Offsets : heap'.mem[a] # heap.mem[a]
                                         => Logged(heap'.mods, a)
<1>1. TypeOK /\ [Next]_vars => [Covers]_vars
  BY Zenon, NextStep DEF Tracks
<1>2. ModificationsCover <=> [][Covers]_vars
  BY Zenon DEF ModificationsCover
<1> QED
  BY <1>1, <1>2, TypeCorrect, PTL DEF Spec

=============================================================================
