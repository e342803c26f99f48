----------------------------- MODULE Allocator -----------------------------
(***************************************************************************)
(* The heap allocator of one tablet (src/src/allocator.{h,cc}), a          *)
(* boundary-tag allocator after Doug Lea's malloc.  Each C++ method is an  *)
(* operator from a heap to a heap, so that the modules that use the        *)
(* allocator compose the operators inside their own actions.               *)
(*                                                                         *)
(* A heap is a record                                                      *)
(*   mem    the 32-bit words of the tablet, indexed by their byte offset,  *)
(*   mods   the modification list the operation fills (`modifications_'),  *)
(*   abort  "none", or how the process died: "offset" and "assert" are     *)
(*          failed assertions, "wild" an access outside the tablet.        *)
(* Once the process is dead every operator leaves the heap alone.          *)
(*                                                                         *)
(* Bit 31 of a word is the free tag of the block BEFORE the word.  A word  *)
(* is an integer, and the bit counts kFreeMask.                            *)
(***************************************************************************)
EXTENDS Integers, Sequences

CONSTANTS
  kMaxBlockSize,  \* largest block with a free list of its own, in bytes
  kSize,          \* bytes managed by the allocator
  kRegionSize,    \* bytes of the tablet: the heap and what follows it
  kFreeMask       \* weight of bit 31

ASSUME SizeAssumption ==
  /\ kMaxBlockSize \in Nat /\ kMaxBlockSize >= 32 /\ kMaxBlockSize % 16 = 0
  /\ kSize \in Nat /\ kSize % 4 = 0
  /\ kSize >= 4 * (kMaxBlockSize \div 16 + 1) + 4 + kMaxBlockSize + 16
  /\ kRegionSize \in Nat /\ kRegionSize >= kSize
  /\ kFreeMask \in Nat /\ kFreeMask > kRegionSize

Offsets == {a \in 0..(kRegionSize - 1) : a % 4 = 0}

Modification == [des : Int, len : Int]

Heap == [mem : [Offsets -> Int], mods : Seq(Modification),
         abort : {"none", "offset", "assert", "wild"}]

\* Does some modification of the list touch the word at offset a?
Logged(mods, a) ==
  \E i \in 1..Len(mods) : mods[i].des < a + 4 /\ a < mods[i].des + mods[i].len

----------------------------------------------------------------------------
(* Size classes.  List i holds the free blocks of (i + 1) * 16 bytes, the  *)
(* last list every block larger than kMaxBlockSize.                        *)

kNumFreeLists == kMaxBlockSize \div 16 + 1

GetLastFreeList == (kNumFreeLists - 1) * 4

GetFreeListByBlockSize(blk_size) ==
  IF blk_size <= kMaxBlockSize THEN (blk_size \div 16 - 1) * 4
                               ELSE GetLastFreeList

RoundupBlockSize(blk_size) == ((blk_size + 15) \div 16) * 16

\* The offsets of the list heads.
Lists == {4 * i : i \in 0..(kNumFreeLists - 1)}

FirstBlock == kNumFreeLists * 4

\* The tag word after the last block.
LastTag == FirstBlock + ((kSize - FirstBlock - 4) \div 16) * 16

----------------------------------------------------------------------------
(* Access to the tablet's memory.                                          *)

Die(h, why) == IF h.abort = "none" THEN [h EXCEPT !.abort = why] ELSE h

\* assert(cond)
Check(h, cond) == IF cond THEN h ELSE Die(h, "assert")

\* The `assert(offset)' of Read and Write, then the access itself.
Access(h, offset) ==
  IF offset = 0 THEN Die(h, "offset")
  ELSE IF offset \notin Offsets THEN Die(h, "wild") ELSE h

Read(h, offset) == IF offset \in Offsets THEN h.mem[offset] ELSE 0

\* Store one word, and note it in the modification list.
StoreWord(h, offset, val) ==
  IF h.abort # "none" THEN h
  ELSE [mem |-> [h.mem EXCEPT ![offset] = val],
        mods |-> Append(h.mods, [des |-> offset, len |-> 4]),
        abort |-> "none"]

Write(h, offset, val) == StoreWord(Access(h, offset), offset, val)

\* Store len bytes, words[a] at each offset a.
StoreWords(h, offset, len, words) ==
  IF h.abort # "none" THEN h
  ELSE [mem |-> [a \in Offsets |-> IF offset <= a /\ a < offset + len
                                  THEN words[a] ELSE h.mem[a]],
        mods |-> Append(h.mods, [des |-> offset, len |-> len]),
        abort |-> "none"]

\* A Memcpy, or a Write of a structure, of len bytes (a multiple of 4).
WriteRange(h, offset, len, words) ==
  StoreWords(Access(Access(h, offset), offset + len - 4), offset, len, words)

SizeOf(word) == IF word >= kFreeMask THEN word - kFreeMask ELSE word
Tagged(word) == word >= kFreeMask
SetTag(word) == SizeOf(word) + kFreeMask

\* ReadThePrevFreeTag(blk) | size
DropTag(word, size) == size
KeepTag(word, size) == IF Tagged(word) THEN size + kFreeMask ELSE size

ReadTheSizeTag(h, blk) == SizeOf(Read(h, blk))
ReadThePrevFreeTag(h, blk) == Tagged(Read(h, blk))
ReadTheFreeTag(h, blk, blk_size) == Tagged(Read(h, blk + blk_size))

SetTheFreeTagForgotten(h, blk, blk_size) == h
SetTheFreeTagUnlogged(h, blk, blk_size) ==
  IF blk + blk_size \in Offsets
  THEN [h EXCEPT !.mem[blk + blk_size] = SetTag(@)] ELSE h
SetTheFreeTag(h, blk, blk_size) ==
  Write(h, blk + blk_size, SetTag(Read(h, blk + blk_size)))

ResetTheFreeTagForgotten(h, blk, blk_size) == h
ResetTheFreeTag(h, blk, blk_size) ==
  Write(h, blk + blk_size, SizeOf(Read(h, blk + blk_size)))

\* Record a new size in a free block's header and footer.
SetSizeHeaderOnly(h, blk, size) == Write(h, blk, KeepTag(Read(h, blk), size))
SetSizeFooterOnly(h, blk, size) == Write(h, blk + size - 4, size)
SetSize(h, blk, size) ==
  Write(Write(h, blk, KeepTag(Read(h, blk), size)), blk + size - 4, size)

\* offsetof(BlockHeader, prev) and offsetof(BlockHeader, next)
PrevField(blk) == blk + 4
NextField(blk) == blk + 8

----------------------------------------------------------------------------
(* Free lists and blocks.                                                  *)

RemoveBlockForward(h, blk, blk_size) ==
  LET prev_blk == Read(h, PrevField(blk))
      next_blk == Read(h, NextField(blk))
  IN  IF prev_blk # 0
      THEN Write(h, NextField(prev_blk), next_blk)
      ELSE Write(h, GetFreeListByBlockSize(blk_size), next_blk)

\* Unlink a free block from the doubly linked list of its class.
RemoveBlock(h, blk, blk_size) ==
  LET prev_blk == Read(h, PrevField(blk))
      next_blk == Read(h, NextField(blk))
      h0 == Check(Access(Access(Access(h, blk + blk_size),
                                PrevField(blk)), NextField(blk)),
                  ReadTheFreeTag(h, blk, blk_size))
      h1 == IF prev_blk # 0
            THEN Write(h0, NextField(prev_blk), next_blk)
            ELSE Write(h0, GetFreeListByBlockSize(blk_size), next_blk)
  IN  IF next_blk # 0 THEN Write(h1, PrevField(next_blk), prev_blk) ELSE h1

\* Take blk, the head of its list, and return its upper needed_size bytes;
\* the rest stays free and moves to the head of the list of its new class.
SplitBlock(h, blk, blk_size, needed_size) ==
  LET next_blk == Read(h, NextField(blk))
      new_size == blk_size - needed_size
      h0 == Check(Access(h, NextField(blk)), blk_size > needed_size)
      h1 == Write(h0, GetFreeListByBlockSize(blk_size), next_blk)
      h2 == IF next_blk # 0 THEN Write(h1, PrevField(next_blk), 0) ELSE h1
      h3 == SetSize(h2, blk, new_size)
      free_list == GetFreeListByBlockSize(new_size)
      head == Read(h3, free_list)
      h4 == Write(Access(h3, free_list), PrevField(blk), 0)
      h5 == Write(h4, NextField(blk), head)
      h6 == Write(h5, free_list, blk)
      h7 == IF head # 0 THEN Write(h6, PrevField(head), blk) ELSE h6
      h8 == Write(h7, blk + new_size, kFreeMask + needed_size)
      h9 == Write(h8, blk + blk_size - 4, needed_size)
      h10 == ResetTheFreeTag(h9, blk + new_size, needed_size)
  IN  [heap |-> h10, blk |-> blk + new_size]

\* Scan the lists upwards from the class of blk_size for the first that is
\* not empty, and take its head whole or split it.  The result's blk is 0
\* when every list is empty.
AllocBlock(h, blk_size) ==
  LET first == GetFreeListByBlockSize(blk_size)
      lists == {l \in Offsets : /\ first <= l /\ l <= GetLastFreeList
                                /\ Read(h, l) # 0}
      free_list == CHOOSE l \in lists : \A m \in lists : l <= m
      head == Read(h, free_list)
      head_size == ReadTheSizeTag(h, head)
      next_blk == Read(h, NextField(head))
      h0 == Access(h, first)
      h1 == Check(Access(Access(h0, head), head + head_size),
                  ReadTheFreeTag(h, head, head_size) /\ head_size >= blk_size)
      h2 == ResetTheFreeTag(h1, head, head_size)
      h3 == Write(h2, free_list, next_blk)
      \* unconditional: with next_blk = 0 this stores at offset 4
      h4 == Write(h3, PrevField(next_blk), 0)
  IN  IF h0.abort # "none" \/ lists = {} THEN [heap |-> h0, blk |-> 0]
      ELSE IF head_size = blk_size THEN [heap |-> h4, blk |-> head]
      ELSE SplitBlock(h1, head, head_size, blk_size)

\* Put blk at the head of a list.
PushBlock(h, blk, free_list) ==
  LET head == Read(h, free_list)
      h1 == Write(Access(h, free_list), free_list, blk)
      h2 == Write(Write(h1, PrevField(blk), 0), NextField(blk), head)
  IN  IF head # 0 THEN Write(h2, PrevField(head), blk) ELSE h2

\* Give blk back: merge it with its free neighbours while the parts are not
\* larger than kMaxBlockSize, and push the result on the list of its class.
\* Header and footer are only written when the size changed.
FreeBlock(h, block) ==
  LET size0 == ReadTheSizeTag(h, block)
      prev_size == Read(h, block - 4)
      next_blk == block + size0
      next_size == ReadTheSizeTag(h, next_blk)
      h0 == Access(Access(Access(Access(h, block), block - 4), next_blk),
                   next_blk + next_size)
      with_prev == /\ ReadThePrevFreeTag(h, block)
                   /\ size0 <= kMaxBlockSize /\ prev_size <= kMaxBlockSize
      h1 == IF with_prev THEN RemoveBlock(h0, block - prev_size, prev_size)
                         ELSE h0
      blk == IF with_prev THEN block - prev_size ELSE block
      size1 == IF with_prev THEN size0 + prev_size ELSE size0
      with_next == /\ ReadTheFreeTag(h1, next_blk, next_size)
                   /\ size1 <= kMaxBlockSize /\ next_size <= kMaxBlockSize
      h2 == IF with_next THEN RemoveBlock(h1, next_blk, next_size) ELSE h1
      size == IF with_next THEN size1 + next_size ELSE size1
      h3 == IF size # size0 THEN SetSize(h2, blk, size) ELSE h2
  IN  PushBlock(SetTheFreeTag(h3, blk, size), blk, GetFreeListByBlockSize(size))

----------------------------------------------------------------------------
(* The interface.                                                          *)

set_modifications(h) == [h EXCEPT !.mods = <<>>]

\* One free block from the end of the list table to the last tag word.
Format ==
  LET zero == [mem |-> [a \in Offsets |-> 0], mods |-> <<>>, abort |-> "none"]
      size == LastTag - FirstBlock
      h1 == Write(zero, GetLastFreeList, FirstBlock)
      h2 == Write(h1, FirstBlock, size)
      h3 == Write(h2, LastTag - 4, size)
  IN  set_modifications(SetTheFreeTag(h3, FirstBlock, size))

\* The result's ptr is 0 when there is no space.
ObjectIn(r) == [heap |-> r.heap, ptr |-> IF r.blk = 0 THEN 0 ELSE r.blk + 4]
Alloc(h, size) ==
  ObjectIn(AllocBlock(Check(h, size + 4 <= kMaxBlockSize),
                      RoundupBlockSize(size + 4)))

Free(h, ptr) ==
  FreeBlock(Check(h, ptr > 4 /\ ptr <= kSize), ptr - 4)

============================================================================
