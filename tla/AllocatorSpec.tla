--------------------------- MODULE AllocatorSpec ---------------------------
(***************************************************************************)
(* One tablet's allocator in use: its single worker thread allocates       *)
(* objects, fills them, and frees them, in any order.  `live' remembers    *)
(* what the user of the allocator believes: the objects it holds and the   *)
(* word it filled each of them with.                                       *)
(***************************************************************************)
EXTENDS Allocator, FiniteSets

CONSTANTS
  Sizes,   \* object sizes the user asks for, in bytes
  Fills    \* words the user stores in an object

ASSUME UserAssumption ==
  /\ Sizes \subseteq {n \in 12..(kMaxBlockSize - 4) : n % 4 = 0}
  /\ Fills \subseteq 0..(2 * kFreeMask - 1)

VARIABLES
  heap,    \* the allocator and its memory, see Allocator
  live     \* function from the offset of an object to its size and contents

vars == <<heap, live>>

NoObjects == [p \in {} |-> [size |-> 0, fill |-> 0]]

Init == heap = Format /\ live = NoObjects

Running == heap.abort = "none"

AllocObjectUnchecked(size, fill) ==
  LET r == Alloc(set_modifications(heap), size)
  IN  /\ Running
      /\ heap' = WriteRange(r.heap, r.ptr, size, [a \in Offsets |-> fill])
      /\ live' = [p \in DOMAIN live \cup {r.ptr} |->
                    IF p = r.ptr THEN [size |-> size, fill |-> fill]
                                 ELSE live[p]]

\* Tablet::Put and Tablet::Add: ask for an object and fill all of it.
AllocObject(size, fill) ==
  LET r == Alloc(set_modifications(heap), size)
      got == r.heap.abort = "none" /\ r.ptr # 0
  IN  /\ Running
      /\ heap' = IF got THEN WriteRange(r.heap, r.ptr, size, [a \in Offsets |-> fill])
                        ELSE r.heap
      /\ live' = IF got
                 THEN [p \in DOMAIN live \cup {r.ptr} |->
                         IF p = r.ptr THEN [size |-> size, fill |-> fill]
                                      ELSE live[p]]
                 ELSE live

\* Tablet::Del, and Tablet::Put when it replaces an object.
FreeObject(ptr) ==
  /\ Running
  /\ heap' = Free(set_modifications(heap), ptr)
  /\ live' = [p \in DOMAIN live \ {ptr} |-> live[p]]

Next ==
  \/ \E size \in Sizes, fill \in Fills : AllocObject(size, fill)
  \/ \E ptr \in DOMAIN live : FreeObject(ptr)

Spec == Init /\ [][Next]_vars

----------------------------------------------------------------------------
(* The heap as a reader of the boundary tags sees it.                      *)

Mem == heap.mem

\* The blocks met when the size tags are followed from the first block.
Blocks ==
  LET walk[b \in {a \in Offsets : a <= LastTag}] ==
        LET size == SizeOf(Mem[b])
        IN  IF b = LastTag THEN {}
            ELSE IF size >= 16 /\ size % 16 = 0 /\ b + size <= LastTag
                 THEN {b} \cup walk[b + size]
                 ELSE {b}
  IN  walk[FirstBlock]

BlockSize(b) == SizeOf(Mem[b])
IsLive(b) == b + 4 \in DOMAIN live

\* The first n blocks of a free list, 0 once the list has ended.
ListAt(list, n) ==
  LET at[i \in 0..n] ==
        IF i = 0 THEN Mem[list]
        ELSE IF at[i - 1] = 0 THEN 0 ELSE Read(heap, NextField(at[i - 1]))
  IN  at[n]

MaxBlocks == (LastTag - FirstBlock) \div 16
Listed(list) == {ListAt(list, n) : n \in 0..MaxBlocks} \ {0}

----------------------------------------------------------------------------
(* Properties.                                                             *)

\* The heap is made of words and a modification list, and the user holds
\* only objects it was given: never the null offset Alloc returns when there
\* is no space.
TypeOK ==
  /\ heap \in Heap
  /\ \A p \in DOMAIN live : /\ p \in Int \ {0}
                            /\ live[p] \in [size : Sizes, fill : Fills]

\* Splitting and merging never lose track of a byte: the size tags written
\* by Format, SplitBlock and FreeBlock lead from the first block exactly to
\* the last tag word, and every live object is one of the blocks passed.
BlocksTileHeap ==
  Running =>
    /\ \E b \in Blocks : b + BlockSize(b) = LastTag
    /\ \A p \in DOMAIN live : /\ p - 4 \in Blocks
                              /\ live[p].size + 4 <= BlockSize(p - 4)

\* The free tag of a block, kept in the word after it, is set exactly while
\* nobody holds the block, and a free block repeats its size in its last word:
\* FreeBlock of the block behind merges with free neighbours only, and finds
\* where they begin.
FreeTagsAgree ==
  Running => \A b \in Blocks :
    /\ Tagged(Mem[b + BlockSize(b)]) <=> ~IsLive(b)
    /\ ~IsLive(b) => Mem[b + BlockSize(b) - 4] = BlockSize(b)

\* Each free list ends, is linked in both directions, and holds only free
\* blocks of its size class: AllocBlock never hands out a block in use.
FreeListsSound ==
  Running => \A list \in Lists :
    /\ ListAt(list, MaxBlocks) = 0
    /\ \A n \in 0..(MaxBlocks - 1) :
         LET b == ListAt(list, n)
         IN  b # 0 =>
               /\ b \in Blocks /\ ~IsLive(b)
               /\ GetFreeListByBlockSize(BlockSize(b)) = list
               /\ Mem[PrevField(b)] = IF n = 0 THEN 0 ELSE ListAt(list, n - 1)

\* Bookkeeping stays out of the objects: whatever is allocated and freed
\* around it, an object keeps the contents its owner stored.
LiveDataIntact ==
  \A p \in DOMAIN live : \A i \in 0..(live[p].size \div 4 - 1) :
    Mem[p + 4 * i] = live[p].fill

\* The consistency assertions of AllocBlock, SplitBlock and RemoveBlock never
\* fail and no tag leads outside the tablet: the one assertion that can
\* fail is `assert(offset)', for the list of 16-byte blocks at offset 0.  (The one
\* of RemoveBlock reads again what FreeBlock has just tested; it is a false tag or
\* footer taken for a block that shows later, in AllocBlock or SplitBlock.)
OnlyOffsetAssertFails == heap.abort \in {"none", "offset"}

\* What Sync sends to the backups is complete: every word an operation
\* changes is in the modification list the operation leaves behind.
ModificationsCover ==
  [][\A a \in Offsets : heap'.mem[a] # heap.mem[a] => Logged(heap'.mods, a)]_vars

----------------------------------------------------------------------------
(* What comments in the source say and the code does not do.               *)

\* allocator.h:125 "The list of these free blocks with same size.": every
\* free block of a class is on the list of that class.
FreeBlocksListed ==
  Running => \A b \in Blocks :
    ~IsLive(b) => b \in Listed(GetFreeListByBlockSize(BlockSize(b)))

============================================================================
