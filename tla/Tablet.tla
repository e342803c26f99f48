------------------------------- MODULE Tablet -------------------------------
(***************************************************************************)
(* The hash table of one tablet (src/src/tablet.{h,cc}).  The slots follow *)
(* the allocator's bytes, a slot is the head of a chain of objects, and an *)
(* object is                                                               *)
(*    0 next   4 key_len (16 bits), val_len (16 bits)   8 key_hash (64)    *)
(*   16 the key, then the value.                                           *)
(* A key or a value is a sequence of words, so lengths are multiples of    *)
(* four.  An operation returns the heap it leaves, the status, and the     *)
(* value of the response; status "SPIN" stands for a loop never left.      *)
(***************************************************************************)
EXTENDS Allocator

CONSTANTS
  Keys,             \* keys, as sequences of words
  Values,           \* values, as sequences of words
  key_hash,         \* the client's hash function
  kHashTableSize    \* number of slots

ASSUME TabletAssumption ==
  /\ kHashTableSize \in Nat \ {0}
  /\ kRegionSize = kSize + 4 * kHashTableSize
  /\ \A k \in Keys : key_hash[k] \in Nat
  /\ \A k \in Keys, v \in Values : 20 + 4 * (Len(k) + Len(v)) <= kMaxBlockSize

kHalf == 65536
Bytes(s) == 4 * Len(s)

----------------------------------------------------------------------------
(* Objects.                                                                *)

LensField(p) == p + 4
DataField(p) == p + 16
KeyLen(h, p) == Read(h, LensField(p)) % kHalf
ValLen(h, p) == Read(h, LensField(p)) \div kHalf

ReadWords(h, offset, len) ==
  [i \in 1..(len \div 4) |-> Read(h, offset + 4 * (i - 1))]

ValOf(h, p) == ReadWords(h, DataField(p) + KeyLen(h, p), ValLen(h, p))

SameKey(h, p, key) ==
  KeyLen(h, p) = Bytes(key) /\ ReadWords(h, DataField(p), Bytes(key)) = key

\* Words to be stored at offset, as WriteRange wants them.
WordsAt(offset, words) ==
  [a \in Offsets |-> IF (a - offset) \div 4 + 1 \in DOMAIN words
                     THEN words[(a - offset) \div 4 + 1] ELSE 0]

WriteObject(h, p, next, key, val) ==
  LET fields == <<next, Bytes(key) + kHalf * Bytes(val), key_hash[key], 0>>
  IN  WriteRange(WriteRange(h, p, 16, WordsAt(p, fields)),
                 DataField(p), Bytes(key \o val), WordsAt(DataField(p), key \o val))

\* Write(OFFSETOF_NVMOBJECT(p, val_len), val_len): the upper half of a word.
WriteValLenUnlogged(h, p, len) ==
  [h EXCEPT !.mem[LensField(p)] = KeyLen(h, p) + kHalf * len]
WriteValLen(h, p, len) ==
  LET h1 == Access(h, LensField(p))
  IN  IF h1.abort # "none" THEN h1
      ELSE [mem |-> [h1.mem EXCEPT ![LensField(p)] = KeyLen(h, p) + kHalf * len],
            mods |-> Append(h1.mods, [des |-> LensField(p) + 2, len |-> 2]),
            abort |-> "none"]

----------------------------------------------------------------------------
(* Chains.                                                                 *)

Slot(key) == kSize + 4 * (key_hash[key] % kHashTableSize)

MaxObjects == kSize \div 32 + 1

\* The n-th pointer of the chain that starts at slot, 0 once it has ended.
Chain(h, slot) ==
  LET at[n \in 0..MaxObjects] ==
        LET before == IF n = 0 THEN slot ELSE at[n - 1]
        IN  IF before = 0 THEN 0 ELSE Read(h, before)
  IN  at

\* The loop `while (p)' of Put, Add and Get: p is the object with the key,
\* or 0, and q the object or slot whose next field leads to p.  A chain that
\* is longer than the heap has a cycle.
Stop(at, slot, stops) ==
  LET n == CHOOSE n \in stops : \A m \in stops : n <= m
  IN  IF stops = {} THEN [spin |-> TRUE, p |-> 0, q |-> 0]
      ELSE [spin |-> FALSE, p |-> at[n], q |-> IF n = 0 THEN slot ELSE at[n - 1]]
Search(h, at, slot, key) ==
  Stop(at, slot, {n \in 0..MaxObjects : at[n] = 0 \/ SameKey(h, at[n], key)})
Find(h, key) == Search(h, Chain(h, Slot(key)), Slot(key), key)

Result(h, status, val) == [heap |-> h, status |-> status, val |-> val]

----------------------------------------------------------------------------
(* The operations.                                                         *)

\* The assertion on the result r of Alloc, and the new object in it.
FillObject(r, next, key, val) ==
  [heap |-> WriteObject(Check(r.heap, r.ptr # 0), r.ptr, next, key, val),
   p |-> r.ptr]
NewObject(h, next, key, val) ==
  FillObject(Alloc(h, 16 + Bytes(key) + Bytes(val)), next, key, val)

\* Let the next field at q, or the slot q, lead to the new object.
Link(o, q) == Write(o.heap, q, o.p)

\* A new object at the head of the chain.
InsertDropChain(h, key, val) == Link(NewObject(h, 0, key, val), Slot(key))
Insert(h, key, val) ==
  Link(NewObject(h, Read(h, Slot(key)), key, val), Slot(key))

\* The new value is strictly shorter: it is stored in place.
Overwrite(h, p, key, val) ==
  WriteRange(WriteValLen(h, p, Bytes(val)), DataField(p) + Bytes(key), Bytes(val),
             WordsAt(DataField(p) + Bytes(key), val))

\* The old object is freed BEFORE the new one is allocated, often in the
\* same block; the new one takes the old one's place in the chain.
ReplaceAtHead(h, q, p, key, val) ==
  Link(NewObject(Free(h, p), Read(h, p), key, val), Slot(key))
Replace(h, q, p, key, val) ==
  Link(NewObject(Free(h, p), Read(h, p), key, val), q)

PutFound(h, f, key, val) ==
  IF f.spin THEN Result(h, "SPIN", <<>>)
  ELSE IF f.p = 0 THEN Result(Insert(h, key, val), "OK", <<>>)
  ELSE IF Bytes(val) < ValLen(h, f.p)
       THEN Result(Overwrite(h, f.p, key, val), "OK", <<>>)
  ELSE Result(Replace(h, f.q, f.p, key, val), "OK", <<>>)
Put(h0, key, val) ==
  LET h == set_modifications(h0) IN PutFound(h, Find(h, key), key, val)

AddFound(h, f, key, val) ==
  IF f.spin THEN Result(h, "SPIN", <<>>)
  ELSE IF f.p # 0 THEN Result(h, "ERROR", <<>>)
  ELSE Result(Insert(h, key, val), "OK", <<>>)
Add(h0, key, val) ==
  LET h == set_modifications(h0) IN AddFound(h, Find(h, key), key, val)

GetFound(h, f) ==
  IF f.spin THEN Result(h, "SPIN", <<>>)
  ELSE IF f.p # 0 THEN Result(h, "OK", ValOf(h, f.p))
  ELSE Result(h, "ERROR", <<>>)
Get(h0, key) ==
  LET h == set_modifications(h0) IN GetFound(h, Find(h, key))

\* Unlike the others, Del does not move on when the first object of the
\* chain has another key: the loop repeats for ever.
UnlinkForgotten(h, q, p) == Free(h, p)
Unlink(h, q, p) == Free(Write(h, q, Read(h, p)), p)
Del(h0, key) ==
  LET h == set_modifications(h0)
      p == Read(h, Slot(key))
  IN  IF p = 0 THEN Result(h, "ERROR", <<>>)
      ELSE IF SameKey(h, p, key)
           THEN Result(Unlink(h, Slot(key), p), "OK", <<>>)
      ELSE Result(h, "SPIN", <<>>)

============================================================================
