----------------------------- MODULE TabletSpec -----------------------------
(***************************************************************************)
(* One tablet and the worker thread that serves it (Worker::Serve calls    *)
(* one operation after the other).  The tablet is shown to implement the   *)
(* map of KeyValue.                                                        *)
(***************************************************************************)
EXTENDS Tablet

VARIABLES
  heap,       \* the tablet's memory
  store,      \* auxiliary: what the tablet holds, read off its memory
  reply,      \* the last response
  spinning    \* the worker is caught in a loop

vars == <<heap, store, reply, spinning>>

Serving == heap.abort = "none" /\ ~spinning

NoItems == [k \in {} |-> <<>>]

\* The items a Get would find.
Contents(h) ==
  LET found == [k \in Keys |-> Find(h, k).p]
  IN  [k \in {k \in Keys : found[k] # 0} |-> ValOf(h, found[k])]

Init ==
  /\ heap = Format
  /\ store = NoItems
  /\ reply = [status |-> "OK", val |-> <<>>]
  /\ spinning = FALSE

\* The effect of an operation: nothing is answered by a process that died in
\* the middle or by a loop that never ends.
Execute(r) ==
  /\ Serving
  /\ heap' = r.heap
  /\ spinning' = (r.status = "SPIN")
  /\ IF Serving' THEN /\ store' = Contents(heap')
                      /\ reply' = [status |-> r.status, val |-> r.val]
                 ELSE store' = NoItems /\ UNCHANGED reply

DoPut(key, val) == Execute(Put(heap, key, val))
DoAdd(key, val) == Execute(Add(heap, key, val))
DoGet(key) == Execute(Get(heap, key))
DoDel(key) == Execute(Del(heap, key))

Next ==
  \/ \E key \in Keys, val \in Values : DoPut(key, val)
  \/ \E key \in Keys, val \in Values : DoAdd(key, val)
  \/ \E key \in Keys : DoGet(key)
  \/ \E key \in Keys : DoDel(key)

Spec == Init /\ [][Next]_vars

----------------------------------------------------------------------------
Slots == {Slot(k) : k \in Keys}
Chained(slot) == {Chain(heap, slot)[n] : n \in 0..MaxObjects} \ {0}
Objects == UNION {Chained(slot) : slot \in Slots}
Size(p) == 16 + KeyLen(heap, p) + ValLen(heap, p)
KeyOf(p) == ReadWords(heap, DataField(p), KeyLen(heap, p))

\* The allocator's user holds exactly the objects on the chains.
A == INSTANCE AllocatorSpec WITH
       live <- [p \in Objects |-> [size |-> Size(p), fill |-> 0]],
       Sizes <- {}, Fills <- {}

KV == INSTANCE KeyValue WITH
        alive <- Serving, NoValue <- <<>>

\* No object reaches the footer of its block.  The code does not see to it: an
\* object may fill its block to the last byte, FreeBlock then takes its data for
\* a size, and neither blocks nor items are safe (AllocatorFooter.cfg).  What
\* follows about the heap and the map is claimed for lengths that satisfy this.
ObjectsSpareFooters ==
  \A key \in Keys, val \in Values :
    24 + Bytes(key) + Bytes(val) <= RoundupBlockSize(20 + Bytes(key) + Bytes(val))

----------------------------------------------------------------------------
(* Properties.                                                             *)

\* Chains and allocator agree: the objects on the chains are exactly the
\* blocks in use, so Put, Add and Del neither leak a block nor leave a chain
\* through a block that was freed; provided objects spare the footers.
ChainsOwnBlocks ==
  ObjectsSpareFooters /\ Serving => A!BlocksTileHeap /\ A!FreeTagsAgree

\* Every chain ends, its objects belong to its slot, and no key occurs twice:
\* Get cannot find an old value behind a new one.
ChainsSound ==
  Serving => \A slot \in Slots :
    LET at == Chain(heap, slot)
    IN  /\ at[MaxObjects] = 0
        /\ \A n \in 0..MaxObjects : at[n] # 0 =>
             /\ KeyOf(at[n]) \in Keys /\ Slot(KeyOf(at[n])) = slot
             /\ \A m \in 0..(n - 1) : KeyOf(at[m]) # KeyOf(at[n])

\* The tablet is a map, as client.h describes it: however splits and merges
\* have laid out the heap, each request changes and answers what the map would,
\* or the tablet stops for good.  It is not one whatever the sizes: MCTablet
\* assumes that objects spare the footers.
RefinesKeyValue == KV!Spec

\* Every word of objects, chains and free lists that an operation changes
\* is in the modification list Sync replicates from.
ModificationsCover ==
  [][\A a \in Offsets : heap'.mem[a] # heap.mem[a] => Logged(heap'.mods, a)]_vars

----------------------------------------------------------------------------
\* client.h:59 "Delete item indexed by the key, return if operation succeed.":
\* a request to delete is answered.
DelReturns == ~spinning

============================================================================
