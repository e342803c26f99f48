------------------------------ MODULE MCTablet ------------------------------
(* A tablet with two slots; the first key is a prefix of the third, and    *)
(* both belong to slot 1.  The lengths are chosen so that objects spare the *)
(* footers of their blocks: a value of two words would fill a block with a  *)
(* key of one (16 + 4 + 8 bytes and the 4 of the header make 32), and what  *)
(* the allocator then does is the subject of AllocatorFooter.cfg.           *)
EXTENDS TabletSpec

MCKeys == {<<1>>, <<2>>, <<1, 2>>}
MCValues == {<<>>, <<2, 2, 2>>, <<3, 3, 3, 3>>}
MCHash == [k \in MCKeys |-> IF k = <<2>> THEN 2 ELSE 3]

ASSUME SizesAssumption == ObjectsSpareFooters

\* The words no later operation reads before it writes them: what an object
\* left behind in a block that was freed, and what is between its end and the
\* footer in a block in use.  The footer is never dead: FreeBlock reads the one of the
\* previous block before anything rewrites it.
DeadWords ==
  UNION {LET first == IF b + 4 \in Objects THEN b + 4 + Size(b + 4) ELSE b + 12
             footer == b + A!BlockSize(b) - 4
         IN  first..(footer - 1) : b \in A!Blocks}

\* States that differ only in dead words or in the last modification list
\* have the same future.
MCView ==
  IF Serving
  THEN LET dead == DeadWords
       IN  <<reply, [a \in Offsets |-> IF a \in dead THEN 0 ELSE heap.mem[a]]>>
  ELSE <<heap.abort, spinning>>
============================================================================
