---------------------------- MODULE MCAlgorithms ----------------------------
(***************************************************************************)
(* The pure algorithms, each against its reference definition: merging of  *)
(* modifications, the hash functions, and the way from a hash to a tablet. *)
(* The variable `part' says which one is tried; the others rest.           *)
(***************************************************************************)
EXTENDS MergeSpec

VARIABLES part,
          m_hash, m_tail, m_count, m_size, fed, result,
          size, key_hash, idx

hashVars == <<m_hash, m_tail, m_count, m_size, fed, result>>
routingVars == <<size, key_hash, idx>>

\* Two-bit bytes and the odd multipliers 0x95, of the last byte of
\* 0x5bd1e995, and 0x6995; the seed is that of hash.h.
H == INSTANCE MurmurHash WITH
       ByteBits <- 2, m <- 149, m64 <- 27029, Seed <- 103, ByteValues <- {0, 3},
       MaxSize <- 9, MaxPiece <- 5

R == INSTANCE KeyRouting WITH HashBits <- 10, Mantissa <- 6, Sizes <- 1..7

ASSUME InstancesAssumption == H!MurmurConstants /\ R!RoutingConstants

NoMerge == mods = <<>> /\ merged = <<>>
NoRouting == size = 1 /\ key_hash = 0 /\ idx = -1

MCInit ==
  \/ part = "merge" /\ Init /\ H!Init /\ NoRouting
  \/ part = "hash" /\ H!Init /\ NoMerge /\ NoRouting
  \/ part = "routing" /\ R!Init /\ NoMerge /\ H!Init

MCNext ==
  \/ part = "merge" /\ Next /\ UNCHANGED <<part, hashVars, routingVars>>
  \/ part = "hash" /\ H!Next /\ UNCHANGED <<part, vars, routingVars>>
  \/ part = "routing" /\ R!Next /\ UNCHANGED <<part, vars, hashVars>>

MCSpec == MCInit /\ [][MCNext]_<<part, vars, hashVars, routingVars>>

\* Fed in pieces, CMurmurHash2A ends with the hash MurmurHash2A has for the whole.
PiecesDoNotMatter == H!PiecesDoNotMatter

\* The endian-neutral and the aligned variant compute what MurmurHash2 does.
VariantsAgree == H!VariantsAgree

\* Hash tells keys apart that differ in a byte, and short keys that differ in two.
HashSeparates == H!HashSeparates

\* GetTabletId picks the slice a hash lies in, up to the rounding at its borders.
RoutedToSlice == R!RoutedToSlice

============================================================================
