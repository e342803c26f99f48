----------------------------- MODULE MurmurHash -----------------------------
(***************************************************************************)
(* The hash functions of src/src/MurmurHash2.cc.  nvds hashes its keys     *)
(* with MurmurHash64B (hash.h); the file also has the 32-bit function,     *)
(* three variants of it that promise the same values or the same            *)
(* structure, a 64-bit function for 64-bit machines, and a hasher that is  *)
(* fed a key piece by piece.                                               *)
(*                                                                         *)
(* All arithmetic is modulo a power of two and all the functions work for  *)
(* any width of a byte, so bytes are ByteBits bits wide here and words are *)
(* four bytes; the multipliers stay odd and the shifts keep their          *)
(* proportions.  The machine is little endian.  A key is a sequence of     *)
(* bytes.                                                                  *)
(***************************************************************************)
EXTENDS Integers, Sequences, SequencesExt, Bitwise

CONSTANTS ByteBits,   \* 8
          m, m64,     \* 0x5bd1e995 and 0xc6a4a7935bd1e995
          Seed,       \* 103 in hash.h
          ByteValues, \* byte values of the keys that are tried
          MaxSize,    \* bound on the length of a key
          MaxPiece    \* bound on the length of a piece

MurmurConstants ==
  /\ ByteBits \in Nat \ {0} /\ m % 2 = 1 /\ m64 % 2 = 1
  /\ ByteValues \subseteq 0 .. 2^ByteBits - 1 /\ Seed \in 0 .. 2^(4 * ByteBits) - 1
  /\ MaxSize \in Nat /\ MaxPiece \in Nat

Word == 2^(4 * ByteBits)
Long == 2^(8 * ByteBits)

\* The shift counts, for words of 4 * ByteBits bits.
Scaled(s, bits) == (s * bits) \div 32
r == Scaled(24, 4 * ByteBits)

\* x ^= y >> s
XorShift(x, y, s) == x ^^ (y \div 2^s)

\* Bytes i + 1 .. i + l of a key, the first the least significant.
ReadUpTo(data, i, l) ==
  FoldRight(LAMBDA b, acc : acc * 2^ByteBits + b, SubSeq(data, i + 1, i + l), 0)
Words(data, from, size, count) ==
  [j \in 1 .. count |-> ReadUpTo(data, from + (j - 1) * size, size)]

----------------------------------------------------------------------------

\* mmix and MIX: k *= m; k ^= k >> r; k *= m; h *= m; h ^= k.
MulM(x) == (x * m) % Word
Scramble(k) == MulM(XorShift(MulM(k), MulM(k), r))
mmix(h, k) == MulM(h) ^^ Scramble(k)

\* h ^= h >> 13; h *= m; h ^= h >> 15.
Down(h, s) == XorShift(h, h, Scaled(s, 4 * ByteBits))
Finish(h) == Down(MulM(Down(h, 13)), 15)

\* The last one to three bytes, if there are any.
MixLastShort(h, data, i) ==
  IF i = Len(data) THEN h ELSE MulM(h ^^ ReadUpTo(data, i, Len(data) - i - 1))
MixLast(h, data, i) ==
  IF i = Len(data) THEN h ELSE MulM(h ^^ ReadUpTo(data, i, Len(data) - i))

Whole(data) == 4 * (Len(data) \div 4)

MurmurHash2(data, seed) ==
  Finish(MixLast(FoldLeft(mmix, seed ^^ Len(data), Words(data, 0, 4, Len(data) \div 4)),
                 data, Whole(data)))

\* k |= data[i] << (8 * i), byte by byte.
Assembled(data, i) ==
  ((data[i + 1] | (data[i + 2] * 2^ByteBits)) | (data[i + 3] * 2^(2 * ByteBits)))
    | (data[i + 4] * 2^(3 * ByteBits))
MurmurHashNeutral2(data, seed) ==
  Finish(MixLast(FoldLeft(LAMBDA h, j : mmix(h, Assembled(data, 4 * (j - 1))),
                          seed ^^ Len(data), [j \in 1 .. Len(data) \div 4 |-> j]),
                 data, Whole(data)))

----------------------------------------------------------------------------
(* MurmurHashAligned2 reads whole words at aligned addresses only: with    *)
(* the key `align' bytes past one, t holds what is left of the last word   *)
(* read and d the next one.                                                *)

ShiftL(x, n) == (x * 2^(n * ByteBits)) % Word
ShiftR(x, n) == x \div 2^(n * ByteBits)

JoinedWide(t, d, align) == ShiftR(t, align) | ShiftL(d, align)
Joined(t, d, align) == ShiftR(t, align) | ShiftL(d, 4 - align)

\* The loop of aligned reads: s.h is the hash so far and s.t the last word.
AlignedStep(s, d, align) == [h |-> mmix(s.h, Joined(s.t, d, align)), t |-> d]

\* What is left: `align' bytes complete the word held in t, or the rest of
\* the key and t are the last bytes.
AlignedRest(s, data, i, align) ==
  IF Len(data) - i >= align
  THEN MixLast(mmix(s.h, Joined(s.t, ReadUpTo(data, i, align), align)), data, i + align)
  ELSE MulM(s.h ^^ Joined(s.t, ReadUpTo(data, i, Len(data) - i), align))

AlignedWords(data, align) == (Len(data) - (4 - align)) \div 4

MurmurHashAligned2(data, align, seed) ==
  IF align # 0 /\ Len(data) >= 4
  THEN Finish(AlignedRest(
         FoldLeft(LAMBDA s, d : AlignedStep(s, d, align),
                  [h |-> seed ^^ Len(data), t |-> ShiftL(ReadUpTo(data, 0, 4 - align), align)],
                  Words(data, 4 - align, 4, AlignedWords(data, align))),
         data, 4 - align + 4 * AlignedWords(data, align), align))
  ELSE MurmurHash2(data, seed)

----------------------------------------------------------------------------
(* The 64-bit functions.                                                   *)

r64 == (47 * 8 * ByteBits) \div 64
MulM64(x) == (x * m64) % Long
Down64(h) == XorShift(h, h, r64)
Mix64(h, k) == MulM64(h ^^ MulM64(Down64(MulM64(k))))
MixLast64(h, data, i) ==
  IF i = Len(data) THEN h ELSE MulM64(h ^^ ReadUpTo(data, i, Len(data) - i))
MurmurHash64A(data, seed) ==
  Down64(MulM64(Down64(MixLast64(
    FoldLeft(Mix64, seed ^^ MulM64(Len(data)), Words(data, 0, 8, Len(data) \div 8)),
    data, 8 * (Len(data) \div 8)))))

\* MurmurHash64B has two 32-bit hashes, which take the words in turn; the last
\* bytes go to the second.
Alternate(h, ws, parity) ==
  FoldLeft(LAMBDA x, j : IF j % 2 = parity THEN mmix(x, ws[j]) ELSE x, h, [j \in DOMAIN ws |-> j])

\* h1 ^= h2 >> 18; h1 *= m; h2 ^= h1 >> 22; h2 *= m; ..., the two taking turns.
Mingle(pair, s) == <<pair[2], MulM(XorShift(pair[1], pair[2], Scaled(s, 4 * ByteBits)))>>
Mingled(h1, h2) == FoldLeft(Mingle, <<h1, h2>>, <<18, 22, 17, 19>>)

MurmurHash64B(data, seed) ==
  LET ws == Words(data, 0, 4, Len(data) \div 4)
      pair == Mingled(Alternate((seed % Word) ^^ Len(data), ws, 1),
                      MixLast(Alternate(seed \div Word, ws, 0), data, Whole(data)))
  IN  pair[1] * Word + pair[2]

\* hash.h
Hash(key) == MurmurHash64B(key, Seed)

\* MurmurHash2 with the words and the length mixed in alike.
MurmurHash2A(data, seed) ==
  Finish(mmix(mmix(FoldLeft(mmix, seed, Words(data, 0, 4, Len(data) \div 4)),
                   ReadUpTo(data, Whole(data), Len(data) - Whole(data))),
              Len(data) % Word))

----------------------------------------------------------------------------
(* CMurmurHash2A, the hasher that is fed pieces.                           *)

VARIABLES m_hash, m_tail, m_count, m_size,
          fed,    \* all it was fed, in order
          result  \* what End returned
hvars == <<m_hash, m_tail, m_count, m_size, fed, result>>

\* Begin
Init ==
  /\ m_hash = Seed /\ m_tail = 0 /\ m_count = 0 /\ m_size = 0
  /\ fed = <<>> /\ result = -1

\* One turn of the loop of MixTail: a byte joins the tail, and a full tail is
\* mixed in.  The hasher is a record [hash, tail, count].
TakeByte(h, b) ==
  IF h.count = 3
  THEN [hash |-> mmix(h.hash, h.tail | (b * 2^(3 * ByteBits))), tail |-> 0, count |-> 0]
  ELSE [h EXCEPT !.tail = @ | (b * 2^(h.count * ByteBits)), !.count = @ + 1]

\* How many bytes MixTail takes: all of a piece of less than four, or those
\* that fill a tail that was begun, and then again all of a short rest.
TakesShortOnly(count, len) == IF len < 4 THEN len ELSE 0
Takes(count, len) ==
  IF count = 0 THEN IF len < 4 THEN len ELSE 0
  ELSE IF len - (4 - count) < 4 THEN len ELSE 4 - count

MixTail(h, data, i) ==
  FoldLeft(TakeByte, h, SubSeq(data, i + 1, i + Takes(h.count, Len(data) - i)))

\* The loop of Add over whole words.
AddWords(h, data, i) ==
  [h EXCEPT !.hash = FoldLeft(mmix, @, Words(data, i, 4, (Len(data) - i) \div 4))]

Added(h, data, i) ==
  MixTail(AddWords(MixTail(h, data, 0), data, i), data, i + 4 * ((Len(data) - i) \div 4))

Add(data) ==
  /\ result = -1
  /\ Len(fed) + Len(data) <= MaxSize
  /\ m_size' = (m_size + Len(data)) % Word
  /\ fed' = fed \o data
  /\ LET h == Added([hash |-> m_hash, tail |-> m_tail, count |-> m_count], data,
                    Takes(m_count, Len(data)))
     IN  m_hash' = h.hash /\ m_tail' = h.tail /\ m_count' = h.count
  /\ UNCHANGED result

End ==
  /\ result = -1
  /\ m_hash' = Finish(mmix(mmix(m_hash, m_tail), m_size))
  /\ result' = m_hash'
  /\ UNCHANGED <<m_tail, m_count, m_size, fed>>

Next == End \/ \E l \in 0 .. MaxPiece : \E data \in [1 .. l -> ByteValues] : Add(data)

Spec == Init /\ [][Next]_hvars

----------------------------------------------------------------------------

\* However a key is cut into pieces, the hasher ends with the value that
\* MurmurHash2A has for the whole of it.
PiecesDoNotMatter == result # -1 => result = MurmurHash2A(fed, Seed)

\* "Same as MurmurHash2, but endian- and alignment-neutral", "Same algorithm as
\* MurmurHash2, but only does aligned reads": the variants agree on every key,
\* wherever it begins in a word.
VariantsAgree ==
  /\ MurmurHashNeutral2(fed, Seed) = MurmurHash2(fed, Seed)
  /\ \A align \in 0 .. 3 : MurmurHashAligned2(fed, align, Seed) = MurmurHash2(fed, Seed)

\* Keys of one length that differ in one byte never have the same hash, and keys
\* of up to eight bytes that differ in two do not either: nothing of a key is
\* dropped before the two halves are mixed, and the mixing loses nothing.
HashSeparates ==
  \A i \in DOMAIN fed : \A b \in ByteValues \ {fed[i]} :
    /\ Hash([fed EXCEPT ![i] = b]) # Hash(fed)
    /\ MurmurHash64A([fed EXCEPT ![i] = b], Seed) # MurmurHash64A(fed, Seed)
    /\ Len(fed) <= 8 =>
         \A j \in DOMAIN fed : \A c \in ByteValues \ {fed[j]} :
           Hash([fed EXCEPT ![i] = b, ![j] = c]) # Hash(fed)

============================================================================
