----------------------------- MODULE KeyRouting -----------------------------
(***************************************************************************)
(* How a key hash finds its tablet: IndexManager::GetTabletId and its      *)
(* callers in src/src/index.h.  The index into key_tablet_map_ is computed *)
(* in floating point, with three roundings, from a hash that has more bits *)
(* than a double has; client and server each compute it for themselves.    *)
(*                                                                         *)
(* Hashes are HashBits wide here and a double has Mantissa bits, both      *)
(* scaled down from 64 and 53; a value is a fraction <<num, den>>.         *)
(***************************************************************************)
EXTENDS Integers

CONSTANTS HashBits,  \* 64
          Mantissa,  \* 53
          Sizes      \* the values of kNumTablets that are tried

RoutingConstants ==
  HashBits \in Nat /\ Mantissa \in Nat /\ Mantissa < HashBits /\ Sizes \subseteq Nat \ {0}

VARIABLES size,      \* key_tablet_map_.size()
          key_hash,
          idx        \* where GetTabletId looks, -1 before it did
rvars == <<size, key_hash, idx>>

KeyHash == 0 .. 2^HashBits - 1
kMaxKeyHash == 2^HashBits - 1

----------------------------------------------------------------------------
(* Doubles.                                                                *)

\* num / den to the nearest integer, ties to the even one.
Nearest(num, den) ==
  LET q == num \div den
      twice == 2 * (num % den)
  IN  IF twice > den \/ (twice = den /\ q % 2 = 1) THEN q + 1 ELSE q

Up(k) == IF k > 0 THEN 2^k ELSE 1
Down(k) == IF k < 0 THEN 2^(-k) ELSE 1

\* x has Mantissa digits before the point when it is scaled by 2^k.
Normalizes(k, x) ==
  /\ x[1] * Up(k) >= 2^(Mantissa - 1) * x[2] * Down(k)
  /\ x[1] * Up(k) < 2^Mantissa * x[2] * Down(k)

\* The double nearest to x.
Double(x) ==
  IF x[1] = 0 THEN <<0, 1>>
  ELSE LET k == CHOOSE k \in Mantissa - HashBits - 1 .. Mantissa + HashBits : Normalizes(k, x)
       IN  <<Nearest(x[1] * Up(k), x[2] * Down(k)) * Down(k), Up(k)>>

----------------------------------------------------------------------------

\* (1.0 + kMaxKeyHash) / key_tablet_map_.size()
WidthOffByOne(n) == Double(<<Double(<<1 + Double(<<kMaxKeyHash, 1>>)[1], 1>>)[1], n + 1>>)
Width(n) == Double(<<Double(<<1 + Double(<<kMaxKeyHash, 1>>)[1], 1>>)[1], n>>)

Quotient(h, w) == Double(<<h[1] * w[2], h[2] * w[1]>>)
Truncated(x) == x[1] \div x[2]

Index(h, n) == Truncated(Quotient(Double(<<h, 1>>), Width(n)))

Init == size \in Sizes /\ key_hash \in KeyHash /\ idx = -1

GetTabletId == idx = -1 /\ idx' = Index(key_hash, size) /\ UNCHANGED <<size, key_hash>>

Next == GetTabletId

Spec == Init /\ [][Next]_rvars

----------------------------------------------------------------------------

\* The slice of the hash space that a hash lies in, and how far rounding can
\* carry a hash: a unit in the last place of the largest of them, twice.
Slice(h) == (h * size) \div 2^HashBits
Slack == 2^(HashBits - Mantissa + 1)

\* GetTabletId cuts the hash space into kNumTablets runs of hashes, in order and
\* with none left out, that are the equal slices of it but for Slack hashes at
\* each border; with a power of two of tablets, as kNumTablets is, but for
\* Slack / 4 below it.  The end of the space is such a border: the last hashes
\* round up to 2^HashBits and are sent one past the end of key_tablet_map_.
RoutedToSlice ==
  idx # -1 =>
    /\ \E h \in key_hash - Slack .. key_hash + Slack : Slice(h) = idx
    /\ (\E k \in 0 .. HashBits : size = 2^k) =>
         idx \in Slice(key_hash) .. Slice(key_hash + Slack \div 4)
    /\ key_hash < kMaxKeyHash => Index(key_hash + 1, size) \in {idx, idx + 1}

============================================================================
