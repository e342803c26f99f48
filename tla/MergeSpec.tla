----------------------------- MODULE MergeSpec -----------------------------
(***************************************************************************)
(* MergeModifications on every list of up to MaxLen modifications, grown   *)
(* one at a time as the allocator grows it, against a definition that      *)
(* knows neither order nor loops.                                          *)
(***************************************************************************)
EXTENDS Merge, FiniteSets

CONSTANTS
  Starts,    \* offsets of modifications
  Lengths,   \* lengths of modifications; a Memcpy of an empty value has 0
  MaxLen     \* bound on the length of the list

ASSUME ListAssumption ==
  Starts \subseteq Nat /\ Lengths \subseteq Nat /\ MaxLen \in Nat

VARIABLES mods, merged
vars == <<mods, merged>>

Init ==
  \E des \in Starts, len \in Lengths :
    /\ mods = <<[des |-> des, len |-> len]>>
    /\ merged = MergeModifications(mods)

\* modifications_->emplace_back(des, base_ + des, len)
Modify(des, len) ==
  /\ Len(mods) < MaxLen
  /\ mods' = Append(mods, [des |-> des, len |-> len])
  /\ merged' = MergeModifications(mods')

Next == \E des \in Starts, len \in Lengths : Modify(des, len)

Spec == Init /\ [][Next]_vars

----------------------------------------------------------------------------
Ranges == {mods[i] : i \in DOMAIN mods}

\* a and b are apart, with more than gap bytes between them.
Apart(a, b) == a.des > End(b) + gap \/ b.des > End(a) + gap

\* Sets of modifications that no range outside them touches.
Closed == {S \in SUBSET Ranges : \A a \in S, b \in Ranges \ S : Apart(a, b)}
Clusters == {S \in Closed \ {{}} : \A C \in Closed \ {{}} : C \subseteq S => C = S}

Hull(S) ==
  LET begin == CHOOSE x \in {m.des : m \in S} : \A m \in S : x <= m.des
      end == CHOOSE x \in {End(m) : m \in S} : \A m \in S : End(m) <= x
  IN  [des |-> begin, len |-> end - begin]

----------------------------------------------------------------------------
\* MergeModifications returns the hulls of the clusters of nearby ranges, in
\* ascending order and each once, although it sorts in place and overwrites
\* the list it is reading.
MergeIsClustering ==
  /\ {merged[i] : i \in DOMAIN merged} = {Hull(S) : S \in Clusters}
  /\ \A i \in 1..(Len(merged) - 1) : merged[i].des < merged[i + 1].des

============================================================================
