------------------------------- MODULE Merge -------------------------------
(***************************************************************************)
(* Tablet::MergeModifications (src/src/tablet.cc): the modification list   *)
(* of one operation is sorted by offset, and ranges that overlap or lie at *)
(* most `gap' bytes apart become one.  The address a range is sent from is *)
(* always base_ + des and is left out.                                     *)
(***************************************************************************)
EXTENDS Integers, Sequences

gap == 16

\* The first of the smallest among ms[i] .. ms[j].
Least(ms, i, j) ==
  CHOOSE k \in i..j : /\ \A l \in i..j : ms[k].des <= ms[l].des
                      /\ \A l \in i..(k - 1) : ms[k].des < ms[l].des

\* The inner loop for one i: each ms[j] smaller than the one at i changes
\* places with it, so that the least so far moves along at i.
PassAdjacent(ms, i) ==
  IF ms[i + 1].des < ms[i].des
  THEN [ms EXCEPT ![i] = ms[i + 1], ![i + 1] = ms[i]] ELSE ms
Pass(ms, i) ==
  [j \in DOMAIN ms |->
     IF j < i THEN ms[j]
     ELSE IF j = i THEN ms[Least(ms, i, Len(ms))]
     ELSE LET held == ms[Least(ms, i, j - 1)]
          IN  IF ms[j].des < held.des THEN held ELSE ms[j]]
Sort(ms) ==
  LET upto[i \in 0..(Len(ms) - 1)] ==
        IF i = 0 THEN ms ELSE LET before == upto[i - 1] IN Pass(before, i)
  IN  upto[Len(ms) - 1]

End(m) == m.des + m.len
Larger(x, y) == IF x > y THEN x ELSE y

\* One round of the second loop, which reads the list it overwrites: s.i
\* ranges are finished, and the current one is s.begin to s.end.
AbsorbLast(s, j) ==
  LET m == s.arr[j]
      arr == [s.arr EXCEPT ![s.i + 1] = [des |-> s.begin, len |-> s.end - s.begin]]
  IN  IF m.des > s.end + gap
      THEN [arr |-> arr, i |-> s.i + 1, begin |-> arr[j].des, end |-> End(arr[j])]
      ELSE [s EXCEPT !.end = End(m)]
AbsorbAtGap(s, j) ==
  LET m == s.arr[j]
      arr == [s.arr EXCEPT ![s.i + 1] = [des |-> s.begin, len |-> s.end - s.begin]]
  IN  IF m.des >= s.end + gap
      THEN [arr |-> arr, i |-> s.i + 1, begin |-> arr[j].des, end |-> End(arr[j])]
      ELSE [s EXCEPT !.end = Larger(s.end, End(m))]
Absorb(s, j) ==
  LET m == s.arr[j]
      arr == [s.arr EXCEPT ![s.i + 1] = [des |-> s.begin, len |-> s.end - s.begin]]
  IN  IF m.des > s.end + gap
      THEN [arr |-> arr, i |-> s.i + 1, begin |-> arr[j].des, end |-> End(arr[j])]
      ELSE [s EXCEPT !.end = Larger(s.end, End(m))]

MergeModifications(mods) ==
  LET sorted == Sort(mods)
      round[j \in 0..Len(mods)] ==
        IF j = 0 THEN [arr |-> sorted, i |-> 0, begin |-> sorted[1].des,
                       end |-> End(sorted[1])]
        ELSE LET before == round[j - 1] IN Absorb(before, j)
      last == round[Len(mods)]
  IN  IF Len(sorted) = 0 THEN <<>>
      ELSE Append(SubSeq(last.arr, 1, last.i),
                  [des |-> last.begin, len |-> last.end - last.begin])

============================================================================
