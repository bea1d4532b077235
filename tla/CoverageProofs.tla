--------------------------- MODULE CoverageProofs ---------------------------
(***************************************************************************)
(* What the operations of Coverage (connection/reassembly.rs) do to the    *)
(* bytes a list of ranges stands for.  The list is sorted, disjoint and    *)
(* merged (Canonical); what the lemmas say:                                *)
(*                                                                         *)
(*   OverlapsIs  cover() refuses a range exactly when it shares a byte     *)
(*   CoverIs     cover() adds the range's bytes, and keeps the list        *)
(*               canonical                                                 *)
(*   TruncateIs  truncate() drops the bytes past the total and no other    *)
(*   CoversIs    covers() is: every byte up to the total, and none past it *)
(*   PrefixIs    prefix() is the length of the run of bytes from 0         *)
(*   GapIs       gap() is the first hole below the total                   *)
(*                                                                         *)
(* Each is about a list of any length.  Where an argument picks a first or  *)
(* last element it goes through Least: every set of numbers that is not     *)
(* empty has a least one, a consequence of the finiteness of intervals.     *)
(***************************************************************************)
EXTENDS Coverage, FiniteSetTheorems, SequenceTheorems, WellFoundedInduction,
        TLAPS

-----------------------------------------------------------------------------
(* Numbers and sequences. *)

\* A set of numbers that is not empty has a least one.
LEMMA Least ==
    ASSUME NEW T \in SUBSET Nat, T # {}
    PROVE  \E x \in T : \A y \in T : x <= y
  <1> DEFINE family == {0 .. k - 1 : k \in T}
  <1>1. family # {} /\ family \subseteq FiniteSubsetsOf(Nat)
    <2>1. \A k \in T : 0 .. k - 1 \in SUBSET Nat /\ IsFiniteSet(0 .. k - 1)
      BY FS_Interval
    <2> QED
      BY <2>1 DEF FiniteSubsetsOf
  <1>2. PICK x \in family :
          \A y \in family : <<y, x>> \notin StrictSubsetOrdering(Nat)
    BY <1>1, FS_StrictSubsetOrderingWellFounded, WFMin
  <1>3. PICK k \in T : x = 0 .. k - 1
    BY <1>2
  <1>4. ASSUME NEW j \in T, j < k PROVE FALSE
    <2>1. /\ 0 .. j - 1 \subseteq 0 .. k - 1
          /\ j \in 0 .. k - 1 /\ j \notin 0 .. j - 1
      BY <1>4
    <2>2. <<0 .. j - 1, x>> \in StrictSubsetOrdering(Nat)
      BY <2>1, <1>3 DEF StrictSubsetOrdering
    <2> QED
      BY <2>2, <1>2
  <1> QED
    BY <1>4

\* Min of such a set is that number.
LEMMA MinIs ==
    ASSUME NEW T \in SUBSET Nat, T # {}
    PROVE  Min(T) \in T /\ \A y \in T : Min(T) <= y
  BY Least DEF Min

\* Max of a bounded set of numbers that is not empty is its greatest.
LEMMA MaxIs ==
    ASSUME NEW T \in SUBSET Nat, T # {}, NEW bound \in Nat,
           \A y \in T : y <= bound
    PROVE  Max(T) \in T /\ \A y \in T : y <= Max(T)
  <1> DEFINE below == {bound - y : y \in T}
  <1>0. \A y \in T : y \in Nat /\ bound - y \in Nat
    OBVIOUS
  <1>1. below \in SUBSET Nat /\ below # {}
    BY <1>0
  <1>2. PICK d \in below : \A e \in below : d <= e
    BY <1>1, Least
  <1>3. PICK x \in T : d = bound - x
    BY <1>2
  <1>4. \A y \in T : y <= x
    <2>1. \A y \in T : bound - x <= bound - y
      BY <1>2, <1>3
    <2> QED
      BY <1>0, <2>1
  <1>5. \E z \in T : \A y \in T : z >= y
    BY <1>4
  <1> QED
    BY <1>5 DEF Max

\* The smaller of two numbers.
LEMMA MinOfTwo ==
    ASSUME NEW a \in Int, NEW b \in Int
    PROVE  Min({a, b}) = IF a <= b THEN a ELSE b
  <1>1. \E x \in {a, b} : \A y \in {a, b} : x <= y
    OBVIOUS
  <1>2. Min({a, b}) \in {a, b} /\ \A y \in {a, b} : Min({a, b}) <= y
    BY <1>1 DEF Min
  <1> QED
    BY <1>2

\* An element put in at position i moves those from there on by one.
LEMMA InsertAtIs ==
    ASSUME NEW S, NEW s \in Seq(S), NEW i \in 1 .. Len(s) + 1, NEW e \in S
    PROVE  /\ InsertAt(s, i, e) \in Seq(S)
           /\ Len(InsertAt(s, i, e)) = Len(s) + 1
           /\ \A k \in 1 .. Len(s) + 1 :
                InsertAt(s, i, e)[k] = IF k < i THEN s[k]
                                       ELSE IF k = i THEN e ELSE s[k - 1]
  <1> DEFINE left == SubSeq(s, 1, i - 1)
             right == SubSeq(s, i, Len(s))
  <1>1. \A k \in 1 .. Len(s) : s[k] \in S
    OBVIOUS
  <1>2. /\ left \in Seq(S) /\ Len(left) = i - 1
        /\ \A k \in 1 .. i - 1 : left[k] = s[k]
    BY <1>1, SubSeqProperties
  <1>3. /\ right \in Seq(S) /\ Len(right) = Len(s) - i + 1
        /\ \A k \in 1 .. Len(s) - i + 1 : right[k] = s[i + k - 1]
    BY <1>1, SubSeqProperties
  <1> HIDE DEF left, right
  <1>4. <<e>> \in Seq(S) /\ Len(<<e>>) = 1 /\ <<e>>[1] = e
    OBVIOUS
  <1> DEFINE upTo == left \o <<e>>
  <1>5. /\ upTo \in Seq(S) /\ Len(upTo) = i
        /\ \A k \in 1 .. i : upTo[k] = IF k < i THEN s[k] ELSE e
    BY <1>2, <1>4, ConcatProperties
  <1> HIDE DEF upTo
  <1>6. /\ upTo \o right \in Seq(S) /\ Len(upTo \o right) = Len(upTo) + Len(right)
        /\ \A k \in 1 .. Len(upTo) + Len(right) :
             (upTo \o right)[k] = IF k <= Len(upTo) THEN upTo[k]
                                  ELSE right[k - Len(upTo)]
    BY <1>3, <1>5, ConcatProperties
  <1>7. InsertAt(s, i, e) = upTo \o right
    BY DEF InsertAt, left, right, upTo
  <1>8. Len(upTo) = i /\ Len(upTo) + Len(right) = Len(s) + 1
    BY <1>3, <1>5
  <1>9. ASSUME NEW k \in 1 .. Len(s) + 1
        PROVE  InsertAt(s, i, e)[k] = IF k < i THEN s[k]
                                      ELSE IF k = i THEN e ELSE s[k - 1]
    <2>1. CASE k <= i
      BY <1>5, <1>6, <1>7, <1>8, <2>1
    <2>2. CASE k > i
      <3>1. InsertAt(s, i, e)[k] = right[k - i]
        BY <1>6, <1>7, <1>8, <2>2
      <3>2. k - i \in 1 .. Len(s) - i + 1 /\ i + (k - i) - 1 = k - 1
        BY <2>2
      <3> QED
        BY <1>3, <2>2, <3>1, <3>2
    <2> QED
      BY <2>1, <2>2
  <1> QED
    BY <1>6, <1>7, <1>8, <1>9

\* An element taken out at position i moves those after it by one.
LEMMA RemoveAtIs ==
    ASSUME NEW S, NEW s \in Seq(S), NEW i \in 1 .. Len(s)
    PROVE  /\ RemoveAt(s, i) \in Seq(S)
           /\ Len(RemoveAt(s, i)) = Len(s) - 1
           /\ \A k \in 1 .. Len(s) - 1 :
                RemoveAt(s, i)[k] = IF k < i THEN s[k] ELSE s[k + 1]
  <1> DEFINE left == SubSeq(s, 1, i - 1)
             right == SubSeq(s, i + 1, Len(s))
  <1>1. \A k \in 1 .. Len(s) : s[k] \in S
    OBVIOUS
  <1>2. /\ left \in Seq(S) /\ Len(left) = i - 1
        /\ \A k \in 1 .. i - 1 : left[k] = s[k]
    BY <1>1, SubSeqProperties
  <1>3. /\ right \in Seq(S) /\ Len(right) = Len(s) - i
        /\ \A k \in 1 .. Len(s) - i : right[k] = s[i + k]
    BY <1>1, SubSeqProperties
  <1> HIDE DEF left, right
  <1>4. /\ left \o right \in Seq(S) /\ Len(left \o right) = Len(left) + Len(right)
        /\ \A k \in 1 .. Len(left) + Len(right) :
             (left \o right)[k] = IF k <= Len(left) THEN left[k]
                                  ELSE right[k - Len(left)]
    BY <1>2, <1>3, ConcatProperties
  <1>5. RemoveAt(s, i) = left \o right
    BY DEF RemoveAt, left, right
  <1>6. Len(left) + Len(right) = Len(s) - 1
    BY <1>2, <1>3
  <1>7. ASSUME NEW k \in 1 .. Len(s) - 1
        PROVE  RemoveAt(s, i)[k] = IF k < i THEN s[k] ELSE s[k + 1]
    <2>1. CASE k < i
      BY <1>2, <1>4, <1>5, <1>6, <2>1
    <2>2. CASE k >= i
      <3>1. RemoveAt(s, i)[k] = right[k - (i - 1)]
        BY <1>2, <1>4, <1>5, <1>6, <2>2
      <3>2. k - (i - 1) \in 1 .. Len(s) - i /\ i + (k - (i - 1)) = k + 1
        BY <2>2
      <3>3. right[k - (i - 1)] = s[i + (k - (i - 1))]
        BY <1>3, <3>2
      <3>4. ~(k < i)
        BY <2>2
      <3> QED
        BY <3>1, <3>2, <3>3, <3>4
    <2> QED
      BY <2>1, <2>2
  <1> QED
    BY <1>4, <1>5, <1>6, <1>7

-----------------------------------------------------------------------------
(* The ranges. *)

Pair == Nat \X Nat

Ranges == Seq(Pair)

\* A byte is covered when a range holds it.
LEMMA BytesIn ==
    ASSUME NEW ranges \in Ranges
    PROVE  /\ Bytes(ranges) \in SUBSET Nat
           /\ \A b \in Nat : b \in Bytes(ranges) <=>
                \E i \in 1 .. Len(ranges) : ranges[i][1] <= b /\ b < ranges[i][2]
  <1>1. \A i \in 1 .. Len(ranges) : ranges[i][1] \in Nat /\ ranges[i][2] \in Nat
    BY DEF Ranges, Pair
  <1>2. Range(ranges) = {ranges[i] : i \in 1 .. Len(ranges)}
    BY DEF Ranges, Range
  <1>3. \A b : b \in Bytes(ranges) <=>
          \E i \in 1 .. Len(ranges) : b \in ranges[i][1] .. ranges[i][2] - 1
    BY <1>2 DEF Bytes
  <1> QED
    BY SMTT(40), <1>1, <1>3

\* partition_point, on a sorted list: the ranges before it are those that start
\* before start.
LEMMA BeforeIs ==
    ASSUME NEW ranges \in Ranges, Canonical(ranges), NEW start \in Nat
    PROVE  /\ Before(ranges, start) \in 0 .. Len(ranges)
           /\ \A i \in 1 .. Len(ranges) :
                ranges[i][1] < start <=> i <= Before(ranges, start)
  <1> DEFINE I == {i \in 1 .. Len(ranges) : ranges[i][1] < start}
             at == Before(ranges, start)
  <1>1. at = IF I # {} THEN Max(I) ELSE 0
    BY DEF Before, SelectLastInSeq
  <1>2. /\ Len(ranges) \in Nat
        /\ \A i \in 1 .. Len(ranges) : ranges[i][1] \in Nat /\ ranges[i][2] \in Nat
    BY DEF Ranges, Pair
  <1>3. CASE I = {}
    BY <1>1, <1>2, <1>3
  <1>4. CASE I # {}
    <2>1. I \in SUBSET Nat /\ \A y \in I : y <= Len(ranges)
      BY <1>2
    <2>2. at \in I /\ \A y \in I : y <= at
      BY <1>1, <1>2, <1>4, <2>1, MaxIs
    <2>3. ASSUME NEW i \in 1 .. Len(ranges), i < at
          PROVE  ranges[i][1] < start
      <3>1. at \in 1 .. Len(ranges) /\ ranges[at][1] < start
        BY <2>2
      <3>2. ranges[i][1] < ranges[i][2] /\ ranges[i][2] < ranges[at][1]
        BY <2>3, <3>1 DEF Canonical
      <3> QED
        BY <1>2, <3>1, <3>2
    <2> HIDE DEF at
    <2>4. ASSUME NEW i \in 1 .. Len(ranges)
          PROVE  ranges[i][1] < start <=> i <= at
      BY <2>2, <2>3
    <2> QED
      BY <2>2, <2>4 DEF at
  <1> QED
    BY <1>3, <1>4

\* cover() returns false exactly when a byte of the range has arrived already.
LEMMA OverlapsIs ==
    ASSUME NEW ranges \in Ranges, Canonical(ranges),
           NEW start \in Nat, NEW length \in Nat
    PROVE  Overlaps(ranges, start, length) <=>
             Bytes(ranges) \cap (start .. start + length - 1) # {}
  <1> DEFINE at == Before(ranges, start)
  <1>1. /\ at \in 0 .. Len(ranges)
        /\ \A i \in 1 .. Len(ranges) : ranges[i][1] < start <=> i <= at
    BY BeforeIs
  <1>2. /\ Len(ranges) \in Nat
        /\ \A i \in 1 .. Len(ranges) : ranges[i][1] \in Nat /\ ranges[i][2] \in Nat
    BY DEF Ranges, Pair
  <1>3. Overlaps(ranges, start, length) <=>
          /\ length > 0
          /\ \/ at > 0 /\ ranges[at][2] > start
             \/ at < Len(ranges) /\ ranges[at + 1][1] < start + length
    BY DEF Overlaps
  <1> HIDE DEF at
  <1>4. \A b \in start .. start + length - 1 : b \in Nat
    OBVIOUS
  <1>5. ASSUME length > 0, at > 0, ranges[at][2] > start
        PROVE  Bytes(ranges) \cap (start .. start + length - 1) # {}
    <2>1. start \in Bytes(ranges)
      BY <1>1, <1>2, <1>5, BytesIn
    <2> QED
      BY <1>5, <2>1
  <1>6. ASSUME length > 0, at < Len(ranges), ranges[at + 1][1] < start + length
        PROVE  Bytes(ranges) \cap (start .. start + length - 1) # {}
    <2>1. at + 1 \in 1 .. Len(ranges) /\ ranges[at + 1][1] >= start
      BY <1>1, <1>2, <1>6
    <2>2. ranges[at + 1][1] \in Bytes(ranges)
      BY <1>2, <2>1, BytesIn DEF Canonical
    <2> QED
      BY <1>2, <1>6, <2>1, <2>2
  <1>7. ASSUME NEW b \in start .. start + length - 1, b \in Bytes(ranges)
        PROVE  Overlaps(ranges, start, length)
    <2>1. PICK i \in 1 .. Len(ranges) : ranges[i][1] <= b /\ b < ranges[i][2]
      BY <1>4, <1>7, BytesIn
    <2>2. CASE i <= at
      <3>1. at > 0 /\ at \in 1 .. Len(ranges)
        BY <1>1, <2>2
      <3>2. ranges[at][2] > start
        <4>1. CASE i = at
          BY <1>2, <2>1, <4>1
        <4>2. CASE i < at
          BY SMTT(40), <1>1, <1>2, <2>1, <3>1, <4>2 DEF Canonical
        <4> QED
          BY <1>1, <2>2, <4>1, <4>2
      <3> QED
        BY <1>3, <1>7, <3>1, <3>2
    <2>3. CASE i > at
      <3>1. at + 1 \in 1 .. Len(ranges) /\ at < Len(ranges)
        BY <1>1, <2>3
      <3>2. ranges[at + 1][1] <= ranges[i][1]
        <4>1. CASE i = at + 1
          BY <1>2, <4>1
        <4>2. CASE at + 1 < i
          BY <1>1, <1>2, <3>1, <4>2 DEF Canonical
        <4> QED
          BY <1>1, <2>3, <4>1, <4>2
      <3> QED
        BY <1>2, <1>3, <1>7, <2>1, <3>1, <3>2
    <2> QED
      BY <1>1, <2>2, <2>3
  <1> QED
    BY <1>3, <1>5, <1>6, <1>7

\* Sorted and disjoint, and merged but for the places in S.
LooseAt(ranges, S) ==
    /\ \A i \in 1 .. Len(ranges) : ranges[i][1] < ranges[i][2]
    /\ \A i, j \in 1 .. Len(ranges) :
         i < j => \/ ranges[i][2] < ranges[j][1]
                  \/ ranges[i][2] = ranges[j][1] /\ i \in S /\ j = i + 1

\* Joining at i covers what was covered, and leaves nothing to join there.
LEMMA JoinedIs ==
    ASSUME NEW ranges \in Ranges, NEW i \in Nat, NEW S, LooseAt(ranges, S),
           \A k \in S : k \in Nat /\ k <= i
    PROVE  /\ Joined(ranges, i) \in Ranges
           /\ LooseAt(Joined(ranges, i), S \ {i})
           /\ Bytes(Joined(ranges, i)) = Bytes(ranges)
  <1>1. /\ Len(ranges) \in Nat
        /\ \A k \in 1 .. Len(ranges) : ranges[k][1] \in Nat /\ ranges[k][2] \in Nat
    BY DEF Ranges, Pair
  <1>2. CASE ~(i \in 1 .. Len(ranges) - 1 /\ ranges[i][2] = ranges[i + 1][1])
    <2>1. Joined(ranges, i) = ranges
      BY <1>2 DEF Joined
    <2>2. LooseAt(ranges, S \ {i})
      BY <1>1, <1>2 DEF LooseAt
    <2> QED
      BY <2>1, <2>2
  <1>3. CASE i \in 1 .. Len(ranges) - 1 /\ ranges[i][2] = ranges[i + 1][1]
    <2> DEFINE both == <<ranges[i][1], ranges[i + 1][2]>>
               replaced == ReplaceAt(ranges, i, both)
               joined == RemoveAt(replaced, i + 1)
    <2>1. Joined(ranges, i) = joined
      BY <1>3 DEF Joined
    <2>2. both \in Pair /\ i \in 1 .. Len(ranges) /\ i + 1 \in 1 .. Len(ranges)
      BY <1>1, <1>3 DEF Pair
    <2> HIDE DEF both
    <2>3. /\ replaced \in Ranges /\ Len(replaced) = Len(ranges)
          /\ \A k \in 1 .. Len(ranges) :
               replaced[k] = IF k = i THEN both ELSE ranges[k]
      BY <2>2, ExceptSeq DEF ReplaceAt, Ranges
    <2> HIDE DEF replaced
    <2>4. /\ joined \in Ranges /\ Len(joined) = Len(ranges) - 1
          /\ \A k \in 1 .. Len(ranges) - 1 :
               joined[k] = IF k < i + 1 THEN replaced[k] ELSE replaced[k + 1]
      <3>1. replaced \in Seq(Pair) /\ i + 1 \in 1 .. Len(replaced)
        BY <2>2, <2>3 DEF Ranges
      <3>2. /\ joined \in Seq(Pair) /\ Len(joined) = Len(replaced) - 1
            /\ \A k \in 1 .. Len(replaced) - 1 :
                 joined[k] = IF k < i + 1 THEN replaced[k] ELSE replaced[k + 1]
        BY <3>1, RemoveAtIs
      <3> QED
        BY <2>3, <3>2 DEF Ranges
    <2> HIDE DEF joined
    <2>5. \A k \in 1 .. Len(ranges) - 1 :
            /\ k \in 1 .. Len(ranges) /\ k + 1 \in 1 .. Len(ranges)
            /\ k < i => joined[k] = ranges[k]
            /\ k = i => joined[k] = both
            /\ k > i => joined[k] = ranges[k + 1]
      BY <1>1, <2>3, <2>4
    <2>6. both[1] = ranges[i][1] /\ both[2] = ranges[i + 1][2]
      BY DEF both
    <2>7. \A k \in 1 .. Len(joined) :
            /\ joined[k][1] = IF k <= i THEN ranges[k][1] ELSE ranges[k + 1][1]
            /\ joined[k][2] = IF k < i THEN ranges[k][2] ELSE ranges[k + 1][2]
      BY <2>4, <2>5, <2>6
    <2>8. \A k \in 1 .. Len(joined) : joined[k][1] < joined[k][2]
      <3>1. SUFFICES ASSUME NEW k \in 1 .. Len(joined)
                     PROVE  joined[k][1] < joined[k][2]
        OBVIOUS
      <3>2. k \in 1 .. Len(ranges) /\ k + 1 \in 1 .. Len(ranges)
        BY <2>4, <2>5
      <3>3. /\ ranges[k][1] < ranges[k][2] /\ ranges[k + 1][1] < ranges[k + 1][2]
            /\ ranges[k][2] <= ranges[k + 1][1]
        BY <1>1, <3>2 DEF LooseAt
      <3> QED
        BY SMTT(40), <1>1, <2>7, <3>2, <3>3
    <2>9. ASSUME NEW k \in 1 .. Len(joined), NEW j \in 1 .. Len(joined), k < j
          PROVE  \/ joined[k][2] < joined[j][1]
                 \/ joined[k][2] = joined[j][1] /\ k \in S \ {i} /\ j = k + 1
      <3>1. /\ k \in 1 .. Len(ranges) /\ k + 1 \in 1 .. Len(ranges)
            /\ j \in 1 .. Len(ranges) /\ j + 1 \in 1 .. Len(ranges)
        BY <2>4, <2>5
      <3>2. CASE j <= i
        BY <2>7, <2>9, <3>1, <3>2 DEF LooseAt
      <3>3. CASE k < i /\ i < j
        <4>1. joined[k][2] = ranges[k][2] /\ joined[j][1] = ranges[j + 1][1]
          BY <2>7, <3>3
        <4>2. ranges[k][2] < ranges[j + 1][1]
          BY <3>1, <3>3 DEF LooseAt
        <4> QED
          BY <4>1, <4>2
      <3>4. CASE k >= i
        <4>1. joined[k][2] = ranges[k + 1][2] /\ joined[j][1] = ranges[j + 1][1]
          BY <2>7, <2>9, <3>4
        <4>2. k + 1 \notin S
          BY <3>4
        <4>3. ranges[k + 1][2] < ranges[j + 1][1]
          BY <2>9, <3>1, <4>2 DEF LooseAt
        <4> QED
          BY <4>1, <4>3
      <3> QED
        BY <2>9, <3>2, <3>3, <3>4
    <2>10. LooseAt(joined, S \ {i})
      BY <2>8, <2>9 DEF LooseAt
    <2>11. ASSUME NEW b \in Nat, b \in Bytes(joined) PROVE b \in Bytes(ranges)
      <3>1. PICK k \in 1 .. Len(joined) : joined[k][1] <= b /\ b < joined[k][2]
        BY <2>4, <2>11, BytesIn
      <3>2. k \in 1 .. Len(ranges) /\ k + 1 \in 1 .. Len(ranges)
        BY <2>4, <2>5
      <3>3. \/ ranges[k][1] <= b /\ b < ranges[k][2]
            \/ ranges[k + 1][1] <= b /\ b < ranges[k + 1][2]
        <4>1. CASE k < i
          BY <2>7, <3>1, <4>1
        <4>2. CASE k = i
          BY SMTT(40), <1>1, <1>3, <2>7, <3>1, <3>2, <4>2
        <4>3. CASE k > i
          BY <2>7, <3>1, <4>3
        <4> QED
          BY <4>1, <4>2, <4>3
      <3> QED
        BY <3>2, <3>3, BytesIn
    <2>12. ASSUME NEW b \in Nat, b \in Bytes(ranges) PROVE b \in Bytes(joined)
      <3>1. PICK k \in 1 .. Len(ranges) : ranges[k][1] <= b /\ b < ranges[k][2]
        BY <2>12, BytesIn
      <3> DEFINE at == IF k <= i THEN k ELSE k - 1
      <3>2. at \in 1 .. Len(joined)
        BY <1>3, <2>4
      <3>3. joined[at][1] <= b /\ b < joined[at][2]
        <4>1. CASE k < i
          BY <2>7, <3>1, <3>2, <4>1
        <4>2. CASE k = i
          BY <1>1, <1>3, <2>2, <2>7, <3>1, <3>2, <4>2 DEF LooseAt
        <4>3. CASE k = i + 1
          <5>1. at = i /\ at \in 1 .. Len(joined)
            BY <3>2, <4>3
          <5>2. joined[at][1] = ranges[i][1] /\ joined[at][2] = ranges[k][2]
            BY <2>7, <4>3, <5>1
          <5>3. ranges[i][1] < ranges[k][1]
            BY <1>1, <1>3, <2>2, <4>3 DEF LooseAt
          <5> QED
            BY <1>1, <2>2, <3>1, <5>2, <5>3
        <4>4. CASE k > i + 1
          BY SMTT(40), <1>1, <2>7, <3>1, <3>2, <4>4
        <4> QED
          BY <4>1, <4>2, <4>3, <4>4
      <3> QED
        BY <2>4, <3>2, <3>3, BytesIn
    <2>13. Bytes(joined) = Bytes(ranges)
      BY <2>4, <2>11, <2>12, BytesIn
    <2> QED
      BY <2>1, <2>4, <2>10, <2>13
  <1> QED
    BY <1>2, <1>3

\* cover(), where it returns true: the list stays sorted, disjoint and merged, and
\* stands for what it stood for and the range.
LEMMA CoverIs ==
    ASSUME NEW ranges \in Ranges, Canonical(ranges),
           NEW start \in Nat, NEW length \in Nat,
           ~Overlaps(ranges, start, length)
    PROVE  /\ Cover(ranges, start, length) \in Ranges
           /\ Canonical(Cover(ranges, start, length))
           /\ Bytes(Cover(ranges, start, length))
                = Bytes(ranges) \cup (start .. start + length - 1)
  <1>1. CASE length = 0
    BY <1>1 DEF Cover
  <1>2. CASE length > 0
    <2> DEFINE at == Before(ranges, start)
               new == <<start, start + length>>
               place == at + 1
               inserted == InsertAt(ranges, place, new)
    <2>1. /\ at \in 0 .. Len(ranges)
          /\ \A i \in 1 .. Len(ranges) : ranges[i][1] < start <=> i <= at
      BY BeforeIs
    <2>2. /\ Len(ranges) \in Nat
          /\ \A i \in 1 .. Len(ranges) : ranges[i][1] \in Nat /\ ranges[i][2] \in Nat
      BY DEF Ranges, Pair
    <2>3. Cover(ranges, start, length) = Joined(Joined(inserted, place), at)
      BY <1>2 DEF Cover
    <2>4. /\ at > 0 => ranges[at][2] <= start
          /\ at < Len(ranges) => ranges[at + 1][1] >= start + length
      BY SMTT(40), <1>2, <2>1, <2>2 DEF Overlaps
    <2> HIDE DEF at
    <2>5. /\ new \in Pair /\ new[1] = start /\ new[2] = start + length
          /\ place \in 1 .. Len(ranges) + 1 /\ place = at + 1
      BY <2>1, <2>2 DEF Pair
    <2> HIDE DEF new, place
    <2>6. /\ inserted \in Ranges /\ Len(inserted) = Len(ranges) + 1
          /\ \A k \in 1 .. Len(ranges) + 1 :
               inserted[k] = IF k < place THEN ranges[k]
                             ELSE IF k = place THEN new ELSE ranges[k - 1]
      <3>1. ranges \in Seq(Pair)
        BY DEF Ranges
      <3> QED
        BY <2>5, <3>1, InsertAtIs DEF Ranges
    <2> HIDE DEF inserted
    <2>7. \A k \in 1 .. Len(inserted) :
            /\ k <= at => k \in 1 .. Len(ranges) /\ inserted[k] = ranges[k]
            /\ k = at + 1 => inserted[k] = new
            /\ k > at + 1 => /\ k - 1 \in 1 .. Len(ranges)
                             /\ inserted[k] = ranges[k - 1]
      BY <2>1, <2>2, <2>5, <2>6
    <2>8. \A i \in 1 .. Len(ranges) : i <= at => ranges[i][2] <= start
      BY SMTT(40), <2>1, <2>2, <2>4 DEF Canonical
    <2>9. \A i \in 1 .. Len(ranges) : i > at => ranges[i][1] >= start + length
      BY SMTT(40), <2>1, <2>2, <2>4 DEF Canonical
    <2>10. ASSUME NEW i \in 1 .. Len(ranges), i < at PROVE ranges[i][2] < start
      <3>1. at \in 1 .. Len(ranges) /\ ranges[at][1] < start
        BY <2>1, <2>10
      <3> QED
        BY <2>2, <2>10, <3>1 DEF Canonical
    <2>11. ASSUME NEW i \in 1 .. Len(ranges), i > at + 1
           PROVE  ranges[i][1] > start + length
      <3>1. at + 1 \in 1 .. Len(ranges) /\ ranges[at + 1][1] >= start + length
        BY <2>1, <2>2, <2>4, <2>11
      <3>2. ranges[at + 1][1] < ranges[at + 1][2] /\ ranges[at + 1][2] < ranges[i][1]
        BY <2>11, <3>1 DEF Canonical
      <3> QED
        BY <2>2, <3>1, <3>2
    <2>12. LooseAt(inserted, {at, place})
      <3>1. \A k \in 1 .. Len(inserted) : inserted[k][1] < inserted[k][2]
        <4>1. \A k \in 1 .. Len(inserted) :
                \/ inserted[k] = new
                \/ \E i \in 1 .. Len(ranges) : inserted[k] = ranges[i]
          BY <2>1, <2>2, <2>6, <2>7
        <4>2. new[1] < new[2]
          BY <1>2, <2>5
        <4> QED
          BY <4>1, <4>2 DEF Canonical
      <3>2. ASSUME NEW i \in 1 .. Len(inserted), NEW j \in 1 .. Len(inserted), i < j
            PROVE  \/ inserted[i][2] < inserted[j][1]
                   \/ /\ inserted[i][2] = inserted[j][1]
                      /\ i \in {at, place} /\ j = i + 1
        <4>1. CASE j <= at
          BY <2>1, <2>7, <3>2, <4>1 DEF Canonical
        <4>2. CASE j = at + 1
          <5>1. /\ i \in 1 .. Len(ranges) /\ i <= at
                /\ inserted[i] = ranges[i] /\ inserted[j] = new
            BY <2>1, <2>7, <3>2, <4>2
          <5>2. i = at \/ i < at
            BY <2>1, <5>1
          <5> QED
            BY <2>2, <2>5, <2>8, <2>10, <4>2, <5>1, <5>2
        <4>3. CASE j > at + 1 /\ i <= at
          <5>1. /\ i \in 1 .. Len(ranges) /\ inserted[i] = ranges[i]
                /\ j - 1 \in 1 .. Len(ranges) /\ inserted[j] = ranges[j - 1]
                /\ i < j - 1
            BY <2>1, <2>7, <4>3
          <5> QED
            BY <5>1 DEF Canonical
        <4>4. CASE j > at + 1 /\ i = at + 1
          <5>1. /\ j - 1 \in 1 .. Len(ranges) /\ inserted[j] = ranges[j - 1]
                /\ inserted[i] = new /\ j - 1 > at
            BY <2>1, <2>7, <4>4
          <5>2. j - 1 = at + 1 \/ j - 1 > at + 1
            BY <2>1, <5>1
          <5>3. ranges[j - 1][1] >= start + length
            BY <2>9, <5>1
          <5>4. j - 1 > at + 1 => ranges[j - 1][1] > start + length
            BY <2>11, <5>1
          <5>5. j - 1 = at + 1 => j = i + 1
            BY <2>1, <4>4
          <5>6. inserted[i][2] = start + length /\ inserted[j][1] = ranges[j - 1][1]
            BY <2>5, <5>1
          <5>7. ranges[j - 1][1] \in Nat
            BY <2>2, <5>1
          <5> QED
            BY <2>5, <4>4, <5>2, <5>3, <5>4, <5>5, <5>6, <5>7
        <4>5. CASE j > at + 1 /\ i > at + 1
          <5>1. /\ i - 1 \in 1 .. Len(ranges) /\ inserted[i] = ranges[i - 1]
                /\ j - 1 \in 1 .. Len(ranges) /\ inserted[j] = ranges[j - 1]
                /\ i - 1 < j - 1
            BY <2>7, <3>2, <4>5
          <5> QED
            BY <5>1 DEF Canonical
        <4> QED
          BY <2>1, <4>1, <4>2, <4>3, <4>4, <4>5
      <3> QED
        BY <3>1, <3>2 DEF LooseAt
    <2>13. Bytes(inserted) = Bytes(ranges) \cup (start .. start + length - 1)
      <3>1. ASSUME NEW b \in Nat, b \in Bytes(inserted)
            PROVE  b \in Bytes(ranges) \/ b \in start .. start + length - 1
        <4>1. PICK k \in 1 .. Len(inserted) : inserted[k][1] <= b /\ b < inserted[k][2]
          BY <2>6, <3>1, BytesIn
        <4>2. CASE k = at + 1
          BY <2>5, <2>7, <4>1, <4>2
        <4>3. CASE k # at + 1
          <5>1. \E i \in 1 .. Len(ranges) : ranges[i][1] <= b /\ b < ranges[i][2]
            BY SMTT(40), <2>1, <2>7, <4>1, <4>3
          <5> QED
            BY <5>1, BytesIn
        <4> QED
          BY <4>2, <4>3
      <3>2. ASSUME NEW b \in Nat, b \in Bytes(ranges) PROVE b \in Bytes(inserted)
        <4>1. PICK i \in 1 .. Len(ranges) : ranges[i][1] <= b /\ b < ranges[i][2]
          BY <3>2, BytesIn
        <4>2. \E k \in 1 .. Len(inserted) : inserted[k] = ranges[i]
          <5>1. CASE i <= at
            BY <2>1, <2>2, <2>6, <2>7, <5>1
          <5>2. CASE i > at
            <6>1. i + 1 \in 1 .. Len(inserted) /\ (i + 1) - 1 = i /\ i + 1 > at + 1
              BY <2>1, <2>2, <2>6, <5>2
            <6> QED
              BY <2>7, <6>1
          <5> QED
            BY <2>1, <5>1, <5>2
        <4> QED
          BY <2>6, <4>1, <4>2, BytesIn
      <3>3. ASSUME NEW b \in start .. start + length - 1 PROVE b \in Bytes(inserted)
        <4>1. at + 1 \in 1 .. Len(inserted) /\ b \in Nat
          BY <2>5, <2>6
        <4>2. inserted[at + 1][1] = start /\ inserted[at + 1][2] = start + length
          BY <2>5, <2>7, <4>1
        <4>3. start <= b /\ b < start + length
          OBVIOUS
        <4> QED
          BY <2>6, <4>1, <4>2, <4>3, BytesIn
      <3>4. Bytes(inserted) \in SUBSET Nat /\ Bytes(ranges) \in SUBSET Nat
        BY <2>6, BytesIn
      <3> QED
        BY <3>1, <3>2, <3>3, <3>4
    <2> DEFINE S == {at, place}
               once == Joined(inserted, place)
               twice == Joined(once, at)
    <2>14. /\ once \in Ranges /\ LooseAt(once, S \ {place})
           /\ Bytes(once) = Bytes(inserted)
      <3>1. place \in Nat /\ \A k \in S : k \in Nat /\ k <= place
        BY <2>1, <2>2, <2>5
      <3>2. LooseAt(inserted, S)
        BY <2>12
      <3> HIDE DEF S
      <3> QED
        BY <2>6, <3>1, <3>2, JoinedIs
    <2>15. S \ {place} = {at}
      BY <2>1, <2>5
    <2> HIDE DEF once
    <2>16. /\ twice \in Ranges /\ LooseAt(twice, {at} \ {at})
           /\ Bytes(twice) = Bytes(once)
      <3>1. at \in Nat /\ \A k \in {at} : k \in Nat /\ k <= at
        BY <2>1, <2>2
      <3>2. LooseAt(once, {at})
        BY <2>14, <2>15
      <3> QED
        BY <2>14, <3>1, <3>2, JoinedIs
    <2> HIDE DEF twice
    <2>17. Canonical(twice)
      BY <2>16 DEF LooseAt, Canonical
    <2>18. Cover(ranges, start, length) = twice
      BY <2>3 DEF once, twice
    <2> QED
      BY <2>13, <2>14, <2>16, <2>17, <2>18
  <1> QED
    BY <1>1, <1>2

\* prefix(): the number of bytes that have arrived from the first on.
LEMMA PrefixIs ==
    ASSUME NEW ranges \in Ranges, Canonical(ranges)
    PROVE  /\ Prefix(ranges) \in Nat
           /\ 0 .. Prefix(ranges) - 1 \subseteq Bytes(ranges)
           /\ Prefix(ranges) \notin Bytes(ranges)
  <1>1. /\ Len(ranges) \in Nat
        /\ \A i \in 1 .. Len(ranges) : ranges[i][1] \in Nat /\ ranges[i][2] \in Nat
    BY DEF Ranges, Pair
  <1>2. CASE ranges # <<>> /\ ranges[1][1] = 0
    <2>1. 1 \in 1 .. Len(ranges) /\ Prefix(ranges) = ranges[1][2]
      BY <1>2 DEF Prefix, Ranges
    <2>2. \A b \in 0 .. ranges[1][2] - 1 : b \in Nat /\ b \in Bytes(ranges)
      BY <1>1, <1>2, <2>1, BytesIn
    <2>3. \A i \in 1 .. Len(ranges) : ~(/\ ranges[i][1] <= ranges[1][2]
                                        /\ ranges[1][2] < ranges[i][2])
      BY <1>1, <2>1 DEF Canonical
    <2>4. ranges[1][2] \notin Bytes(ranges)
      BY <1>1, <2>1, <2>3, BytesIn
    <2> QED
      BY <1>1, <2>1, <2>2, <2>4
  <1>3. CASE ~(ranges # <<>> /\ ranges[1][1] = 0)
    <2>1. Prefix(ranges) = 0
      BY <1>3 DEF Prefix
    <2>2. ASSUME NEW i \in 1 .. Len(ranges), ranges[i][1] <= 0 PROVE FALSE
      <3>1. ranges # <<>> /\ 1 \in 1 .. Len(ranges)
        BY <1>1 DEF Ranges
      <3>2. ranges[1][1] > 0
        BY <1>1, <1>3, <3>1
      <3> QED
        BY <1>1, <2>2, <3>1, <3>2 DEF Canonical
    <2>3. 0 \notin Bytes(ranges)
      BY <2>2, BytesIn
    <2> QED
      BY <2>1, <2>3
  <1> QED
    BY <1>2, <1>3

\* covers(): every byte up to the total has arrived, and none past it.
LEMMA CoversIs ==
    ASSUME NEW ranges \in Ranges, Canonical(ranges), NEW total \in Nat
    PROVE  Covers(ranges, total) <=> Bytes(ranges) = 0 .. total - 1
  <1>1. /\ Len(ranges) \in Nat /\ (ranges = <<>> <=> Len(ranges) = 0)
        /\ \A i \in 1 .. Len(ranges) : /\ ranges[i][1] \in Nat /\ ranges[i][2] \in Nat
                                       /\ ranges[i] = <<ranges[i][1], ranges[i][2]>>
    BY EmptySeq DEF Ranges, Pair
  <1>2. /\ Bytes(ranges) \in SUBSET Nat
        /\ \A b \in Nat : b \in Bytes(ranges) <=>
             \E i \in 1 .. Len(ranges) : ranges[i][1] <= b /\ b < ranges[i][2]
    BY BytesIn
  <1>3. CASE ranges = <<>>
    <2>1. Bytes(ranges) = {}
      BY <1>1, <1>2, <1>3
    <2>2. 0 .. total - 1 = {} <=> total = 0
      <3>1. total # 0 => 0 \in 0 .. total - 1
        OBVIOUS
      <3>2. total = 0 => 0 .. total - 1 = {}
        OBVIOUS
      <3> QED
        BY <3>1, <3>2
    <2>3. Covers(ranges, total) <=> total = 0
      BY <1>1, <1>3 DEF Covers
    <2> QED
      BY <2>1, <2>2, <2>3
  <1>4. CASE ranges # <<>>
    <2>1. 1 \in 1 .. Len(ranges)
      BY <1>1, <1>4
    <2>2. ASSUME Covers(ranges, total) PROVE Bytes(ranges) = 0 .. total - 1
      <3>1. Len(ranges) = 1 /\ ranges[1] = <<0, total>>
        BY <1>4, <2>2 DEF Covers
      <3>2. ranges[1][1] = 0 /\ ranges[1][2] = total
        BY <3>1
      <3>3. \A i \in 1 .. Len(ranges) : i = 1
        BY <3>1
      <3>4. \A b \in Nat : b \in Bytes(ranges) <=> 0 <= b /\ b < total
        BY <1>2, <2>1, <3>2, <3>3
      <3>5. \A b : b \in 0 .. total - 1 <=> b \in Nat /\ 0 <= b /\ b < total
        OBVIOUS
      <3>6. Bytes(ranges) \subseteq Nat
        BY <1>2
      <3> QED
        BY <3>4, <3>5, <3>6
    <2>3. ASSUME Bytes(ranges) = 0 .. total - 1 PROVE Covers(ranges, total)
      <3>1. \A b \in Nat : b \in Bytes(ranges) <=> b < total
        BY <2>3
      <3>2. ranges[1][1] < ranges[1][2] /\ ranges[1][1] \in Bytes(ranges)
        BY <1>1, <1>2, <2>1 DEF Canonical
      <3>3. 0 \in Bytes(ranges)
        BY <1>1, <2>1, <3>1, <3>2
      <3>4. ranges[1][1] = 0
        <4>1. PICK i \in 1 .. Len(ranges) : ranges[i][1] <= 0
          BY <1>2, <3>3
        <4>2. 1 < i => ranges[1][2] < ranges[i][1]
          BY <2>1 DEF Canonical
        <4> QED
          BY <1>1, <2>1, <3>2, <4>1, <4>2
      <3>5. \A i \in 1 .. Len(ranges) : i = 1 \/ ranges[1][2] < ranges[i][1]
        BY <1>1, <2>1 DEF Canonical
      <3>6. ranges[1][2] \notin Bytes(ranges)
        <4> SUFFICES ASSUME NEW i \in 1 .. Len(ranges), ranges[i][1] <= ranges[1][2],
                            ranges[1][2] < ranges[i][2]
                     PROVE  FALSE
          BY <1>1, <1>2, <2>1
        <4> QED
          BY <1>1, <2>1, <3>5
      <3>7. ranges[1][2] - 1 \in Nat /\ ranges[1][2] - 1 \in Bytes(ranges)
        BY <1>1, <1>2, <2>1, <3>2, <3>4
      <3>8. ranges[1][2] = total
        BY <1>1, <2>1, <3>1, <3>6, <3>7
      <3>9. Len(ranges) = 1
        <4> SUFFICES ASSUME Len(ranges) # 1 PROVE FALSE
          OBVIOUS
        <4>1. 2 \in 1 .. Len(ranges)
          <5>1. Len(ranges) \in Nat /\ Len(ranges) # 1 /\ Len(ranges) # 0
            BY <1>1, <1>4
          <5>2. \A k \in Nat : k # 1 /\ k # 0 => 2 \in 1 .. k
            OBVIOUS
          <5> QED
            BY <5>1, <5>2
        <4>2. ranges[1][2] < ranges[2][1] /\ ranges[2][1] < ranges[2][2]
          BY <2>1, <4>1 DEF Canonical
        <4>3. ranges[2][1] \in Bytes(ranges)
          BY <1>1, <1>2, <4>1, <4>2
        <4> QED
          BY <1>1, <2>1, <3>1, <3>8, <4>1, <4>2, <4>3
      <3> QED
        BY <1>1, <2>1, <3>4, <3>8, <3>9 DEF Covers
    <2> QED
      BY <2>2, <2>3
  <1> QED
    BY <1>3, <1>4

\* truncate(): the bytes past the total go, and the list stays in order.
LEMMA TruncateIs ==
    ASSUME NEW ranges \in Ranges, Canonical(ranges), NEW total \in Nat
    PROVE  /\ Truncate(ranges, total) \in Ranges
           /\ Canonical(Truncate(ranges, total))
           /\ Bytes(Truncate(ranges, total)) = Bytes(ranges) \cap (0 .. total - 1)
  <1> DEFINE n == Before(ranges, total)
             kept == SubSeq(ranges, 1, n)
             cut == Truncate(ranges, total)
             end(i) == IF ranges[i][2] <= total THEN ranges[i][2] ELSE total
  <1>1. /\ Len(ranges) \in Nat
        /\ \A i \in 1 .. Len(ranges) : /\ ranges[i] \in Pair
                                       /\ ranges[i][1] \in Nat /\ ranges[i][2] \in Nat
                                       /\ ranges[i] = <<ranges[i][1], ranges[i][2]>>
    BY DEF Ranges, Pair
  <1>2. /\ n \in 0 .. Len(ranges)
        /\ \A i \in 1 .. Len(ranges) : ranges[i][1] < total <=> i <= n
    BY BeforeIs
  <1>3. /\ \A i \in 1 .. Len(ranges) : ranges[i][1] < ranges[i][2]
        /\ \A i, j \in 1 .. Len(ranges) : i < j => ranges[i][2] < ranges[j][1]
    BY DEF Canonical
  <1>4. cut = IF n = 0 \/ kept[n][2] <= total THEN kept
              ELSE [kept EXCEPT ![n] = <<kept[n][1], total>>]
    BY DEF Truncate, ReplaceAt
  <1> HIDE DEF n, cut
  <1>5. /\ kept \in Seq(Pair) /\ Len(kept) = n
        /\ \A i \in 1 .. n : i \in 1 .. Len(ranges) /\ kept[i] = ranges[i]
    <2>1. n \in Int /\ 1 \in Int /\ \A i \in 1 .. n : i \in 1 .. Len(ranges) /\ ranges[i] \in Pair
      BY <1>1, <1>2
    <2>2. ranges \in Seq(Pair)
      BY DEF Ranges
    <2>3. /\ kept \in Seq(Pair) /\ Len(kept) = IF 1 <= n THEN n - 1 + 1 ELSE 0
          /\ \A i \in 1 .. n - 1 + 1 : kept[i] = ranges[1 + i - 1]
      BY <2>1, <2>2, SubSeqProperties
    <2>4. Len(kept) = n /\ \A i \in 1 .. n : i \in 1 .. n - 1 + 1 /\ 1 + i - 1 = i
      BY <1>1, <1>2, <2>3
    <2> QED
      BY <2>1, <2>3, <2>4
  <1> HIDE DEF kept
  <1>6. ASSUME NEW i \in 1 .. n, i # n PROVE ranges[i][2] <= total
    <2>1. n \in 1 .. Len(ranges) /\ i < n /\ i \in 1 .. Len(ranges)
      BY <1>1, <1>2, <1>6
    <2>2. ranges[i][2] < ranges[n][1] /\ ranges[n][1] < total
      BY <1>2, <1>3, <2>1
    <2> QED
      BY <1>1, <2>1, <2>2
  <1>7. /\ cut \in Seq(Pair) /\ Len(cut) = n
        /\ \A i \in 1 .. n : cut[i] = <<ranges[i][1], end(i)>>
    <2>1. CASE n = 0 \/ kept[n][2] <= total
      <3>1. cut = kept
        BY <1>4, <2>1
      <3>2. ASSUME NEW i \in 1 .. n PROVE ranges[i][2] <= total
        <4>1. n # 0
          BY <1>2
        <4>2. CASE i = n
          BY <1>5, <2>1, <4>1, <4>2
        <4> QED
          BY <1>6, <4>2
      <3>3. \A i \in 1 .. n : cut[i] = <<ranges[i][1], end(i)>>
        BY <1>1, <1>5, <3>1, <3>2
      <3> QED
        BY <1>5, <3>1, <3>3
    <2>2. CASE ~(n = 0 \/ kept[n][2] <= total)
      <3>1. cut = [kept EXCEPT ![n] = <<kept[n][1], total>>] /\ n \in 1 .. n
        BY <1>1, <1>2, <1>4, <2>2
      <3>2. kept[n][1] \in Nat /\ <<kept[n][1], total>> \in Pair
        BY <1>1, <1>5, <3>1 DEF Pair
      <3>3. cut \in Seq(Pair) /\ Len(cut) = n
        BY <1>5, <3>1, <3>2
      <3>4. ASSUME NEW i \in 1 .. n PROVE cut[i] = <<ranges[i][1], end(i)>>
        <4>1. CASE i = n
          <5>1. cut[i] = <<ranges[n][1], total>> /\ ~(ranges[n][2] <= total)
            BY <1>5, <2>2, <3>1, <4>1
          <5> QED
            BY <4>1, <5>1
        <4>2. CASE i # n
          <5>1. cut[i] = ranges[i]
            BY <1>5, <3>1, <4>2
          <5>2. ranges[i][2] <= total
            BY <1>6, <4>2
          <5> QED
            BY <1>1, <1>5, <5>1, <5>2
        <4> QED
          BY <4>1, <4>2
      <3> QED
        BY <3>3, <3>4
    <2> QED
      BY <2>1, <2>2
  <1>8. ASSUME NEW i \in 1 .. n
        PROVE  /\ cut[i][1] = ranges[i][1] /\ cut[i][2] = end(i) /\ i \in 1 .. Len(ranges)
               /\ ranges[i][1] < end(i) /\ end(i) <= ranges[i][2] /\ end(i) <= total
               /\ end(i) \in Nat
    <2>1. i \in 1 .. Len(ranges) /\ ranges[i][1] < total
      BY <1>1, <1>2, <1>5
    <2>2. cut[i] = <<ranges[i][1], end(i)>>
      BY <1>7
    <2>3. cut[i][1] = ranges[i][1] /\ cut[i][2] = end(i)
      BY <2>2
    <2>4. ranges[i][1] < end(i) /\ end(i) <= ranges[i][2] /\ end(i) <= total /\ end(i) \in Nat
      BY <1>1, <1>3, <2>1
    <2> QED
      BY <2>1, <2>3, <2>4
  <1>9. Canonical(cut)
    <2>1. \A i \in 1 .. n : cut[i][1] < cut[i][2]
      BY <1>8
    <2>2. ASSUME NEW i \in 1 .. n, NEW j \in 1 .. n, i < j PROVE cut[i][2] < cut[j][1]
      <3>1. ranges[i][2] < ranges[j][1]
        BY <1>3, <1>8, <2>2
      <3>2. /\ cut[i][2] = end(i) /\ end(i) <= ranges[i][2] /\ end(i) \in Nat
            /\ cut[j][1] = ranges[j][1] /\ i \in 1 .. Len(ranges) /\ j \in 1 .. Len(ranges)
        BY <1>8
      <3> HIDE DEF end
      <3> QED
        BY <1>1, <3>1, <3>2
    <2> QED
      BY <1>7, <2>1, <2>2 DEF Canonical
  <1>10. cut \in Ranges
    BY <1>7 DEF Ranges
  <1>11. Bytes(cut) = Bytes(ranges) \cap (0 .. total - 1)
    <2>1. ASSUME NEW b \in Nat
          PROVE  b \in Bytes(cut) <=> b \in Bytes(ranges) /\ b < total
      <3>1. b \in Bytes(cut) <=> \E i \in 1 .. n : cut[i][1] <= b /\ b < cut[i][2]
        BY <1>7, <1>10, BytesIn
      <3>2. b \in Bytes(ranges) <=>
              \E i \in 1 .. Len(ranges) : ranges[i][1] <= b /\ b < ranges[i][2]
        BY BytesIn
      <3>3. ASSUME NEW i \in 1 .. n, cut[i][1] <= b, b < cut[i][2]
            PROVE  i \in 1 .. Len(ranges) /\ ranges[i][1] <= b /\ b < ranges[i][2] /\ b < total
        <4>1. /\ cut[i][1] = ranges[i][1] /\ cut[i][2] = end(i) /\ i \in 1 .. Len(ranges)
              /\ end(i) <= ranges[i][2] /\ end(i) <= total /\ end(i) \in Nat
          BY <1>8
        <4> HIDE DEF end
        <4> QED
          BY <1>1, <3>3, <4>1
      <3>4. ASSUME NEW i \in 1 .. Len(ranges), ranges[i][1] <= b, b < ranges[i][2], b < total
            PROVE  i \in 1 .. n /\ cut[i][1] <= b /\ b < cut[i][2]
        <4>1. ranges[i][1] < total
          BY <1>1, <3>4
        <4>2. i \in 1 .. n
          BY <1>1, <1>2, <4>1
        <4>3. cut[i][1] = ranges[i][1] /\ cut[i][2] = end(i)
          BY <1>8, <4>2
        <4> QED
          BY <1>1, <3>4, <4>2, <4>3
      <3> QED
        BY <3>1, <3>2, <3>3, <3>4
    <2>2. Bytes(cut) \subseteq Nat /\ Bytes(ranges) \subseteq Nat
      BY <1>10, BytesIn
    <2>3. \A b \in Nat : b < total <=> b \in 0 .. total - 1
      OBVIOUS
    <2> QED
      BY <2>1, <2>2, <2>3
  <1> QED
    BY <1>9, <1>10, <1>11 DEF cut

\* The number that is the least of a set is its Min.
LEMMA MinUnique ==
    ASSUME NEW T \in SUBSET Int, NEW x \in T, \A y \in T : x <= y
    PROVE  Min(T) = x
  <1>1. Min(T) \in T /\ \A y \in T : Min(T) <= y
    BY DEF Min
  <1> DEFINE m == Min(T)
  <1>2. m \in Int /\ x \in Int /\ m <= x /\ x <= m
    BY <1>1
  <1> HIDE DEF m
  <1>3. m = x
    BY <1>2
  <1> QED
    BY <1>3 DEF m

\* The first range that is not part of the prefix.
AfterPrefix(ranges) == IF ranges # <<>> /\ ranges[1][1] = 0 THEN 2 ELSE 1

\* What the walk of gap() returns: it ends at the first range, or at the second where
\* the first starts at 0 and falls short of the total.
LEMMA GapWalk ==
    ASSUME NEW ranges \in Ranges, Canonical(ranges), NEW total \in Nat \ {0}
    PROVE  Gap(ranges, total) =
             IF Prefix(ranges) >= total THEN NoGap
             ELSE <<Prefix(ranges),
                    IF AfterPrefix(ranges) <= Len(ranges)
                    THEN Min({ranges[AfterPrefix(ranges)][1], total}) ELSE total>>
  <1> DEFINE reached(i) == IF i = 0 THEN 0 ELSE ranges[i][2]
             holed(i) == ranges[i][1] > reached(i - 1)
             stops == {i \in 1 .. Len(ranges) : holed(i) \/ reached(i) >= total}
             first == Min(stops)
  <1>1. Gap(ranges, total) =
          CASE stops = {} /\ reached(Len(ranges)) < total
                 -> <<reached(Len(ranges)), total>>
            [] stops # {} /\ holed(first)
                 -> <<reached(first - 1), Min({ranges[first][1], total})>>
            [] OTHER -> NoGap
    BY DEF Gap
  <1>2. /\ Len(ranges) \in Nat /\ (ranges = <<>> <=> Len(ranges) = 0)
        /\ \A i \in 1 .. Len(ranges) : ranges[i][1] \in Nat /\ ranges[i][2] \in Nat
    BY EmptySeq DEF Ranges, Pair
  <1>3. /\ \A i \in 1 .. Len(ranges) : ranges[i][1] < ranges[i][2]
        /\ \A i, j \in 1 .. Len(ranges) : i < j => ranges[i][2] < ranges[j][1]
    BY DEF Canonical
  <1>4. stops \in SUBSET Int /\ 0 < total /\ total \in Nat
    OBVIOUS
  <1> HIDE DEF stops, first, reached, holed
  <1>5. CASE ranges = <<>>
    <2>1. Len(ranges) = 0 /\ stops = {} /\ reached(Len(ranges)) = 0
      BY <1>2, <1>5 DEF stops, reached
    <2>2. Gap(ranges, total) = <<0, total>>
      BY <1>1, <1>4, <2>1
    <2>3. Prefix(ranges) = 0 /\ AfterPrefix(ranges) = 1
      BY <1>5 DEF Prefix, AfterPrefix
    <2>4. ~(0 >= total) /\ ~(1 <= 0)
      BY <1>4
    <2> QED
      BY <2>1, <2>2, <2>3, <2>4
  <1>6. CASE ranges # <<>> /\ ranges[1][1] # 0
    <2>1. 1 \in 1 .. Len(ranges) /\ 1 <= Len(ranges)
      BY <1>2, <1>6
    <2>2. reached(0) = 0 /\ 1 - 1 = 0 /\ ranges[1][1] > 0
      BY <1>2, <1>6, <2>1 DEF reached
    <2>3. holed(1)
      BY <2>2 DEF holed
    <2>4. 1 \in stops /\ \A i \in stops : 1 <= i
      BY <2>1, <2>3 DEF stops
    <2>5. first = 1
      BY <1>4, <2>4, MinUnique DEF first
    <2>6. Gap(ranges, total) = <<0, Min({ranges[1][1], total})>>
      BY <1>1, <2>2, <2>3, <2>4, <2>5
    <2>7. Prefix(ranges) = 0 /\ AfterPrefix(ranges) = 1
      BY <1>6 DEF Prefix, AfterPrefix
    <2>8. ~(0 >= total)
      BY <1>4
    <2> QED
      BY <2>1, <2>6, <2>7, <2>8
  <1>7. CASE ranges # <<>> /\ ranges[1][1] = 0
    <2>1. 1 \in 1 .. Len(ranges) /\ 1 <= Len(ranges)
      BY <1>2, <1>7
    <2>2. Prefix(ranges) = ranges[1][2] /\ AfterPrefix(ranges) = 2 /\ ranges[1][2] \in Nat
      BY <1>2, <1>7, <2>1 DEF Prefix, AfterPrefix
    <2>3. reached(0) = 0 /\ reached(1) = ranges[1][2] /\ 1 - 1 = 0 /\ 2 - 1 = 1
      BY DEF reached
    <2>4. ~holed(1)
      BY <1>7, <2>3 DEF holed
    <2>5. CASE ranges[1][2] >= total
      <3>1. 1 \in stops /\ \A i \in stops : 1 <= i
        BY <2>1, <2>3, <2>5 DEF stops
      <3>2. first = 1
        BY <1>4, <3>1, MinUnique DEF first
      <3>3. Gap(ranges, total) = NoGap
        BY <1>1, <2>4, <3>1, <3>2
      <3> QED
        BY <2>2, <2>5, <3>3
    <2>6. CASE ~(ranges[1][2] >= total)
      <3>1. 1 \notin stops /\ ranges[1][2] < total
        BY <1>4, <2>2, <2>3, <2>4, <2>6 DEF stops
      <3>2. CASE Len(ranges) = 1
        <4>1. 1 .. 1 = {1}
          OBVIOUS
        <4>2. stops = {}
          BY <3>1, <3>2, <4>1 DEF stops
        <4>3. Gap(ranges, total) = <<ranges[1][2], total>>
          BY <1>1, <2>3, <3>1, <3>2, <4>2
        <4>4. ~(2 <= 1)
          OBVIOUS
        <4> QED
          BY <2>2, <2>6, <3>2, <4>3, <4>4
      <3>3. CASE Len(ranges) # 1
        <4>1. \A k \in Nat : k # 1 /\ 1 <= k => 2 \in 1 .. k /\ 2 <= k
          OBVIOUS
        <4>2. 2 \in 1 .. Len(ranges) /\ 2 <= Len(ranges)
          BY <1>2, <2>1, <3>3, <4>1
        <4>3. ranges[2][1] > ranges[1][2]
          BY <1>2, <1>3, <2>1, <4>2
        <4>4. holed(2)
          BY <2>3, <4>3 DEF holed
        <4>5. \A i \in 1 .. Len(ranges) : i # 1 => 2 <= i
          OBVIOUS
        <4>6. 2 \in stops /\ \A i \in stops : 2 <= i
          BY <3>1, <4>2, <4>4, <4>5 DEF stops
        <4>7. first = 2
          BY <1>4, <4>6, MinUnique DEF first
        <4>8. Gap(ranges, total) = <<ranges[1][2], Min({ranges[2][1], total})>>
          BY <1>1, <2>3, <4>4, <4>6, <4>7
        <4> QED
          BY <2>2, <2>6, <4>2, <4>8
      <3> QED
        BY <3>2, <3>3
    <2> QED
      BY <2>5, <2>6
  <1> QED
    BY <1>5, <1>6, <1>7

\* gap(): the first byte missing below the total, and the first one there is after it,
\* or the total.
LEMMA GapIs ==
    ASSUME NEW ranges \in Ranges, Canonical(ranges), NEW total \in Nat \ {0}
    PROVE  LET missing == (0 .. total - 1) \ Bytes(ranges)
               far == Min({total} \cup {i \in Bytes(ranges) : i > Min(missing)})
           IN  Gap(ranges, total) = IF missing = {} THEN NoGap ELSE <<Min(missing), far>>
  <1> DEFINE p == Prefix(ranges)
             k == AfterPrefix(ranges)
             missing == (0 .. total - 1) \ Bytes(ranges)
             after == {total} \cup {i \in Bytes(ranges) : i > Min(missing)}
  <1>1. /\ Len(ranges) \in Nat /\ (ranges = <<>> <=> Len(ranges) = 0)
        /\ \A i \in 1 .. Len(ranges) : ranges[i][1] \in Nat /\ ranges[i][2] \in Nat
    BY EmptySeq DEF Ranges, Pair
  <1>2. p \in Nat /\ 0 .. p - 1 \subseteq Bytes(ranges) /\ p \notin Bytes(ranges)
    BY PrefixIs
  <1>3. /\ Bytes(ranges) \in SUBSET Nat
        /\ \A b \in Nat : b \in Bytes(ranges) <=>
             \E i \in 1 .. Len(ranges) : ranges[i][1] <= b /\ b < ranges[i][2]
    BY BytesIn
  <1>4. Gap(ranges, total) =
          IF p >= total THEN NoGap
          ELSE <<p, IF k <= Len(ranges) THEN Min({ranges[k][1], total}) ELSE total>>
    BY GapWalk
  <1>5. /\ \A i \in 1 .. Len(ranges) : ranges[i][1] < ranges[i][2]
        /\ \A i, j \in 1 .. Len(ranges) : i < j => ranges[i][2] < ranges[j][1]
    BY DEF Canonical
  <1>6. /\ k \in {1, 2}
        /\ k = 2 => 1 \in 1 .. Len(ranges) /\ ranges[1][1] = 0 /\ p = ranges[1][2]
        /\ k = 1 => p = 0 /\ (ranges # <<>> => ranges[1][1] # 0)
    BY <1>1 DEF AfterPrefix, Prefix
  <1>7. total \in Nat /\ total # 0
    OBVIOUS
  <1> HIDE DEF p, k
  <1>8. CASE p >= total
    <2>1. 0 .. total - 1 \subseteq 0 .. p - 1
      BY <1>2, <1>7, <1>8
    <2>2. missing = {}
      BY <1>2, <2>1
    <2> QED
      BY <1>4, <1>8, <2>2
  <1>9. CASE ~(p >= total)
    <2>1. p \in missing /\ p < total
      <3>1. p \in 0 .. total - 1 /\ p < total
        BY <1>2, <1>7, <1>9
      <3> QED
        BY <1>2, <3>1
    <2>2. \A y \in missing : p <= y
      <3> SUFFICES ASSUME NEW y \in missing, ~(p <= y) PROVE FALSE
        OBVIOUS
      <3>1. y \in 0 .. total - 1 /\ y \notin Bytes(ranges)
        OBVIOUS
      <3>2. y \in 0 .. p - 1
        BY <1>2, <3>1
      <3> QED
        BY <1>2, <3>1, <3>2
    <2>3. missing \in SUBSET Int
      OBVIOUS
    <2> HIDE DEF missing
    <2>4. Min(missing) = p
      BY <2>1, <2>2, <2>3, MinUnique
    <2>5. after \in SUBSET Int /\ total \in after /\ \A i \in after : i = total \/ (i \in Bytes(ranges) /\ i > p)
      BY <1>3, <1>7, <2>4
    <2>6. ASSUME k <= Len(ranges) PROVE Gap(ranges, total) = <<Min(missing), Min(after)>>
      <3> DEFINE q == ranges[k][1]
      <3>1. k \in 1 .. Len(ranges) /\ q \in Nat
        BY <1>1, <1>6, <2>6
      <3>2. q > p
        <4>1. CASE k = 1
          <5>1. p = 0 /\ q # 0
            BY <1>1, <1>6, <3>1, <4>1
          <5> QED
            BY <3>1, <5>1
        <4>2. CASE k = 2
          <5>1. ranges[1][2] < ranges[2][1] /\ p = ranges[1][2]
            BY <1>5, <1>6, <3>1, <4>2
          <5> QED
            BY <1>2, <3>1, <4>2, <5>1
        <4> QED
          BY <1>6, <4>1, <4>2
      <3>3. q \in Bytes(ranges)
        <4>1. ranges[k][1] < ranges[k][2]
          BY <1>5, <3>1
        <4> QED
          BY <1>1, <1>3, <3>1, <4>1
      <3>4. ASSUME NEW b \in Bytes(ranges), b > p PROVE q <= b
        <4>1. PICK i \in 1 .. Len(ranges) : ranges[i][1] <= b /\ b < ranges[i][2]
          BY <1>3
        <4>2. ~(i < k)
          <5>1. i < k => k = 2 /\ i = 1
            BY <1>6
          <5> QED
            BY <1>1, <1>2, <1>3, <1>6, <3>4, <4>1, <5>1
        <4>3. i = k \/ k < i
          BY <1>6, <4>2
        <4>4. CASE i = k
          BY <4>1, <4>4
        <4>5. CASE k < i
          <5>1. ranges[k][1] < ranges[k][2] /\ ranges[k][2] < ranges[i][1]
            BY <1>5, <3>1, <4>5
          <5> QED
            BY <1>1, <1>3, <3>1, <4>1, <5>1
        <4> QED
          BY <4>3, <4>4, <4>5
      <3> HIDE DEF q
      <3>5. {q, total} \in SUBSET Int
        BY <1>7, <3>1
      <3>6. CASE q <= total
        <4>1. Min({q, total}) = q
          BY <1>7, <3>1, <3>6, MinOfTwo
        <4>2. q \in after /\ \A i \in after : q <= i
          BY <2>4, <2>5, <3>2, <3>3, <3>4, <3>6
        <4>3. Min(after) = q
          BY <2>5, <4>2, MinUnique
        <4> QED
          BY <1>4, <1>9, <2>1, <2>4, <2>6, <4>1, <4>3 DEF q
      <3>7. CASE ~(q <= total)
        <4>1. Min({q, total}) = total
          BY <1>7, <3>1, <3>7, MinOfTwo
        <4>2. \A i \in after : total <= i
          <5> SUFFICES ASSUME NEW i \in after PROVE total <= i
            OBVIOUS
          <5>1. i = total \/ q <= i
            BY <2>5, <3>4
          <5>2. i \in Int
            BY <2>5
          <5> QED
            BY <1>7, <3>1, <3>7, <5>1, <5>2
        <4>3. Min(after) = total
          BY <2>5, <4>2, MinUnique
        <4> QED
          BY <1>4, <1>9, <2>1, <2>4, <2>6, <4>1, <4>3 DEF q
      <3> QED
        BY <3>6, <3>7
    <2>7. ASSUME ~(k <= Len(ranges)) PROVE Gap(ranges, total) = <<Min(missing), Min(after)>>
      <3>1. ASSUME NEW b \in Bytes(ranges), b > p PROVE FALSE
        <4>1. PICK i \in 1 .. Len(ranges) : ranges[i][1] <= b /\ b < ranges[i][2]
          BY <1>3
        <4>2. k = 2 /\ i = 1
          BY <1>1, <1>6, <2>7, <4>1
        <4> QED
          BY <1>1, <1>2, <1>3, <1>6, <3>1, <4>1, <4>2
      <3>2. \A i \in after : total <= i
        BY <1>7, <2>5, <3>1
      <3>3. Min(after) = total
        BY <2>5, <3>2, MinUnique
      <3> QED
        BY <1>4, <1>9, <2>1, <2>4, <2>7, <3>3
    <2>8. Gap(ranges, total) = <<Min(missing), Min(after)>> /\ missing # {}
      BY <2>1, <2>6, <2>7
    <2> QED
      BY <2>8 DEF missing
  <1> QED
    BY <1>8, <1>9
=============================================================================
