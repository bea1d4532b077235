-------------------------- MODULE ReassemblyProofs --------------------------
(***************************************************************************)
(* Theorems about the reassembly of one transaction reply, for every size   *)
(* asked for, every size of message, every cap and every order of messages: *)
(*                                                                         *)
(*   TypeCorrect      Spec => []TypeOK                                     *)
(*   CoverageIsExact  Spec => []CoverageExact                              *)
(*   RepliesAreWhole  Spec => []WholeReply                                 *)
(*   CompletesOnTime  Spec => []CompleteExactly                            *)
(*                                                                         *)
(* The invariant ties the three things a block keeps by hand: the list of   *)
(* ranges is in order and stands for the bytes that arrived, these lie      *)
(* inside the total, and the buffer counts each of them once and no other.  *)
(* What cover() and truncate() do to the list is CoverIs and TruncateIs.    *)
(***************************************************************************)
EXTENDS Reassembly, CoverageProofs

-----------------------------------------------------------------------------
(* The inductive invariant. *)

Row == [total : Nat, declared : BOOLEAN, covered : Ranges, bytes : Seq(Nat)]

\* What block b keeps agrees with the bytes s that arrived for it.
Agrees(t, s, b) ==
    /\ Canonical(t.covered) /\ Bytes(t.covered) = s
    /\ s \subseteq 0 .. t.total - 1 /\ t.total <= Asked[b]
    /\ t.declared \/ t.total = 0

\* The buffer, while it is held, counts each byte that arrived once.
Counted(t, s, held) ==
    /\ ~held => t.bytes = <<>>
    /\ held => /\ Len(t.bytes) = t.total
               /\ \A i \in 1 .. t.total : t.bytes[i] = IF i - 1 \in s THEN 1 ELSE 0

Inv ==
    /\ track \in [Blocks -> Row] /\ sent \in [Blocks -> SUBSET Nat]
    /\ fragments \in 0 .. FragmentCap /\ empty \in 0 .. EmptyTolerance
    /\ buffered \in BOOLEAN /\ outcome \in {"open", "complete"} \cup Errors
    /\ \A b \in Blocks : Agrees(track[b], sent[b], b) /\ Counted(track[b], sent[b], buffered)
    /\ outcome \in {"open", "complete"} =>
         (outcome = "complete" <=> \A b \in Blocks : Complete(track[b]))

-----------------------------------------------------------------------------
(* What a message does to a block. *)

\* The parts of a message are numbers.
LEMMA PartIs ==
    ASSUME NEW b \in Blocks, NEW part \in Parts(b)
    PROVE  /\ part.total \in Nat /\ part.at \in Nat /\ part.length \in Nat
           /\ Asked[b] \in Nat
  BY ReassemblyAssumption DEF Parts

\* declare(): what arrived past the new total is forgotten by the list and by the
\* buffer alike.
LEMMA DeclaredIs ==
    ASSUME Inv, NEW b \in Blocks, NEW part \in Parts(b),
           ~Upward(b, part), ~TooLarge(b, part)
    PROVE  LET t == Declared(track[b], part.total)
               s == sent[b] \cap 0 .. part.total - 1
           IN  t \in Row /\ t.total = part.total /\ t.declared /\ Agrees(t, s, b) /\ Counted(t, s, buffered)
  <1> DEFINE r == track[b]
             n == part.total
             t == Declared(r, n)
             s == sent[b] \cap 0 .. n - 1
             resized == [i \in 1 .. n |-> IF i <= Len(r.bytes) THEN r.bytes[i] ELSE 0]
  <1>1. /\ r \in Row /\ sent[b] \in SUBSET Nat /\ Agrees(r, sent[b], b)
        /\ Counted(r, sent[b], buffered) /\ buffered \in BOOLEAN
    BY DEF Inv
  <1>2. n \in Nat /\ n <= Asked[b] /\ Asked[b] \in Nat /\ (r.declared => n <= r.total)
    <2>1. n \in Nat /\ Asked[b] \in Nat
      BY PartIs
    <2>2. ~(n > Asked[b]) /\ ~(r.declared /\ n > r.total) /\ r.total \in Nat
      BY <1>1 DEF TooLarge, Upward, Row
    <2> QED
      BY <2>1, <2>2
  <1>3. /\ r.total \in Nat /\ r.declared \in BOOLEAN /\ r.covered \in Ranges /\ r.bytes \in Seq(Nat)
    BY <1>1 DEF Row
  <1>4. /\ t.total = n /\ t.declared
        /\ t.covered = (IF n < r.total THEN Truncate(r.covered, n) ELSE r.covered)
        /\ t.bytes = (IF ~buffered THEN <<>> ELSE resized)
        /\ t = [total |-> t.total, declared |-> t.declared, covered |-> t.covered, bytes |-> t.bytes]
    BY DEF Declared
  <1> HIDE DEF r, n, t
  <1>5. t.covered \in Ranges /\ Canonical(t.covered) /\ Bytes(t.covered) = s
    <2>1. /\ Canonical(r.covered) /\ Bytes(r.covered) = sent[b] /\ sent[b] \subseteq 0 .. r.total - 1
          /\ r.declared \/ r.total = 0
      BY <1>1 DEF Agrees
    <2>2. CASE n < r.total
      BY <1>2, <1>3, <1>4, <2>1, <2>2, TruncateIs
    <2>3. CASE ~(n < r.total)
      <3>1. t.covered = r.covered
        BY <1>4, <2>3
      <3>2. 0 .. r.total - 1 \subseteq 0 .. n - 1
        BY <1>2, <1>3, <2>3
      <3>3. sent[b] \cap 0 .. n - 1 = sent[b]
        BY <2>1, <3>2
      <3> QED
        BY <1>3, <2>1, <3>1, <3>3
    <2> QED
      BY <2>2, <2>3
  <1>6. Agrees(t, s, b)
    <2>1. s \subseteq 0 .. n - 1
      OBVIOUS
    <2> QED
      BY <1>2, <1>4, <1>5, <2>1 DEF Agrees
  <1>7. CASE ~buffered
    <2>1. t.bytes = <<>> /\ <<>> \in Seq(Nat)
      BY <1>4, <1>7
    <2> QED
      BY <1>2, <1>4, <1>5, <1>6, <1>7, <2>1 DEF Row, Counted, r, n, t
  <1>8. CASE buffered
    <2>1. t.bytes = resized
      BY <1>4, <1>8
    <2>2. \A i \in 1 .. Len(r.bytes) : r.bytes[i] \in Nat
      BY <1>3
    <2>3. \A i \in 1 .. n : i <= Len(r.bytes) => i \in 1 .. Len(r.bytes)
      BY <1>3
    <2>4. resized \in [1 .. n -> Nat]
      BY <2>2, <2>3
    <2>5. resized \in Seq(Nat) /\ Len(resized) = n
      BY <1>2, <2>4
    <2>6. /\ Len(r.bytes) = r.total
          /\ \A i \in 1 .. r.total : r.bytes[i] = IF i - 1 \in sent[b] THEN 1 ELSE 0
      BY <1>1, <1>8 DEF Counted
    <2>7. ASSUME NEW i \in 1 .. n PROVE resized[i] = IF i - 1 \in s THEN 1 ELSE 0
      <3>1. i - 1 \in 0 .. n - 1
        BY <1>2
      <3>2. i - 1 \in s <=> i - 1 \in sent[b]
        BY <3>1
      <3>3. CASE i <= r.total
        <4>1. i \in 1 .. r.total
          BY <1>3, <3>3
        <4>2. resized[i] = r.bytes[i]
          BY <2>6, <3>3
        <4> QED
          BY <2>6, <3>2, <4>1, <4>2
      <3>4. CASE ~(i <= r.total)
        <4>1. resized[i] = 0
          BY <2>6, <3>4
        <4>2. sent[b] \subseteq 0 .. r.total - 1
          BY <1>1 DEF Agrees
        <4>3. i - 1 \notin 0 .. r.total - 1
          BY <1>3, <3>4
        <4> QED
          BY <3>2, <4>1, <4>2, <4>3
      <3> QED
        BY <3>3, <3>4
    <2> HIDE DEF resized, s
    <2>8. Counted(t, s, buffered)
      BY <1>4, <1>8, <2>1, <2>5, <2>7 DEF Counted
    <2>9. t \in Row
      BY <1>2, <1>4, <1>5, <2>1, <2>5 DEF Row
    <2> QED
      BY <1>4, <1>6, <2>8, <2>9 DEF r, n, t, s
  <1> QED
    BY <1>1, <1>7, <1>8

\* accept(): bytes that had not come are added to the list and written to the buffer.
LEMMA PlacedIs ==
    ASSUME NEW b \in Blocks, NEW part \in Parts(b), NEW t \in Row, NEW s \in SUBSET Nat,
           NEW held \in BOOLEAN, Agrees(t, s, b), Counted(t, s, held),
           t.total = part.total, ~Outside(part), ~Overlaps(t.covered, part.at, part.length)
    PROVE  LET after == Placed(t, part.at, part.length)
               more == s \cup part.at .. part.at + part.length - 1
           IN  after \in Row /\ Agrees(after, more, b) /\ Counted(after, more, held)
  <1> DEFINE at == part.at
             length == part.length
             after == Placed(t, at, length)
             new == at .. at + length - 1
             more == s \cup new
             written == [i \in DOMAIN t.bytes |-> IF i \in at + 1 .. at + length
                                                  THEN t.bytes[i] + 1 ELSE t.bytes[i]]
  <1>1. at \in Nat /\ length \in Nat /\ part.total \in Nat
    BY PartIs
  <1>2. /\ t.total \in Nat /\ t.declared \in BOOLEAN /\ t.covered \in Ranges /\ t.bytes \in Seq(Nat)
    BY DEF Row
  <1>3. /\ after.total = t.total /\ after.declared = t.declared
        /\ after.covered = Cover(t.covered, at, length) /\ after.bytes = written
        /\ after = [total |-> after.total, declared |-> after.declared,
                    covered |-> after.covered, bytes |-> after.bytes]
    <2>1. after = [t EXCEPT !.covered = Cover(t.covered, at, length), !.bytes = written]
      BY DEF Placed
    <2>2. t = [total |-> t.total, declared |-> t.declared, covered |-> t.covered, bytes |-> t.bytes]
      BY DEF Row
    <2> HIDE DEF after, written
    <2>3. after = [total |-> t.total, declared |-> t.declared,
                   covered |-> Cover(t.covered, at, length), bytes |-> written]
      BY <2>1, <2>2
    <2> QED
      BY <2>3
  <1>4. /\ Canonical(t.covered) /\ Bytes(t.covered) = s /\ s \subseteq 0 .. t.total - 1
        /\ t.total <= Asked[b] /\ (t.declared \/ t.total = 0)
    BY DEF Agrees
  <1>5. ~(length > 0 /\ at + length > t.total)
    BY DEF Outside
  <1>6. ~Overlaps(t.covered, at, length)
    OBVIOUS
  <1> HIDE DEF at, length, after
  <1>7. /\ after.covered \in Ranges /\ Canonical(after.covered) /\ Bytes(after.covered) = more
    BY <1>1, <1>2, <1>3, <1>4, <1>6, CoverIs
  <1>8. s \cap new = {}
    BY <1>1, <1>2, <1>4, <1>6, OverlapsIs
  <1>9. new \subseteq 0 .. t.total - 1
    BY <1>1, <1>2, <1>5
  <1>10. Agrees(after, more, b)
    BY <1>3, <1>4, <1>7, <1>9 DEF Agrees
  <1>11. /\ DOMAIN t.bytes = 1 .. Len(t.bytes) /\ Len(t.bytes) \in Nat
         /\ \A i \in 1 .. Len(t.bytes) : t.bytes[i] \in Nat
    BY <1>2
  <1>12. written \in [1 .. Len(t.bytes) -> Nat]
    BY <1>11
  <1>13. written \in Seq(Nat) /\ Len(written) = Len(t.bytes)
    BY <1>11, <1>12
  <1>14. after \in Row
    BY <1>2, <1>3, <1>7, <1>13 DEF Row
  <1>15. Counted(after, more, held)
    <2>1. CASE ~held
      <3>1. t.bytes = <<>>
        BY <2>1 DEF Counted
      <3>2. written = <<>>
        BY <1>13, <3>1, EmptySeq
      <3> QED
        BY <1>3, <2>1, <3>2 DEF Counted
    <2>2. CASE held
      <3>1. /\ Len(t.bytes) = t.total
            /\ \A i \in 1 .. t.total : t.bytes[i] = IF i - 1 \in s THEN 1 ELSE 0
        BY <2>2 DEF Counted
      <3>2. ASSUME NEW i \in 1 .. t.total
            PROVE  written[i] = IF i - 1 \in more THEN 1 ELSE 0
        <4>1. i \in at + 1 .. at + length <=> i - 1 \in new
          BY <1>1
        <4>2. written[i] = IF i - 1 \in new THEN t.bytes[i] + 1 ELSE t.bytes[i]
          BY <1>11, <3>1, <4>1
        <4>3. t.bytes[i] = IF i - 1 \in s THEN 1 ELSE 0
          BY <3>1
        <4> HIDE DEF written, new
        <4>4. i - 1 \in new => t.bytes[i] + 1 = 1
          BY <1>8, <4>3
        <4> QED
          BY <1>8, <4>2, <4>3, <4>4
      <3> HIDE DEF written, more
      <3> QED
        BY <1>3, <1>13, <2>2, <3>1, <3>2 DEF Counted
    <2> QED
      BY <2>1, <2>2
  <1> QED
    BY <1>10, <1>14, <1>15 DEF at, length, after

-----------------------------------------------------------------------------
(* The steps. *)

\* A message that fails no check is refused by none of them; one that fails is
\* refused with an error of the list.
LEMMA FailsIs ==
    ASSUME NEW m \in Messages
    PROVE  /\ Fails(m) = 0 =>
                /\ ~(buffered /\ TooMany)
                /\ \A b \in Blocks : ~Upward(b, m[b]) /\ ~TooLarge(b, m[b]) /\ ~Outside(m[b])
                                     /\ ~Recovers(b, m[b])
                /\ ~(buffered /\ ~Contributes(m) /\ empty + 1 > EmptyTolerance)
           /\ Fails(m) # 0 => Checks(m)[Fails(m)][2] \in Errors
  <1> DEFINE failed == {i \in 1 .. Len(Checks(m)) : Checks(m)[i][1]}
  <1>1. Fails(m) = IF failed # {} THEN Min(failed) ELSE 0
    BY DEF Fails, SelectInSeq
  <1>2. Len(Checks(m)) = 10
    BY DEF Checks
  <1>3. failed # {} => Fails(m) \in failed
    <2>1. failed \in SUBSET Nat
      BY <1>2
    <2> QED
      BY <1>1, <2>1, MinIs
  <1>4. CASE Fails(m) = 0
    <2>1. failed = {}
      BY <1>2, <1>3, <1>4
    <2>2. \A i \in 1 .. 10 : ~Checks(m)[i][1]
      BY <1>2, <2>1
    <2>3. /\ ~Checks(m)[1][1] /\ ~Checks(m)[2][1] /\ ~Checks(m)[3][1] /\ ~Checks(m)[4][1]
          /\ ~Checks(m)[5][1] /\ ~Checks(m)[6][1] /\ ~Checks(m)[7][1] /\ ~Checks(m)[8][1]
          /\ ~Checks(m)[9][1] /\ ~Checks(m)[10][1]
      BY <2>2
    <2>4. ~(buffered /\ TooMany)
      BY <2>3 DEF Checks
    <2>5. ~(buffered /\ ~Contributes(m) /\ empty + 1 > EmptyTolerance)
      BY <2>3 DEF Checks
    <2>6. /\ ~Upward("parameter", m.parameter) /\ ~TooLarge("parameter", m.parameter)
          /\ ~Outside(m.parameter) /\ ~Recovers("parameter", m.parameter)
      BY <2>3 DEF Checks
    <2>7. /\ ~Upward("data", m.data) /\ ~TooLarge("data", m.data)
          /\ ~Outside(m.data) /\ ~Recovers("data", m.data)
      BY <2>3 DEF Checks
    <2>8. \A b \in Blocks : b = "parameter" \/ b = "data"
      BY DEF Blocks
    <2> QED
      BY <1>4, <2>4, <2>5, <2>6, <2>7, <2>8
  <1>5. CASE Fails(m) # 0
    <2>1. Fails(m) \in 1 .. 10
      BY <1>1, <1>2, <1>3, <1>5
    <2>2. \A i \in 1 .. 10 : Checks(m)[i][2] \in Errors
      BY DEF Checks, Errors
    <2> QED
      BY <1>5, <2>1, <2>2
  <1> QED
    BY <1>4, <1>5

\* A message that is refused changes nothing but the outcome.
LEMMA RefusedInv ==
    ASSUME Inv, NEW m \in Messages, Refused(m)
    PROVE  Inv'
  <1>1. /\ outcome' \in Errors
        /\ UNCHANGED <<track, fragments, empty, buffered, sent>>
    BY FailsIs DEF Refused
  <1>2. outcome' \notin {"open", "complete"}
    BY <1>1 DEF Errors
  <1> QED
    BY <1>1, <1>2 DEF Inv

\* A message that is accepted.
LEMMA AcceptedInv ==
    ASSUME Inv, NEW m \in Messages, Accepted(m)
    PROVE  Inv'
  <1>1. /\ Fails(m) = 0 /\ outcome = "open" /\ buffered' = buffered
        /\ track' = [b \in Blocks |-> TrackAfter(b, m[b])]
        /\ sent' = [b \in Blocks |-> (sent[b] \cap 0 .. m[b].total - 1)
                                       \cup m[b].at .. m[b].at + m[b].length - 1]
        /\ fragments' = (IF buffered THEN fragments + 1 ELSE fragments)
        /\ empty' = (IF buffered /\ ~Contributes(m) THEN empty + 1 ELSE empty)
        /\ outcome' = IF \A b \in Blocks : Complete(track'[b]) THEN "complete" ELSE "open"
    BY DEF Accepted
  <1>2. /\ ~(buffered /\ TooMany)
        /\ ~(buffered /\ ~Contributes(m) /\ empty + 1 > EmptyTolerance)
    BY <1>1, FailsIs
  <1>3. ASSUME NEW b \in Blocks
        PROVE  /\ track'[b] \in Row /\ sent'[b] \in SUBSET Nat
               /\ Agrees(track'[b], sent'[b], b) /\ Counted(track'[b], sent'[b], buffered)
    <2> DEFINE part == m[b]
               t == Declared(track[b], part.total)
               s == sent[b] \cap 0 .. part.total - 1
    <2>1. part \in Parts(b)
      BY DEF Messages, Blocks
    <2>2. /\ ~Upward(b, part) /\ ~TooLarge(b, part) /\ ~Outside(part)
          /\ ~Overlaps(t.covered, part.at, part.length)
      BY <1>1, FailsIs DEF Recovers
    <2>3. t \in Row /\ t.total = part.total /\ Agrees(t, s, b) /\ Counted(t, s, buffered)
      BY <2>1, <2>2, DeclaredIs
    <2>4. s \in SUBSET Nat /\ sent[b] \in SUBSET Nat /\ buffered \in BOOLEAN
      BY DEF Inv
    <2>5. /\ track'[b] = Placed(t, part.at, part.length)
          /\ sent'[b] = s \cup part.at .. part.at + part.length - 1
      BY <1>1 DEF TrackAfter
    <2>6. part.at \in Nat
      BY <2>1, PartIs
    <2>7. part.at .. part.at + part.length - 1 \in SUBSET Nat
      BY <2>6
    <2> HIDE DEF t, s, part
    <2>8. /\ Placed(t, part.at, part.length) \in Row
          /\ Agrees(Placed(t, part.at, part.length), s \cup part.at .. part.at + part.length - 1, b)
          /\ Counted(Placed(t, part.at, part.length),
                     s \cup part.at .. part.at + part.length - 1, buffered)
      BY <2>1, <2>2, <2>3, <2>4, PlacedIs
    <2> QED
      BY <2>4, <2>5, <2>7, <2>8
  <1>4. track' \in [Blocks -> Row] /\ sent' \in [Blocks -> SUBSET Nat]
    <2>1. \A b \in Blocks : track'[b] \in Row /\ sent'[b] \in SUBSET Nat
      BY <1>3
    <2>2. /\ track' = [b \in Blocks |-> track'[b]] /\ sent' = [b \in Blocks |-> sent'[b]]
      BY <1>1
    <2> QED
      BY <2>1, <2>2
  <1>5. fragments' \in 0 .. FragmentCap /\ empty' \in 0 .. EmptyTolerance
    <2>1. /\ fragments \in 0 .. FragmentCap /\ empty \in 0 .. EmptyTolerance
          /\ FragmentCap \in Nat /\ EmptyTolerance \in Nat
      BY ReassemblyAssumption DEF Inv
    <2>2. fragments' \in 0 .. FragmentCap
      BY <1>1, <1>2, <2>1 DEF TooMany
    <2>3. empty' \in 0 .. EmptyTolerance
      <3>1. CASE buffered /\ ~Contributes(m)
        BY <1>1, <1>2, <2>1, <3>1
      <3>2. CASE ~(buffered /\ ~Contributes(m))
        BY <1>1, <2>1, <3>2
      <3> QED
        BY <3>1, <3>2
    <2> QED
      BY <2>2, <2>3
  <1>6. /\ outcome' \in {"open", "complete"}
        /\ outcome' = "complete" <=> \A b \in Blocks : Complete(track'[b])
    BY <1>1
  <1>7. buffered' \in BOOLEAN /\ buffered' = buffered
    BY <1>1 DEF Inv
  <1> QED
    BY <1>3, <1>4, <1>5, <1>6, <1>7 DEF Inv, Complete

\* The request lapses: the buffer goes, the lists stay.
LEMMA LapsesInv ==
    ASSUME Inv, Lapses
    PROVE  Inv'
  <1>1. /\ outcome = "open" /\ buffered' = FALSE
        /\ track' = [b \in Blocks |-> [track[b] EXCEPT !.bytes = <<>>]]
        /\ UNCHANGED <<fragments, empty, outcome, sent>>
    BY DEF Lapses
  <1>2. ASSUME NEW b \in Blocks
        PROVE  /\ track'[b] \in Row /\ track'[b].bytes = <<>>
               /\ track'[b].total = track[b].total /\ track'[b].declared = track[b].declared
               /\ track'[b].covered = track[b].covered
    <2>1. track[b] \in Row /\ <<>> \in Seq(Nat)
      BY DEF Inv
    <2>2. track'[b] = [track[b] EXCEPT !.bytes = <<>>]
      BY <1>1
    <2> QED
      BY <2>1, <2>2 DEF Row
  <1>3. track' \in [Blocks -> Row]
    <2>1. track' = [b \in Blocks |-> track'[b]]
      BY <1>1
    <2> QED
      BY <1>2, <2>1
  <1>4. ASSUME NEW b \in Blocks
        PROVE  Agrees(track'[b], sent[b], b) /\ Counted(track'[b], sent[b], FALSE)
    BY <1>2 DEF Inv, Agrees, Counted
  <1>5. ASSUME NEW b \in Blocks PROVE Complete(track'[b]) <=> Complete(track[b])
    BY <1>2 DEF Complete
  <1> QED
    BY <1>1, <1>3, <1>4, <1>5 DEF Inv, Complete

\* The invariant holds of a reassembly that has begun.
LEMMA InitInv ==
    ASSUME Init
    PROVE  Inv
  <1> DEFINE r == [total |-> 0, declared |-> FALSE, covered |-> <<>>, bytes |-> <<>>]
  <1>1. r \in Row
    <2>1. <<>> \in Ranges /\ <<>> \in Seq(Nat)
      BY DEF Ranges
    <2> QED
      BY <2>1 DEF Row
  <1>2. \A b \in Blocks : track[b] = r /\ sent[b] = {}
    BY DEF Init
  <1>3. Canonical(<<>>) /\ Bytes(<<>>) = {}
    <2>1. <<>> \in Ranges /\ Len(<<>>) = 0
      BY DEF Ranges
    <2>2. 1 .. 0 = {}
      OBVIOUS
    <2>3. \A b \in Nat : b \notin Bytes(<<>>)
      BY <2>1, <2>2, BytesIn
    <2>4. Bytes(<<>>) \in SUBSET Nat
      BY <2>1, BytesIn
    <2> QED
      BY <2>1, <2>2, <2>3, <2>4 DEF Canonical
  <1>4. ASSUME NEW b \in Blocks
        PROVE  Agrees(r, {}, b) /\ Counted(r, {}, TRUE) /\ ~Complete(r)
    <2>1. Asked[b] \in Nat
      BY ReassemblyAssumption
    <2>2. 0 <= Asked[b] /\ 1 .. 0 = {} /\ Len(<<>>) = 0
      BY <2>1
    <2> QED
      BY <1>3, <2>2 DEF Agrees, Counted, Complete
  <1>5. /\ track \in [Blocks -> Row] /\ sent \in [Blocks -> SUBSET Nat]
    BY <1>1 DEF Init
  <1>6. /\ fragments \in 0 .. FragmentCap /\ empty \in 0 .. EmptyTolerance
        /\ buffered = TRUE /\ outcome = "open"
    BY ReassemblyAssumption DEF Init
  <1>7. "data" \in Blocks
    BY DEF Blocks
  <1> HIDE DEF r
  <1> QED
    BY <1>2, <1>4, <1>5, <1>6, <1>7 DEF Inv

\* Every step keeps it.
LEMMA NextInv ==
    ASSUME Inv, [Next]_vars
    PROVE  Inv'
  <1>1. CASE Arrives
    BY <1>1, RefusedInv, AcceptedInv DEF Arrives
  <1>2. CASE Lapses
    BY <1>2, LapsesInv
  <1>3. CASE UNCHANGED vars
    <2>1. UNCHANGED <<track, fragments, empty, buffered, outcome, sent>>
      BY <1>3 DEF vars
    <2> QED
      BY <2>1 DEF Inv, Complete
  <1> QED
    BY <1>1, <1>2, <1>3 DEF Next, Over

-----------------------------------------------------------------------------
(* The theorems. *)

\* The invariant holds in every state of every reassembly.
THEOREM Invariance == Spec => []Inv
  <1>1. Init => Inv
    BY InitInv
  <1>2. Inv /\ [Next]_vars => Inv'
    BY NextInv
  <1> QED
    BY <1>1, <1>2, PTL DEF Spec

\* The fields of Track and Assembly keep their types, and the two counts their caps.
THEOREM TypeCorrect == Spec => []TypeOK
  <1>1. Inv => TypeOK
    BY DEF Inv, TypeOK, Row, Ranges, Pair
  <1> QED
    BY <1>1, Invariance, PTL

\* The list of ranges is in order and is exactly what arrived inside the total that now
\* governs, and cover(), prefix() and gap() answer what the set of bytes would
\* (reassembly.rs:107), for fragments in any order and totals revised downward.
THEOREM CoverageIsExact == Spec => []CoverageExact
  <1>1. Inv => CoverageExact
    <2> SUFFICES ASSUME Inv, NEW b \in Blocks
                 PROVE  LET covered == track[b].covered
                            missing(total) == (0 .. total - 1) \ sent[b]
                            far(total) == Min({total} \cup {i \in sent[b] :
                                                             i > Min(missing(total))})
                        IN  /\ Canonical(covered) /\ Bytes(covered) = sent[b]
                            /\ \A at \in 0 .. Asked[b], length \in 0 .. Payload :
                                 Overlaps(covered, at, length)
                                   <=> sent[b] \cap at .. at + length - 1 # {}
                            /\ Prefix(covered) = Min((0 .. Asked[b]) \ sent[b])
                            /\ \A total \in 1 .. Asked[b] :
                                 Gap(covered, total) = IF missing(total) = {} THEN NoGap
                                                       ELSE <<Min(missing(total)), far(total)>>
      BY DEF CoverageExact
    <2> DEFINE covered == track[b].covered
    <2>1. /\ covered \in Ranges /\ Canonical(covered) /\ Bytes(covered) = sent[b]
          /\ track[b].total \in Nat /\ track[b].total <= Asked[b]
          /\ sent[b] \subseteq 0 .. track[b].total - 1
      BY DEF Inv, Agrees, Row
    <2>2. Asked[b] \in Nat /\ Payload \in Nat
      BY ReassemblyAssumption
    <2> HIDE DEF covered
    <2>3. ASSUME NEW at \in 0 .. Asked[b], NEW length \in 0 .. Payload
          PROVE  Overlaps(covered, at, length) <=> sent[b] \cap at .. at + length - 1 # {}
      <3>1. at \in Nat /\ length \in Nat
        BY <2>2
      <3> QED
        BY <2>1, <3>1, OverlapsIs
    <2>4. Prefix(covered) = Min((0 .. Asked[b]) \ sent[b])
      <3> DEFINE p == Prefix(covered)
                 left == (0 .. Asked[b]) \ sent[b]
      <3>1. p \in Nat /\ 0 .. p - 1 \subseteq sent[b] /\ p \notin sent[b]
        BY <2>1, PrefixIs
      <3> HIDE DEF p
      <3>2. p <= Asked[b]
        <4> SUFFICES ASSUME ~(p <= Asked[b]) PROVE FALSE
          OBVIOUS
        <4>1. Asked[b] \in 0 .. p - 1
          BY <2>2, <3>1
        <4>2. Asked[b] \in 0 .. track[b].total - 1
          BY <2>1, <3>1, <4>1
        <4> QED
          BY <2>1, <2>2, <4>2
      <3>3. p \in left
        BY <2>2, <3>1, <3>2
      <3>4. ASSUME NEW y \in left PROVE p <= y
        <4>1. y \in 0 .. Asked[b] /\ y \notin sent[b]
          OBVIOUS
        <4>2. ~(y \in 0 .. p - 1)
          BY <3>1, <4>1
        <4> QED
          BY <2>2, <3>1, <4>1, <4>2
      <3>5. left \in SUBSET Int
        OBVIOUS
      <3> HIDE DEF left
      <3>6. Min(left) = p
        BY <3>3, <3>4, <3>5, MinUnique
      <3> QED
        BY <3>6 DEF p, left
    <2>5. ASSUME NEW total \in 1 .. Asked[b]
          PROVE  LET missing == (0 .. total - 1) \ sent[b]
                     far == Min({total} \cup {i \in sent[b] : i > Min(missing)})
                 IN  Gap(covered, total) = IF missing = {} THEN NoGap ELSE <<Min(missing), far>>
      <3>1. total \in Nat \ {0}
        BY <2>2
      <3> QED
        BY <2>1, <3>1, GapIs
    <2> QED
      BY <2>1, <2>3, <2>4, <2>5 DEF covered
  <1> QED
    BY <1>1, Invariance, PTL

\* A reply that is delivered has every byte of both blocks, each written once, and is
\* no longer than what was asked (reassembly.rs:6).
THEOREM RepliesAreWhole == Spec => []WholeReply
  <1>1. Inv => WholeReply
    <2> SUFFICES ASSUME Inv, outcome = "complete", buffered, NEW b \in Blocks
                 PROVE  /\ Len(track[b].bytes) = track[b].total
                        /\ track[b].total <= Asked[b]
                        /\ \A i \in 1 .. track[b].total : track[b].bytes[i] = 1
      BY DEF WholeReply
    <2>1. /\ track[b] \in Row /\ Agrees(track[b], sent[b], b) /\ Counted(track[b], sent[b], TRUE)
          /\ Complete(track[b])
      BY DEF Inv
    <2>2. /\ track[b].covered \in Ranges /\ track[b].total \in Nat /\ Canonical(track[b].covered)
          /\ Bytes(track[b].covered) = sent[b] /\ track[b].total <= Asked[b]
      BY <2>1 DEF Row, Agrees
    <2>3. sent[b] = 0 .. track[b].total - 1
      BY <2>1, <2>2, CoversIs DEF Complete
    <2>4. \A i \in 1 .. track[b].total : i - 1 \in sent[b]
      BY <2>2, <2>3
    <2> QED
      BY <2>1, <2>2, <2>4 DEF Counted
  <1> QED
    BY <1>1, Invariance, PTL

\* The reassembly completes with the message that brings the last byte of both totals,
\* neither before nor after it (table.rs:109).
THEOREM CompletesOnTime == Spec => []CompleteExactly
  <1>1. Inv => CompleteExactly
    <2> SUFFICES ASSUME Inv, NEW b \in Blocks
                 PROVE  Complete(track[b]) <=>
                          track[b].declared /\ sent[b] = 0 .. track[b].total - 1
      BY DEF Inv, CompleteExactly
    <2>1. /\ track[b].covered \in Ranges /\ track[b].total \in Nat
          /\ Canonical(track[b].covered) /\ Bytes(track[b].covered) = sent[b]
      BY DEF Inv, Row, Agrees
    <2> QED
      BY <2>1, CoversIs DEF Complete
  <1> QED
    BY <1>1, Invariance, PTL
=============================================================================
