--------------------------- MODULE AdapterProofs ---------------------------
(***************************************************************************)
(* The properties of the two adapters of src/src/resource/adapter.rs, for   *)
(* every size of fill, of buffer and of file, every mix of calls, and every *)
(* number of fills and spans that fail: Spec => [] of ReadInOrder,          *)
(* FlushMeansStored and LengthHonest of module Adapter.                     *)
(*                                                                         *)
(* None of the three is inductive.  What makes them so is where every byte  *)
(* is: what was accepted, what is in hand and what the reader holds are     *)
(* one run of the source up to the reader's cursor (Reads); the buffer or   *)
(* the span in flight is the end of what was accepted, up to the writer's   *)
(* cursor (Writes); and all before it, since the last error, is stored,     *)
(* acknowledged and counted in the length (Stores).                        *)
(***************************************************************************)
EXTENDS Adapter, SequenceTheorems, TLAPS

-----------------------------------------------------------------------------
(* The inductive invariant.  Every byte of the source is its own offset, so  *)
(* what a buffer should hold is said by where its numbers start.             *)

\* s is the bytes from n on.
Runs(s, n) == s \in Seq(Int) /\ \A i \in 1 .. Len(s) : s[i] = n + i - 1

N == Len(accepted)

\* The types of what is not a run of bytes.
Types ==
    /\ op \in {"idle", "read", "write", "flush", "into_inner", "gone"}
    /\ want \in Nat /\ sound \in Nat /\ place \in Nat /\ cursor \in Nat
    /\ atEnd \in BOOLEAN /\ filling \in {"none", "running", "failed", "filled"}
    /\ flushing \in {"none", "boxed", "polled", "direct"}
    /\ pending \in Int /\ len \in Nat /\ length \in 0 .. SourceLength
    /\ file \in [0 .. Start + SourceLength - 1 -> Int] /\ failures \in Nat
    /\ span \in Nat \X Nat /\ result \in {"none", "ok", "failed", "dropped"}

\* The reader: accepted, in hand and held are one run of bytes up to the cursor.
Reads ==
    /\ Runs(accepted, 0) /\ Runs(hand, N) /\ Runs(held, N + Len(hand))
    /\ place = N + Len(hand) + Len(held) /\ place <= SourceLength
    /\ op = "read" => hand = <<>>
    /\ filling # "none" => held = <<>> /\ ~atEnd
    /\ filling = "filled" =>
         /\ Runs(filled, place) /\ place + Len(filled) <= SourceLength
         /\ Len(filled) < FillSize => place + Len(filled) >= length
    /\ atEnd => place >= length
    /\ told = "end" => held = <<>> /\ atEnd

\* The writer: the buffer is the end of what was accepted, and so is the span in
\* flight while there is one.
Writes ==
    /\ Runs(buffer, N - Len(buffer)) /\ Len(buffer) <= N /\ Len(buffer) < Capacity
    /\ flushing # "none" =>
         /\ buffer = <<>> /\ Runs(flushed, span[1] - Start) /\ Len(flushed) > 0
         /\ span[1] >= Start /\ span[2] = Start + N /\ span[1] + Len(flushed) = span[2]
    /\ flushing # "direct" => cursor = Start + N - Len(buffer)
    /\ flushing = "direct" => cursor = span[1] /\ op \in {"into_inner", "gone"}
    /\ flushing \in {"boxed", "polled"} => pending = span[2]
    /\ flushing = "none" => result # "none"
    /\ flushing = "boxed" => result \in {"none", "dropped"}
    /\ result = "dropped" => op = "gone"

\* How many of the bytes accepted are before the buffer and the span in flight.
Behind == IF flushing = "none" THEN N - Len(buffer) ELSE span[1] - Start

\* The file: what landed is in its place, what is behind is acknowledged and
\* counted in the length, since the last error.
Stores ==
    /\ recorded \subseteq landed /\ landed \subseteq Start .. Start + N - 1
    /\ \A o \in landed : file[o] = o - Start
    /\ flushing # "none" /\ result = "ok" => SpanBytes \subseteq recorded
    /\ \A k \in sound + 1 .. Behind : Start + k - 1 \in recorded /\ Start + k - 1 < len
    /\ len >= OldLength /\ (len > OldLength => len - 1 \in landed)

\* What the operations told.
Tells ==
    /\ told = "flushed" => flushing = "none" /\ buffer = <<>>
    /\ failures > 0 => op = "gone" \/ (InFlight /\ result = "failed" /\ failures = 1)
    /\ InFlight /\ result = "failed" /\ op # "gone" => failures = 1
    /\ told # "untaken"

Inv == Types /\ Reads /\ Writes /\ Stores /\ Tells

-----------------------------------------------------------------------------
(* Runs of bytes. *)

\* A run has a length, and is empty when that is 0.
LEMMA RunIs ==
    ASSUME NEW s, NEW n, Runs(s, n)
    PROVE  s \in Seq(Int) /\ Len(s) \in Nat /\ (s = <<>> <=> Len(s) = 0)
  BY EmptySeq DEF Runs

\* Nothing is a run from anywhere.
LEMMA EmptyRuns ==
    ASSUME NEW n
    PROVE  Runs(<<>>, n) /\ Len(<<>>) = 0
  BY EmptySeq DEF Runs

\* A run is cut in two.
LEMMA CutRuns ==
    ASSUME NEW s, NEW n \in Int, Runs(s, n), NEW m \in 0 .. Len(s)
    PROVE  /\ Runs(SubSeq(s, 1, m), n) /\ Len(SubSeq(s, 1, m)) = m
           /\ Runs(SubSeq(s, m + 1, Len(s)), n + m)
           /\ Len(SubSeq(s, m + 1, Len(s))) = Len(s) - m
  <1>1. s \in Seq(Int) /\ Len(s) \in Nat /\ \A i \in 1 .. Len(s) : s[i] = n + i - 1 /\ s[i] \in Int
    BY RunIs DEF Runs
  <1>2. Runs(SubSeq(s, 1, m), n) /\ Len(SubSeq(s, 1, m)) = m
    <2> DEFINE t == SubSeq(s, 1, m)
    <2>1. /\ t \in Seq(Int) /\ Len(t) = IF 1 <= m THEN m - 1 + 1 ELSE 0
          /\ \A i \in 1 .. m - 1 + 1 : t[i] = s[1 + i - 1]
      <3>1. 1 \in Int /\ m \in Int /\ \A i \in 1 .. m : s[i] \in Int
        BY <1>1
      <3> QED
        BY <3>1, SubSeqProperties
    <2> HIDE DEF t
    <2>2. Len(t) = m
      BY <1>1, <2>1
    <2>3. \A i \in 1 .. Len(t) : t[i] = n + i - 1
      <3> SUFFICES ASSUME NEW i \in 1 .. m PROVE t[i] = n + i - 1
        BY <2>2
      <3>1. i \in 1 .. m - 1 + 1 /\ 1 + i - 1 = i /\ i \in 1 .. Len(s)
        BY <1>1
      <3> QED
        BY <1>1, <2>1, <3>1
    <2> QED
      BY <2>1, <2>2, <2>3 DEF Runs, t
  <1>3. /\ Runs(SubSeq(s, m + 1, Len(s)), n + m)
        /\ Len(SubSeq(s, m + 1, Len(s))) = Len(s) - m
    <2> DEFINE a == m + 1
               b == Len(s)
               t == SubSeq(s, a, b)
    <2>1. a \in Int /\ b \in Int /\ \A i \in a .. b : s[i] \in Int
      BY <1>1
    <2>2. /\ t \in Seq(Int) /\ Len(t) = IF a <= b THEN b - a + 1 ELSE 0
          /\ \A i \in 1 .. b - a + 1 : t[i] = s[a + i - 1]
      <3> HIDE DEF a, b
      <3> QED
        BY <2>1, SubSeqProperties
    <2>3. Len(t) = Len(s) - m /\ b - a + 1 = Len(s) - m
      BY <1>1, <2>2
    <2>4. \A i \in 1 .. Len(t) : t[i] = n + m + i - 1
      <3> SUFFICES ASSUME NEW i \in 1 .. Len(s) - m PROVE t[i] = n + m + i - 1
        BY <2>3
      <3>1. i \in 1 .. b - a + 1 /\ a + i - 1 = m + i /\ m + i \in 1 .. Len(s)
        <4>1. i \in 1 .. b - a + 1
          BY <2>3
        <4>2. m + 1 + i - 1 = m + i /\ m + i \in 1 .. Len(s)
          BY <1>1
        <4> QED
          BY <4>1, <4>2
      <3>2. t[i] = s[m + i] /\ s[m + i] = n + (m + i) - 1
        BY <1>1, <2>2, <3>1
      <3> QED
        BY <1>1, <3>2
    <2> HIDE DEF t
    <2>5. t \in Seq(Int) /\ \A i \in 1 .. Len(t) : t[i] = (n + m) + i - 1
      BY <2>2, <2>4
    <2>6. Runs(t, n + m)
      BY <2>5 DEF Runs
    <2> QED
      BY <2>3, <2>6 DEF t
  <1> QED
    BY <1>2, <1>3

\* Two runs that meet are one.
LEMMA JoinRuns ==
    ASSUME NEW s, NEW t, NEW n \in Int, Runs(s, n), Runs(t, n + Len(s))
    PROVE  Runs(s \o t, n) /\ Len(s \o t) = Len(s) + Len(t)
  <1>1. /\ s \in Seq(Int) /\ Len(s) \in Nat /\ \A i \in 1 .. Len(s) : s[i] = n + i - 1
        /\ t \in Seq(Int) /\ Len(t) \in Nat
        /\ \A i \in 1 .. Len(t) : t[i] = (n + Len(s)) + i - 1
    BY RunIs DEF Runs
  <1> DEFINE u == s \o t
  <1>2. /\ u \in Seq(Int) /\ Len(u) = Len(s) + Len(t)
        /\ \A i \in 1 .. Len(s) + Len(t) : u[i] = IF i <= Len(s) THEN s[i] ELSE t[i - Len(s)]
    BY <1>1, ConcatProperties
  <1> HIDE DEF u
  <1>3. ASSUME NEW i \in 1 .. Len(u) PROVE u[i] = n + i - 1
    <2>1. i \in 1 .. Len(s) + Len(t)
      BY <1>2
    <2>2. CASE i <= Len(s)
      BY <1>1, <1>2, <2>1, <2>2
    <2>3. CASE ~(i <= Len(s))
      <3>1. i - Len(s) \in 1 .. Len(t) /\ u[i] = t[i - Len(s)]
        BY <1>1, <1>2, <2>1, <2>3
      <3>2. t[i - Len(s)] = (n + Len(s)) + (i - Len(s)) - 1
        BY <1>1, <3>1
      <3> QED
        BY <1>1, <2>1, <3>1, <3>2
    <2> QED
      BY <2>2, <2>3
  <1> QED
    BY <1>2, <1>3 DEF Runs, u

\* Numbers is the run it says it is, and the only one of its length.
LEMMA NumbersRun ==
    ASSUME NEW a \in Int, NEW b \in Int, a <= b
    PROVE  Runs(Numbers(a, b), a) /\ Len(Numbers(a, b)) = b - a
  <1>1. Numbers(a, b) \in [1 .. b - a -> Int] /\ b - a \in Nat
    BY DEF Numbers
  <1>2. Numbers(a, b) \in Seq(Int) /\ Len(Numbers(a, b)) = b - a
    BY <1>1
  <1>3. \A i \in 1 .. b - a : Numbers(a, b)[i] = a + i - 1
    BY DEF Numbers
  <1> QED
    BY <1>2, <1>3 DEF Runs

\* A run from 0 is Numbers of its length.
LEMMA RunIsNumbers ==
    ASSUME NEW s, Runs(s, 0)
    PROVE  s = Numbers(0, Len(s))
  <1>1. s \in Seq(Int) /\ Len(s) \in Nat
    BY RunIs
  <1>2. Runs(Numbers(0, Len(s)), 0) /\ Len(Numbers(0, Len(s))) = Len(s)
    BY <1>1, NumbersRun
  <1>3. /\ Numbers(0, Len(s)) \in Seq(Int)
        /\ \A i \in 1 .. Len(s) : s[i] = Numbers(0, Len(s))[i]
    BY <1>2 DEF Runs
  <1> QED
    BY <1>1, <1>2, <1>3, SeqEqual

-----------------------------------------------------------------------------
(* Steps of the caller and of the reader. *)

\* The numbers the invariant is made of.
LEMMA Facts ==
    ASSUME Inv
    PROVE  /\ Types /\ Reads /\ Writes /\ Stores /\ Tells
           /\ N \in Nat /\ Len(hand) \in Nat /\ Len(held) \in Nat /\ Len(buffer) \in Nat
           /\ (hand = <<>> <=> Len(hand) = 0) /\ (held = <<>> <=> Len(held) = 0)
           /\ (buffer = <<>> <=> Len(buffer) = 0)
           /\ N + Len(hand) + Len(held) <= SourceLength
           /\ span[1] \in Nat /\ span[2] \in Nat
           /\ Start \in Nat /\ OldLength \in Nat /\ SourceLength \in Nat
           /\ Capacity \in Nat \ {0} /\ FillSize \in Nat \ {0}
  <1>1. Types /\ Reads /\ Writes /\ Stores /\ Tells
    BY DEF Inv
  <1>2. Runs(accepted, 0) /\ Runs(hand, N) /\ Runs(held, N + Len(hand)) /\ Runs(buffer, N - Len(buffer))
    BY <1>1 DEF Reads, Writes
  <1>3. /\ N \in Nat /\ Len(hand) \in Nat /\ Len(held) \in Nat /\ Len(buffer) \in Nat
        /\ (hand = <<>> <=> Len(hand) = 0) /\ (held = <<>> <=> Len(held) = 0)
        /\ (buffer = <<>> <=> Len(buffer) = 0)
    BY <1>2, RunIs DEF N
  <1>4. N + Len(hand) + Len(held) <= SourceLength
    BY <1>1 DEF Reads
  <1>5. span[1] \in Nat /\ span[2] \in Nat
    BY <1>1 DEF Types
  <1>6. /\ Start \in Nat /\ OldLength \in Nat /\ SourceLength \in Nat
        /\ Capacity \in Nat \ {0} /\ FillSize \in Nat \ {0}
    BY AdapterAssumption
  <1> QED
    BY <1>1, <1>3, <1>4, <1>5, <1>6

\* A step that leaves the writer and the destination alone.
LEMMA WriterStays ==
    ASSUME Inv, UNCHANGED <<accepted, sound, writer, file, failures, contractVars>>,
           flushing = "direct" \/ result = "dropped" \/ op = "gone" => op' = op,
           told' = told \/ told' \notin {"flushed", "untaken"}
    PROVE  Writes' /\ Stores' /\ Tells'
  <1>1. /\ N' = N /\ Behind' = Behind /\ InFlight' = InFlight /\ SpanBytes' = SpanBytes
        /\ UNCHANGED <<cursor, buffer, flushing, flushed, pending, len,
                       span, landed, recorded, result>>
    BY DEF N, Behind, InFlight, SpanBytes, writer, contractVars
  <1>2. Writes /\ Stores /\ Tells
    BY Facts
  <1>3. Writes'
    BY <1>1, <1>2 DEF Writes
  <1>4. Stores'
    BY <1>1, <1>2 DEF Stores
  <1>5. Tells'
    BY <1>1, <1>2 DEF Tells
  <1> QED
    BY <1>3, <1>4, <1>5

\* A step that leaves the reader and what the caller holds alone.
LEMMA ReaderStays ==
    ASSUME Inv, UNCHANGED <<hand, accepted, length, reader>>,
           told' = told \/ told' # "end", op' = "read" => hand = <<>>
    PROVE  Reads'
  <1>1. /\ N' = N /\ UNCHANGED <<place, held, atEnd, filling, filled>>
    BY DEF N, reader
  <1> QED
    BY <1>1, Facts DEF Reads

\* A call begins, or its future is dropped.
LEMMA CallInv ==
    ASSUME Inv, CallRead \/ CallWrite \/ CallFlush \/ CallIntoInner \/ Abandon
    PROVE  Inv'
  <1>1. /\ UNCHANGED <<hand, accepted, sound, reader, writer, servers, contractVars>>
        /\ told' = told \/ told' = "nothing"
        /\ op \notin {"into_inner", "gone"} /\ want' \in Nat
        /\ op' \in {"idle", "read", "write", "flush", "into_inner"}
        /\ op' = "read" => hand = <<>>
    <2>1. CASE CallRead
      BY <2>1, AdapterAssumption DEF CallRead, Call
    <2>2. CASE CallWrite \/ CallFlush \/ CallIntoInner
      BY <2>2 DEF CallWrite, CallFlush, CallIntoInner, Call
    <2>3. CASE Abandon
      BY <2>3, Facts DEF Abandon, Returns, Types
    <2> QED
      BY <2>1, <2>2, <2>3
  <1>2. flushing # "direct" /\ result # "dropped"
    BY <1>1, Facts DEF Writes
  <1>3. Reads'
    BY <1>1, ReaderStays DEF servers
  <1>4. Writes' /\ Stores' /\ Tells'
    BY <1>1, <1>2, WriterStays DEF servers
  <1>5. Types'
    BY <1>1, Facts DEF Types, servers, reader, writer, contractVars
  <1> QED
    BY <1>3, <1>4, <1>5 DEF Inv

\* Another client cuts the source short: an end stays an end.
LEMMA TruncateInv ==
    ASSUME Inv, Truncate
    PROVE  Inv'
  <1>1. /\ UNCHANGED <<caller, reader, writer, file, faults, failures, contractVars>>
        /\ length' \in 0 .. length - 1
    BY DEF Truncate
  <1>2. length' \in 0 .. SourceLength /\ length' < length /\ length \in Nat
    <2>1. length \in 0 .. SourceLength /\ SourceLength \in Nat
      BY Facts DEF Types
    <2> QED
      BY <1>1, <2>1
  <1>3. Writes' /\ Stores' /\ Tells'
    BY <1>1, WriterStays DEF caller
  <1>4. Types'
    BY <1>1, <1>2, Facts DEF Types, caller, reader, writer, contractVars
  <1>5. Reads'
    <2>1. /\ N' = N /\ UNCHANGED <<op, told, hand, accepted, place, held, atEnd, filling, filled>>
      BY <1>1 DEF N, caller, reader
    <2>2. filling = "filled" => Len(filled) \in Nat
      BY Facts, RunIs DEF Reads
    <2>3. place \in Nat
      BY Facts DEF Types
    <2>4. /\ atEnd => place >= length'
          /\ filling = "filled" /\ Len(filled) < FillSize => place + Len(filled) >= length'
      <3>1. /\ atEnd => place >= length
            /\ filling = "filled" /\ Len(filled) < FillSize => place + Len(filled) >= length
        BY Facts DEF Reads
      <3> QED
        BY <1>2, <2>2, <2>3, <3>1
    <2> QED
      BY <2>1, <2>4, Facts DEF Reads
  <1> QED
    BY <1>3, <1>4, <1>5 DEF Inv

\* What a read hands out of a run of bytes at the cursor, and what it keeps.
LEMMA ServeIs ==
    ASSUME Inv, op = "read", NEW bytes, Runs(bytes, N), Serve(bytes)
    PROVE  /\ Runs(hand', N) /\ Runs(held', N + Len(hand'))
           /\ Len(hand') + Len(held') = Len(bytes)
           /\ Len(hand') \in Nat /\ Len(held') \in Nat
           /\ op' = "idle" /\ UNCHANGED <<accepted, sound, want>>
           /\ told' \in {"end", "bytes"}
           /\ told' = "end" => bytes = <<>> /\ held' = <<>>
  <1> DEFINE m == Smaller(want, Len(bytes))
  <1>1. Len(bytes) \in Nat /\ want \in Nat /\ N \in Int /\ (bytes = <<>> <=> Len(bytes) = 0)
    BY RunIs, Facts DEF Types
  <1>2. m \in 0 .. Len(bytes)
    BY <1>1 DEF Smaller
  <1>3. hand' = SubSeq(bytes, 1, m) /\ held' = SubSeq(bytes, m + 1, Len(bytes))
    BY DEF Serve
  <1> HIDE DEF m
  <1>4. /\ Runs(hand', N) /\ Len(hand') = m
        /\ Runs(held', N + m) /\ Len(held') = Len(bytes) - m
    BY <1>1, <1>2, <1>3, CutRuns
  <1>5. Len(hand') + Len(held') = Len(bytes) /\ Len(hand') \in Nat /\ Len(held') \in Nat
    BY <1>1, <1>2, <1>4
  <1>6. /\ op' = "idle" /\ UNCHANGED <<accepted, sound, want>>
        /\ told' = IF bytes = <<>> THEN "end" ELSE "bytes"
    BY DEF Serve, Returns
  <1>7. bytes = <<>> => held' = <<>>
    <2>1. held' = <<>> <=> Len(held') = 0
      BY <1>4, RunIs
    <2> QED
      BY <1>1, <1>5, <2>1
  <1> QED
    BY <1>4, <1>5, <1>6, <1>7

\* A read is served from what was held.
LEMMA ReadHeldInv ==
    ASSUME Inv, ReadHeld
    PROVE  Inv'
  <1>1. /\ op = "read" /\ (held # <<>> \/ atEnd) /\ Serve(held)
        /\ UNCHANGED <<place, atEnd, filling, filled, writer, servers, contractVars>>
    BY DEF ReadHeld
  <1>2. hand = <<>> /\ Len(hand) = 0 /\ N \in Nat
    BY <1>1, Facts DEF Reads
  <1>3. Runs(held, N) /\ place = N + Len(held)
    <2>1. N + Len(hand) = N /\ N + Len(hand) + Len(held) = N + Len(held)
      BY <1>2, Facts
    <2> QED
      BY <2>1, Facts DEF Reads
  <1>4. /\ Runs(hand', N) /\ Runs(held', N + Len(hand'))
        /\ Len(hand') + Len(held') = Len(held)
        /\ Len(hand') \in Nat /\ Len(held') \in Nat
        /\ op' = "idle" /\ UNCHANGED <<accepted, sound, want>>
        /\ told' \in {"end", "bytes"}
        /\ told' = "end" => held = <<>> /\ held' = <<>>
    BY <1>1, <1>3, ServeIs
  <1>5. flushing # "direct" /\ result # "dropped"
    BY <1>1, Facts DEF Writes
  <1>6. Writes' /\ Stores' /\ Tells'
    BY <1>1, <1>4, <1>5, WriterStays DEF servers
  <1>7. Types'
    BY <1>1, <1>4, Facts DEF Types, servers, writer, contractVars
  <1>8. Reads'
    <2>1. N' = N
      BY <1>4 DEF N
    <2>2. place' = N + Len(hand') + Len(held')
      BY <1>1, <1>2, <1>3, <1>4
    <2>3. filling = "none"
      BY <1>1, Facts DEF Reads, Types
    <2>4. told' = "end" => atEnd
      BY <1>1, <1>4
    <2> QED
      BY <1>1, <1>4, <2>1, <2>2, <2>3, <2>4, Facts DEF Reads, servers
  <1> QED
    BY <1>6, <1>7, <1>8 DEF Inv

\* A fill begins, and ends: full, short at an end the server reported, or failed.
LEMMA FillInv ==
    ASSUME Inv, StartFill \/ FillEnds
    PROVE  Inv'
  <1>1. /\ UNCHANGED <<caller, place, held, atEnd, writer, length, file, failures, contractVars>>
        /\ filling' \in {"running", "failed", "filled"}
        /\ held = <<>> /\ ~atEnd
    <2>1. CASE StartFill
      BY <2>1 DEF StartFill, servers
    <2>2. CASE FillEnds
      BY <2>2, Facts DEF FillEnds, Reads
    <2> QED
      BY <2>1, <2>2
  <1>2. Writes' /\ Stores' /\ Tells'
    BY <1>1, WriterStays DEF caller
  <1>3. Types'
    BY <1>1, Facts DEF Types, caller, writer, contractVars
  <1>4. filling' = "filled" =>
          /\ Runs(filled', place) /\ place + Len(filled') <= SourceLength
          /\ Len(filled') < FillSize => place + Len(filled') >= length
    <2> SUFFICES ASSUME filling' = "filled"
                 PROVE  /\ Runs(filled', place) /\ place + Len(filled') <= SourceLength
                        /\ Len(filled') < FillSize => place + Len(filled') >= length
      OBVIOUS
    <2> DEFINE b == Larger(place, Smaller(place + FillSize, length))
    <2>1. filled' = Numbers(place, b)
      BY DEF StartFill, FillEnds
    <2>2. /\ place \in Nat /\ length \in Nat /\ length <= SourceLength /\ place <= SourceLength
          /\ FillSize \in Nat \ {0} /\ SourceLength \in Nat
      <3>1. length \in 0 .. SourceLength /\ place \in Nat /\ place <= SourceLength
        BY Facts DEF Types, Reads
      <3> QED
        BY <3>1, Facts
    <2>3. /\ b \in Nat /\ place <= b /\ b <= SourceLength
          /\ b - place < FillSize => b >= length
      BY <2>2 DEF Larger, Smaller
    <2> HIDE DEF b
    <2>4. Runs(filled', place) /\ Len(filled') = b - place
      <3>1. place \in Int /\ b \in Int /\ place <= b
        BY <2>2, <2>3
      <3> QED
        BY <2>1, <3>1, NumbersRun
    <2>5. place + (b - place) = b
      BY <2>2, <2>3
    <2> QED
      BY <2>3, <2>4, <2>5
  <1>5. Reads'
    <2>1. N' = N /\ UNCHANGED <<op, told, hand, accepted>>
      BY <1>1 DEF N, caller
    <2> QED
      BY <1>1, <1>4, <2>1, Facts DEF Reads
  <1> QED
    BY <1>2, <1>3, <1>5 DEF Inv

\* A read finds the fill finished: an error moves nothing.
LEMMA TakeFillInv ==
    ASSUME Inv, TakeFill
    PROVE  Inv'
  <1>1. /\ op = "read" /\ filling \in {"failed", "filled"} /\ filling' = "none"
        /\ UNCHANGED <<writer, servers, contractVars>>
    BY DEF TakeFill
  <1>2. /\ hand = <<>> /\ Len(hand) = 0 /\ held = <<>> /\ Len(held) = 0 /\ ~atEnd
        /\ flushing # "direct" /\ result # "dropped"
    BY <1>1, Facts DEF Reads, Writes
  <1>3. place = N
    BY <1>2, Facts DEF Reads
  <1>4. CASE filling = "failed"
    <2>1. op' = "idle" /\ told' = "error" /\ UNCHANGED <<want, hand, accepted, sound, place, held, atEnd>>
      BY <1>4 DEF TakeFill, Returns
    <2>2. Writes' /\ Stores' /\ Tells'
      BY <1>1, <1>2, <2>1, WriterStays DEF servers
    <2>3. Types'
      BY <1>1, <2>1, Facts DEF Types, servers, writer, contractVars
    <2>4. Reads'
      <3>1. N' = N
        BY <2>1 DEF N
      <3> QED
        BY <1>1, <1>2, <2>1, <3>1, Facts DEF Reads, servers
    <2> QED
      BY <2>2, <2>3, <2>4 DEF Inv
  <1>5. CASE filling = "filled"
    <2>1. place' = place + Len(filled) /\ atEnd' = (Len(filled) < FillSize) /\ Serve(filled)
      BY <1>5 DEF TakeFill
    <2>2. /\ Runs(filled, N) /\ place + Len(filled) <= SourceLength
          /\ Len(filled) < FillSize => place + Len(filled) >= length
      BY <1>3, <1>5, Facts DEF Reads
    <2>3. Len(filled) \in Nat /\ (filled = <<>> <=> Len(filled) = 0)
      BY <2>2, RunIs
    <2>4. /\ Runs(hand', N) /\ Runs(held', N + Len(hand'))
          /\ Len(hand') + Len(held') = Len(filled)
          /\ Len(hand') \in Nat /\ Len(held') \in Nat
          /\ op' = "idle" /\ UNCHANGED <<accepted, sound, want>>
          /\ told' \in {"end", "bytes"}
          /\ told' = "end" => filled = <<>> /\ held' = <<>>
      BY <1>1, <2>1, <2>2, ServeIs
    <2>5. Writes' /\ Stores' /\ Tells'
      BY <1>1, <1>2, <2>4, WriterStays DEF servers
    <2>6. Types'
      <3>1. place' \in Nat /\ atEnd' \in BOOLEAN
        <4>1. place \in Nat
          BY Facts DEF Types
        <4> QED
          BY <2>1, <2>3, <4>1
      <3> QED
        BY <1>1, <2>4, <3>1, Facts DEF Types, servers, writer, contractVars
    <2>7. Reads'
      <3>1. N' = N /\ length' = length
        BY <1>1, <2>4 DEF N, servers
      <3>2. place' = N + Len(hand') + Len(held')
        <4>1. N \in Nat
          BY Facts
        <4> QED
          BY <1>3, <2>1, <2>3, <2>4, <4>1
      <3>3. told' = "end" => atEnd'
        <4>1. FillSize \in Nat \ {0}
          BY Facts
        <4>2. told' = "end" => Len(filled) < FillSize
          BY <2>3, <2>4, <4>1
        <4> QED
          BY <2>1, <4>2
      <3>4. Runs(accepted', 0)
        BY <2>4, Facts DEF Reads
      <3> QED
        BY <1>1, <2>1, <2>2, <2>4, <3>1, <3>2, <3>3, <3>4 DEF Reads
    <2> QED
      BY <2>5, <2>6, <2>7 DEF Inv
  <1> QED
    BY <1>1, <1>4, <1>5

-----------------------------------------------------------------------------
(* Steps of the writer. *)

\* Everything accepted before what is kept is stored, and in the settled length.
Secured(from, to, l) ==
    \A k \in from + 1 .. to : Start + k - 1 \in recorded /\ Start + k - 1 < l

\* A length the file has.
Earned(l) == l \in Nat /\ l >= OldLength /\ (l > OldLength => l - 1 \in landed)

\* Bytes that end what was accepted, n in all, and lie at the cursor; all before
\* them is stored, since the last error.
AtCursor(bytes, n, from, l) ==
    /\ Runs(bytes, n - Len(bytes)) /\ Len(bytes) \in 0 .. n
    /\ cursor = Start + n - Len(bytes)
    /\ Earned(l) /\ Secured(from, n - Len(bytes), l)

\* A span write that succeeded has stored everything accepted, and earned the length.
LEMMA SpanEarns ==
    ASSUME Inv, flushing # "none", result = "ok"
    PROVE  Earned(Larger(len, Start + N)) /\ Secured(sound, N, Larger(len, Start + N))
  <1>1. /\ N \in Nat /\ Start \in Nat /\ OldLength \in Nat
        /\ span[1] \in Nat /\ span[2] \in Nat /\ sound \in Nat /\ len \in Nat
    BY Facts DEF Types
  <1>2. /\ Runs(flushed, span[1] - Start) /\ Len(flushed) > 0
        /\ span[1] >= Start /\ span[2] = Start + N /\ span[1] + Len(flushed) = span[2]
    BY Facts DEF Writes
  <1>3. Len(flushed) \in Nat
    BY <1>2, RunIs
  <1>4. span[1] .. span[2] - 1 \subseteq recorded /\ recorded \subseteq landed
    BY Facts DEF Stores, SpanBytes
  <1>5. Earned(len) /\ Secured(sound, span[1] - Start, len)
    BY <1>1, Facts DEF Stores, Earned, Secured, Behind
  <1> DEFINE l == Larger(len, Start + N)
  <1>6. l \in Nat /\ l >= len /\ l >= Start + N /\ (l = len \/ l = Start + N)
    BY <1>1 DEF Larger
  <1> HIDE DEF l
  <1>7. Start + N - 1 \in landed
    <2>1. Start + N - 1 \in span[1] .. span[2] - 1
      BY <1>1, <1>2, <1>3
    <2> QED
      BY <1>4, <2>1
  <1>8. Earned(l)
    BY <1>1, <1>5, <1>6, <1>7 DEF Earned
  <1>9. Secured(sound, N, l)
    <2> SUFFICES ASSUME NEW k \in sound + 1 .. N
                 PROVE  Start + k - 1 \in recorded /\ Start + k - 1 < l
      BY DEF Secured
    <2>1. Start + k - 1 < l
      BY <1>1, <1>6
    <2>2. CASE k <= span[1] - Start
      <3>1. k \in sound + 1 .. span[1] - Start
        BY <1>1, <2>2
      <3> QED
        BY <1>5, <2>1, <3>1 DEF Secured
    <2>3. CASE ~(k <= span[1] - Start)
      <3>1. Start + k - 1 \in span[1] .. span[2] - 1
        BY <1>1, <1>2, <2>3
      <3> QED
        BY <1>4, <2>1, <3>1
    <2> QED
      BY <2>2, <2>3
  <1> QED
    BY <1>8, <1>9 DEF l

\* What poll_flushing leaves where there is nothing in flight any more.
LEMMA SettledIs ==
    ASSUME Inv, FlushReady, flushing # "direct"
    PROVE  /\ AtCursor(Kept, N, sound, Settled) /\ Len(Kept) < Capacity
           /\ (Kept = <<>> <=> Len(Kept) = 0) /\ result # "none"
  <1>1. /\ N \in Nat /\ Len(buffer) \in Nat /\ Start \in Nat
        /\ Capacity \in Nat \ {0} /\ (buffer = <<>> <=> Len(buffer) = 0) /\ len \in Nat
    BY Facts DEF Types
  <1>2. /\ Runs(buffer, N - Len(buffer)) /\ Len(buffer) <= N /\ Len(buffer) < Capacity
        /\ cursor = Start + N - Len(buffer)
    BY Facts DEF Writes
  <1>3. CASE flushing = "none"
    <2>1. Kept = buffer /\ Settled = len /\ Behind = N - Len(buffer)
      BY <1>3 DEF Kept, Settled, Behind
    <2>2. result # "none"
      BY <1>3, Facts DEF Writes
    <2>3. Earned(len) /\ Secured(sound, Behind, len)
      BY <1>1, Facts DEF Stores, Earned, Secured
    <2> QED
      BY <1>1, <1>2, <2>1, <2>2, <2>3 DEF AtCursor
  <1>4. CASE flushing # "none"
    <2>1. flushing = "polled" /\ result = "ok"
      BY <1>4 DEF FlushReady, Finished
    <2>2. buffer = <<>> /\ pending = Start + N
      BY <2>1, Facts DEF Writes
    <2>3. Kept = <<>> /\ Settled = Larger(len, Start + N)
      BY <2>1, <2>2 DEF Kept, Settled
    <2>4. Runs(Kept, N - Len(Kept)) /\ Len(Kept) = 0
      BY <2>3, EmptyRuns
    <2>5. cursor = Start + N - Len(Kept)
      <3>1. Len(buffer) = Len(Kept)
        BY <1>1, <2>2, <2>4
      <3> QED
        BY <1>2, <3>1
    <2>6. N - Len(Kept) = N /\ Len(Kept) \in 0 .. N /\ Len(Kept) < Capacity
      BY <1>1, <2>4
    <2>7. Earned(Settled) /\ Secured(sound, N - Len(Kept), Settled)
      BY <2>1, <2>3, <2>6, SpanEarns
    <2> QED
      BY <2>1, <2>3, <2>4, <2>5, <2>6, <2>7 DEF AtCursor
  <1> QED
    BY <1>3, <1>4

\* More bytes, more places.
LEMMA Wider ==
    ASSUME NEW a \in Nat, NEW b \in Nat, NEW c \in Nat, b <= c
    PROVE  a .. a + b - 1 \subseteq a .. a + c - 1
  OBVIOUS

\* The writer comes to rest with bytes in its buffer.
LEMMA HoldInv ==
    ASSUME Inv, NEW bytes, Hold(bytes), NEW n \in Nat, N' = n, N <= n,
           AtCursor(bytes, n, sound', Settled), Len(bytes) < Capacity,
           result \notin {"none", "dropped"}, UNCHANGED file,
           told' = "flushed" => bytes = <<>>, told' # "untaken", failures' = 0
    PROVE  /\ Writes' /\ Stores' /\ Tells'
           /\ UNCHANGED <<cursor, span, result>> /\ flushing' = "none"
           /\ pending' = None /\ len' \in Nat
  <1>1. /\ buffer' = bytes /\ flushing' = "none" /\ pending' = None /\ len' = Settled
        /\ UNCHANGED <<cursor, flushed, span, landed, recorded, result>>
    BY DEF Hold, contractVars
  <1>2. /\ Runs(bytes, n - Len(bytes)) /\ Len(bytes) \in 0 .. n
        /\ cursor = Start + n - Len(bytes)
        /\ Earned(Settled) /\ Secured(sound', n - Len(bytes), Settled)
    BY DEF AtCursor
  <1>3. Len(bytes) <= n
    BY <1>2
  <1>4. Writes'
    BY <1>1, <1>2, <1>3 DEF Writes
  <1>5. Behind' = n - Len(bytes)
    BY <1>1 DEF Behind
  <1>6. Stores'
    <2>1. /\ recorded \subseteq landed /\ landed \subseteq Start .. Start + N - 1
          /\ \A o \in landed : file[o] = o - Start
      BY Facts DEF Stores
    <2>2. Start .. Start + N - 1 \subseteq Start .. Start + n - 1
      BY Facts, Wider
    <2>3. Secured(sound', Behind', len')
      BY <1>1, <1>2, <1>5
    <2>4. Earned(len')
      BY <1>1, <1>2
    <2> QED
      BY <1>1, <2>1, <2>2, <2>3, <2>4 DEF Stores, Secured, Earned
  <1>7. ~(failures' > 0) /\ ~InFlight'
    BY <1>1 DEF InFlight
  <1>8. Tells'
    BY <1>1, <1>7 DEF Tells
  <1> QED
    BY <1>1, <1>2, <1>4, <1>6, <1>8 DEF Earned

\* A span write begins, of the bytes at the end of what was accepted.
LEMMA BeginInv ==
    ASSUME Inv, NEW bytes, BeginSpan(bytes), NEW n \in Nat, N' = n, N <= n,
           AtCursor(bytes, n, sound', len'), Len(bytes) > 0, buffer' = <<>>,
           \/ /\ flushing' \in {"boxed", "polled"}
              /\ cursor' = cursor + Len(bytes) /\ pending' = cursor + Len(bytes)
           \/ flushing' = "direct" /\ cursor' = cursor /\ op' = "into_inner",
           UNCHANGED file, told' \notin {"flushed", "untaken"}, failures' = 0
    PROVE  /\ Writes' /\ Stores' /\ Tells' /\ cursor' \in Nat /\ len' \in Nat
           /\ span' \in Nat \X Nat /\ result' = "none"
  <1>1. /\ span' = <<cursor, cursor + Len(bytes)>> /\ flushed' = bytes /\ result' = "none"
        /\ UNCHANGED <<landed, recorded>>
    BY DEF BeginSpan
  <1>2. /\ Runs(bytes, n - Len(bytes)) /\ Len(bytes) \in 0 .. n
        /\ cursor = Start + n - Len(bytes)
        /\ Earned(len') /\ Secured(sound', n - Len(bytes), len')
    BY DEF AtCursor
  <1>3. Start \in Nat /\ N \in Nat /\ Capacity \in Nat \ {0} /\ 0 < Capacity
    BY Facts
  <1>4. /\ cursor \in Nat /\ cursor + Len(bytes) \in Nat /\ Len(bytes) <= n
        /\ cursor + Len(bytes) = Start + n /\ cursor - Start = n - Len(bytes)
        /\ cursor >= Start
    <2> DEFINE m == Len(bytes)
    <2>1. m \in 0 .. n /\ cursor = Start + n - m
      BY <1>2
    <2> HIDE DEF m
    <2>2. /\ cursor \in Nat /\ cursor + m \in Nat /\ m <= n
          /\ cursor + m = Start + n /\ cursor - Start = n - m
          /\ cursor >= Start
      BY <1>3, <2>1
    <2> QED
      BY <2>2 DEF m
  <1>5. span'[1] = cursor /\ span'[2] = Start + n /\ span' \in Nat \X Nat
    BY <1>1, <1>4
  <1>6. Runs(buffer', n - Len(buffer')) /\ Len(buffer') = 0
    BY EmptyRuns
  <1>7. Start + n - 0 = Start + n
    BY <1>3
  <1>8. /\ flushing' # "none" /\ flushing' # "direct" => cursor' = Start + n /\ pending' = Start + n
        /\ flushing' = "direct" => cursor' = cursor /\ op' = "into_inner"
    BY <1>4
  <1>9. Writes'
    <2>1. Len(buffer') <= N' /\ Len(buffer') < Capacity
      BY <1>3, <1>6
    <2>2. Runs(flushed', span'[1] - Start) /\ Len(flushed') > 0
      BY <1>1, <1>2, <1>4, <1>5
    <2>3. span'[1] >= Start /\ span'[2] = Start + N' /\ span'[1] + Len(flushed') = span'[2]
      BY <1>1, <1>4, <1>5
    <2>4. flushing' # "direct" => cursor' = Start + N' - Len(buffer')
      BY <1>6, <1>7, <1>8
    <2>5. flushing' \in {"boxed", "polled"} => pending' = span'[2]
      BY <1>5, <1>8
    <2>6. flushing' \in {"boxed", "polled", "direct"}
      OBVIOUS
    <2>7. /\ flushing' = "direct" => cursor' = span'[1] /\ op' \in {"into_inner", "gone"}
          /\ flushing' # "none"
      BY <1>5, <1>8, <2>6
    <2>8. Runs(buffer', N' - Len(buffer'))
      BY <1>6
    <2> QED
      BY <1>1, <2>1, <2>2, <2>3, <2>4, <2>5, <2>7, <2>8 DEF Writes
  <1>10. Behind' = n - Len(bytes)
    <2>1. flushing' # "none"
      OBVIOUS
    <2> QED
      BY <1>4, <1>5, <2>1 DEF Behind
  <1>11. Stores'
    <2>1. /\ recorded \subseteq landed /\ landed \subseteq Start .. Start + N - 1
          /\ \A o \in landed : file[o] = o - Start
      BY Facts DEF Stores
    <2>2. Start .. Start + N - 1 \subseteq Start .. Start + n - 1
      BY <1>3, Wider
    <2>3. Secured(sound', Behind', len')
      BY <1>2, <1>10
    <2> QED
      BY <1>1, <1>2, <2>1, <2>2, <2>3 DEF Stores, Secured, Earned
  <1>12. ~(failures' > 0) /\ flushing' # "none"
    OBVIOUS
  <1>13. Tells'
    BY <1>1, <1>12 DEF Tells
  <1>14. cursor' \in Nat
    BY <1>4
  <1> QED
    BY <1>1, <1>2, <1>5, <1>9, <1>11, <1>13, <1>14 DEF Earned

\* A poll that finds the flush ready finds no error, and nothing untold.
LEMMA ReadyIsQuiet ==
    ASSUME Inv, FlushReady, op # "gone"
    PROVE  failures = 0 /\ result # "dropped"
  <1>1. result # "dropped"
    BY Facts DEF Writes
  <1>2. ~(InFlight /\ result = "failed")
    BY DEF FlushReady, Finished, InFlight
  <1>3. ~(failures > 0) /\ failures \in Nat
    BY <1>2, Facts DEF Tells, Types
  <1>4. failures = 0
    BY <1>3
  <1> QED
    BY <1>1, <1>4

\* A flush is polled for the first time.
LEMMA PollBoxedInv ==
    ASSUME Inv, PollBoxed
    PROVE  Inv'
  <1>1. /\ op \in {"write", "flush", "into_inner"} /\ flushing = "boxed" /\ flushing' = "polled"
        /\ UNCHANGED <<caller, reader, cursor, buffer, flushed, pending, len, servers, contractVars>>
    BY DEF PollBoxed
  <1>2. /\ UNCHANGED <<op, want, told, hand, accepted, sound, length, file, failures>>
        /\ UNCHANGED <<span, landed, recorded, result>>
        /\ N' = N /\ Behind' = Behind /\ SpanBytes' = SpanBytes
    BY <1>1 DEF N, Behind, SpanBytes, caller, servers, contractVars
  <1>3. result = "none"
    BY <1>1, Facts DEF Writes
  <1>4. ~InFlight
    BY <1>1 DEF InFlight
  <1>5. Types'
    BY <1>1, <1>2, Facts DEF Types, reader
  <1>6. Reads'
    BY <1>1, <1>2, Facts, ReaderStays DEF Reads
  <1>7. Writes'
    BY <1>1, <1>2, <1>3, Facts DEF Writes
  <1>8. Stores'
    BY <1>1, <1>2, <1>3, Facts DEF Stores
  <1>9. Tells'
    BY <1>1, <1>2, <1>3, <1>4, Facts DEF Tells
  <1> QED
    BY <1>5, <1>6, <1>7, <1>8, <1>9 DEF Inv

\* The error of a flush is told, and the bytes of the flush are gone with it.
LEMMA TakeErrorInv ==
    ASSUME Inv, TakeError
    PROVE  Inv'
  <1>1. /\ op \in {"write", "flush", "into_inner"} /\ flushing = "polled" /\ result = "failed"
        /\ Hold(<<>>) /\ op' \in {"gone", "idle"} /\ told' = "error" /\ sound' = N
        /\ failures' = failures - 1
        /\ UNCHANGED <<want, hand, accepted, reader, length, file, faults>>
    BY DEF TakeError, N
  <1>2. failures = 1
    BY <1>1, Facts DEF Tells, InFlight
  <1>3. failures' = 0
    BY <1>1, <1>2
  <1>4. N' = N /\ N \in Nat /\ N <= N /\ Capacity \in Nat \ {0}
    <2>1. N' = N
      BY <1>1 DEF N
    <2>2. N \in Nat /\ Capacity \in Nat \ {0}
      BY Facts
    <2> QED
      BY <2>1, <2>2
  <1>5. Settled = len
    BY <1>1 DEF Settled
  <1>6. Runs(<<>>, N - Len(<<>>)) /\ Len(<<>>) = 0
    BY EmptyRuns
  <1>7. cursor = Start + N - Len(<<>>)
    <2>1. buffer = <<>> /\ cursor = Start + N - Len(buffer)
      BY <1>1, Facts DEF Writes
    <2> QED
      BY <2>1
  <1>8. Len(<<>>) \in 0 .. N /\ Len(<<>>) < Capacity /\ N - Len(<<>>) = N
    BY <1>4, <1>6
  <1>9. Secured(N, N, len)
    <2>1. N + 1 .. N = {}
      BY <1>4
    <2> QED
      BY <2>1 DEF Secured
  <1>10. Earned(len)
    BY Facts DEF Stores, Types, Earned
  <1>11. AtCursor(<<>>, N, sound', Settled)
    BY <1>1, <1>5, <1>6, <1>7, <1>8, <1>9, <1>10 DEF AtCursor
  <1> DEFINE n == N
  <1>12. n \in Nat /\ N' = n /\ N <= n /\ AtCursor(<<>>, n, sound', Settled)
    BY <1>4, <1>11
  <1>13. /\ Writes' /\ Stores' /\ Tells'
         /\ UNCHANGED <<cursor, span, result>> /\ flushing' = "none"
         /\ pending' = None /\ len' \in Nat
    <2> HIDE DEF n
    <2> QED
      BY <1>1, <1>3, <1>8, <1>12, HoldInv
  <1>14. Reads'
    BY <1>1, ReaderStays
  <1>15. Types'
    <2>1. pending' \in Int /\ failures' \in Nat /\ sound' \in Nat
      BY <1>1, <1>3, <1>4, <1>13 DEF None
    <2>2. Types
      BY Facts
    <2> QED
      BY <1>1, <1>13, <2>1, <2>2 DEF Types, reader
  <1> QED
    BY <1>13, <1>14, <1>15 DEF Inv

\* A flush, a shutdown: done, or the buffer goes on its way.
LEMMA PollFlushInv ==
    ASSUME Inv, PollFlush
    PROVE  Inv'
  <1>1. op = "flush" /\ FlushReady /\ UNCHANGED <<reader, servers>>
    BY DEF PollFlush
  <1>2. flushing # "direct" /\ op # "gone"
    BY <1>1, Facts DEF Writes
  <1>3. /\ AtCursor(Kept, N, sound, Settled) /\ Len(Kept) < Capacity
        /\ (Kept = <<>> <=> Len(Kept) = 0) /\ result # "none"
    BY <1>1, <1>2, SettledIs
  <1>4. failures = 0 /\ result # "dropped"
    BY <1>1, <1>2, ReadyIsQuiet
  <1>5. UNCHANGED <<length, file, failures>> /\ failures' = 0
    BY <1>1, <1>4 DEF servers
  <1>6. N \in Nat /\ N <= N /\ Types
    <2>1. N \in Nat /\ Types
      BY Facts
    <2> QED
      BY <2>1
  <1> DEFINE n == N
  <1>7. CASE Kept = <<>>
    <2>1. /\ Hold(<<>>) /\ op' = "idle" /\ told' = "flushed"
          /\ UNCHANGED <<want, hand, accepted, sound>>
      BY <1>7 DEF PollFlush, Returns
    <2>2. n \in Nat /\ N' = n /\ N <= n /\ AtCursor(<<>>, n, sound', Settled) /\ Len(<<>>) < Capacity
      <3>1. N' = N
        BY <2>1 DEF N
      <3> QED
        BY <1>3, <1>6, <1>7, <2>1, <3>1
    <2>3. /\ Writes' /\ Stores' /\ Tells'
          /\ UNCHANGED <<cursor, span, result>> /\ flushing' = "none"
          /\ pending' = None /\ len' \in Nat
      <3> HIDE DEF n
      <3> QED
        BY <1>3, <1>4, <1>5, <2>1, <2>2, HoldInv
    <2>4. Reads'
      BY <1>1, <1>5, <2>1, ReaderStays
    <2>5. Types'
      <3>1. pending' \in Int
        BY <2>3 DEF None
      <3> QED
        BY <1>1, <1>5, <1>6, <2>1, <2>3, <3>1 DEF Types, reader
    <2> QED
      BY <2>3, <2>4, <2>5 DEF Inv
  <1>8. CASE Kept # <<>>
    <2>1. /\ BeginSpan(Kept) /\ flushing' = "polled" /\ buffer' = <<>> /\ len' = Settled
          /\ cursor' = cursor + Len(Kept) /\ pending' = cursor + Len(Kept)
          /\ UNCHANGED <<op, want, told, hand, accepted, sound>>
      BY <1>8 DEF PollFlush, StartFlush, caller
    <2>2. n \in Nat /\ N' = n /\ N <= n /\ AtCursor(Kept, n, sound', len')
      <3>1. N' = N
        BY <2>1 DEF N
      <3> QED
        BY <1>3, <1>6, <2>1, <3>1
    <2>3. Len(Kept) > 0
      <3>1. Len(Kept) \in 0 .. N
        BY <1>3 DEF AtCursor
      <3> QED
        BY <1>3, <1>6, <1>8, <3>1
    <2>4. told' \notin {"flushed", "untaken"}
      <3>1. flushing = "none" /\ buffer # <<>>
        BY <1>8 DEF Kept
      <3>2. Tells
        BY Facts
      <3> QED
        BY <2>1, <3>1, <3>2 DEF Tells
    <2>5. /\ Writes' /\ Stores' /\ Tells' /\ cursor' \in Nat /\ len' \in Nat
          /\ span' \in Nat \X Nat /\ result' = "none"
      <3> HIDE DEF n
      <3> QED
        BY <1>5, <2>1, <2>2, <2>3, <2>4, BeginInv
    <2>6. Reads'
      BY <1>1, <1>5, <2>1, ReaderStays, Facts DEF Reads
    <2>7. Types'
      <3>1. pending' = cursor'
        BY <2>1
      <3>2. pending' \in Int
        BY <2>5, <3>1
      <3> QED
        BY <1>1, <1>5, <1>6, <2>1, <2>5, <3>2 DEF Types, reader
    <2> QED
      BY <2>5, <2>6, <2>7 DEF Inv
  <1> QED
    BY <1>7, <1>8

\* into_inner: done, or the buffer goes on its way without the cursor.
LEMMA IntoInnerInv ==
    ASSUME Inv, IntoInner
    PROVE  Inv'
  <1>1. op = "into_inner" /\ FlushReady /\ flushing # "direct" /\ UNCHANGED <<reader, servers>>
    BY DEF IntoInner
  <1>2. /\ AtCursor(Kept, N, sound, Settled) /\ Len(Kept) < Capacity
        /\ (Kept = <<>> <=> Len(Kept) = 0) /\ result # "none"
    BY <1>1, SettledIs
  <1>3. failures = 0 /\ result # "dropped"
    BY <1>1, ReadyIsQuiet
  <1>4. UNCHANGED <<length, file, failures>> /\ failures' = 0
    BY <1>1, <1>3 DEF servers
  <1>5. N \in Nat /\ N <= N /\ Types
    <2>1. N \in Nat /\ Types
      BY Facts
    <2> QED
      BY <2>1
  <1> DEFINE n == N
  <1>6. CASE Kept = <<>>
    <2>1. /\ Hold(<<>>) /\ op' = "gone" /\ told' = "flushed"
          /\ UNCHANGED <<want, hand, accepted, sound>>
      BY <1>6 DEF IntoInner
    <2>2. n \in Nat /\ N' = n /\ N <= n /\ AtCursor(<<>>, n, sound', Settled) /\ Len(<<>>) < Capacity
      <3>1. N' = N
        BY <2>1 DEF N
      <3> QED
        BY <1>2, <1>5, <1>6, <2>1, <3>1
    <2>3. /\ Writes' /\ Stores' /\ Tells'
          /\ UNCHANGED <<cursor, span, result>> /\ flushing' = "none"
          /\ pending' = None /\ len' \in Nat
      <3> HIDE DEF n
      <3> QED
        BY <1>2, <1>3, <1>4, <2>1, <2>2, HoldInv
    <2>4. Reads'
      BY <1>1, <1>4, <2>1, ReaderStays
    <2>5. Types'
      <3>1. pending' \in Int
        BY <2>3 DEF None
      <3> QED
        BY <1>1, <1>4, <1>5, <2>1, <2>3, <3>1 DEF Types, reader
    <2> QED
      BY <2>3, <2>4, <2>5 DEF Inv
  <1>7. CASE Kept # <<>>
    <2>1. /\ BeginSpan(Kept) /\ flushing' = "direct" /\ buffer' = <<>>
          /\ UNCHANGED <<cursor, pending, len, op, want, told, hand, accepted, sound>>
      BY <1>7 DEF IntoInner, caller
    <2>2. flushing = "none" /\ buffer # <<>> /\ Settled = len
      BY <1>7 DEF Kept, Settled
    <2>3. n \in Nat /\ N' = n /\ N <= n /\ AtCursor(Kept, n, sound', len')
      <3>1. N' = N
        BY <2>1 DEF N
      <3> QED
        BY <1>2, <1>5, <2>1, <2>2, <3>1
    <2>4. Len(Kept) > 0
      <3>1. Len(Kept) \in 0 .. N
        BY <1>2 DEF AtCursor
      <3> QED
        BY <1>2, <1>5, <1>7, <3>1
    <2>5. told' \notin {"flushed", "untaken"}
      <3>1. Tells
        BY Facts
      <3> QED
        BY <2>1, <2>2, <3>1 DEF Tells
    <2>6. /\ Writes' /\ Stores' /\ Tells' /\ cursor' \in Nat /\ len' \in Nat
          /\ span' \in Nat \X Nat /\ result' = "none"
      <3> HIDE DEF n
      <3>1. op' = "into_inner"
        BY <1>1, <2>1
      <3> QED
        BY <1>4, <2>1, <2>3, <2>4, <2>5, <3>1, BeginInv
    <2>7. Reads'
      BY <1>1, <1>4, <2>1, ReaderStays, Facts DEF Reads
    <2>8. Types'
      BY <1>1, <1>4, <1>5, <2>1, <2>6 DEF Types, reader
    <2> QED
      BY <2>6, <2>7, <2>8 DEF Inv
  <1> QED
    BY <1>6, <1>7

\* The span write of into_inner has ended, and the writer with it.
LEMMA IntoInnerEndsInv ==
    ASSUME Inv, IntoInnerEnds
    PROVE  Inv'
  <1>1. /\ op = "into_inner" /\ flushing = "direct" /\ result \in {"ok", "failed"}
        /\ op' = "gone" /\ told' \in {"flushed", "error"} /\ pending' = None
        /\ cursor' = cursor + Len(flushed)
        /\ len' = IF result = "ok" THEN Larger(len, cursor + Len(flushed)) ELSE len
        /\ sound' = IF result = "ok" THEN sound ELSE N
        /\ failures' = 0 /\ flushing' = "none"
        /\ UNCHANGED <<want, hand, accepted, reader, buffer, flushed, length, file, contractVars>>
    BY DEF IntoInnerEnds, Finished, N
  <1>2. UNCHANGED <<span, landed, recorded, result>> /\ N' = N
    BY <1>1 DEF contractVars, N
  <1>3. /\ buffer = <<>> /\ cursor = span[1] /\ span[1] + Len(flushed) = span[2]
        /\ span[2] = Start + N /\ Runs(buffer, N - Len(buffer)) /\ Len(buffer) <= N
        /\ Len(buffer) < Capacity
    BY <1>1, Facts DEF Writes
  <1>4. N \in Nat /\ Start \in Nat /\ Len(buffer) = 0 /\ sound \in Nat
    BY <1>3, Facts DEF Types
  <1>5. cursor' = Start + N /\ cursor' \in Nat /\ Start + N - Len(buffer) = Start + N
    BY <1>1, <1>3, <1>4
  <1>6. Earned(len') /\ Secured(sound', N, len') /\ sound' \in Nat
    <2>1. CASE result = "ok"
      <3>1. len' = Larger(len, Start + N) /\ sound' = sound
        BY <1>1, <1>3, <2>1
      <3>2. flushing # "none"
        BY <1>1
      <3> QED
        BY <1>4, <2>1, <3>1, <3>2, SpanEarns
    <2>2. CASE result # "ok"
      <3>1. len' = len /\ sound' = N
        BY <1>1, <2>2
      <3>2. Earned(len)
        BY Facts DEF Stores, Types, Earned
      <3>3. N + 1 .. N = {}
        BY <1>4
      <3>4. Secured(N, N, len)
        BY <3>3 DEF Secured
      <3> QED
        BY <1>4, <3>1, <3>2, <3>4
    <2> QED
      BY <2>1, <2>2
  <1>7. Writes'
    BY <1>1, <1>2, <1>3, <1>5 DEF Writes
  <1>8. Stores'
    <2>1. /\ recorded \subseteq landed /\ landed \subseteq Start .. Start + N - 1
          /\ \A o \in landed : file[o] = o - Start
      BY Facts DEF Stores
    <2>2. N - Len(buffer) = N
      BY <1>4
    <2>3. Behind' = N
      BY <1>1, <1>2, <2>2 DEF Behind
    <2> QED
      BY <1>1, <1>2, <1>6, <2>1, <2>3 DEF Stores, Earned, Secured
  <1>9. Tells'
    <2>1. ~(failures' > 0) /\ ~InFlight'
      BY <1>1 DEF InFlight
    <2> QED
      BY <1>1, <1>3, <2>1 DEF Tells
  <1>10. Reads'
    BY <1>1, ReaderStays
  <1>11. Types'
    <2>1. pending' \in Int /\ len' \in Nat /\ failures' \in Nat
      BY <1>1, <1>6 DEF None, Earned
    <2>2. Types
      BY Facts
    <2> QED
      BY <1>1, <1>2, <1>5, <1>6, <2>1, <2>2 DEF Types, reader
  <1> QED
    BY <1>7, <1>8, <1>9, <1>10, <1>11 DEF Inv

\* The writer is dropped.
LEMMA DropWriterInv ==
    ASSUME Inv, DropWriter
    PROVE  Inv'
  <1>1. /\ op # "gone" /\ op' = "gone" /\ told' = "nothing"
        /\ result' = (IF result = "none" THEN "dropped" ELSE result)
        /\ UNCHANGED <<span, landed, recorded>>
        /\ UNCHANGED <<want, hand, accepted, sound, reader, writer, servers>>
    BY DEF DropWriter, DropWrite, contractVars
  <1>2. /\ N' = N /\ Behind' = Behind /\ SpanBytes' = SpanBytes
        /\ UNCHANGED <<cursor, buffer, flushing, flushed, pending, len, length, file, failures>>
    BY <1>1 DEF N, Behind, SpanBytes, writer, servers
  <1>3. Writes'
    BY <1>1, <1>2, Facts DEF Writes
  <1>4. Stores'
    BY <1>1, <1>2, Facts DEF Stores
  <1>5. Tells'
    BY <1>1, <1>2 DEF Tells
  <1>6. Reads'
    BY <1>1, <1>2, ReaderStays
  <1>7. Types'
    BY <1>1, <1>2, Facts DEF Types, reader
  <1> QED
    BY <1>3, <1>4, <1>5, <1>6, <1>7 DEF Inv

-----------------------------------------------------------------------------
(* Steps of the span in flight. *)

\* A step of the span that changes its result, or none of it.
LEMMA SpanStepInv ==
    ASSUME Inv, UNCHANGED <<caller, reader, writer, length, file, span, landed, recorded>>,
           \/ result' = result /\ failures' = failures
           \/ /\ InFlight /\ result = "none" /\ result' = "ok" /\ SpanBytes \subseteq recorded
              /\ failures' = failures
           \/ /\ InFlight /\ result = "none" /\ result' = "failed" /\ failures' = failures + 1
    PROVE  Inv'
  <1>1. /\ UNCHANGED <<op, want, told, hand, accepted, sound>>
        /\ N' = N /\ Behind' = Behind /\ SpanBytes' = SpanBytes /\ InFlight' = InFlight
        /\ UNCHANGED <<cursor, buffer, flushing, flushed, pending, len>>
    BY DEF N, Behind, SpanBytes, InFlight, caller, writer
  <1>2. failures \in Nat /\ failures' \in Nat
    <2>1. failures \in Nat
      BY Facts DEF Types
    <2> QED
      BY <2>1
  <1>3. Writes'
    BY <1>1, Facts DEF Writes, InFlight
  <1>4. Stores'
    BY <1>1, Facts DEF Stores
  <1>5. Tells'
    <2>1. CASE result' = result /\ failures' = failures
      BY <1>1, <2>1, Facts DEF Tells
    <2>2. CASE result = "none" /\ result' = "ok" /\ failures' = failures
      BY <1>1, <2>2, Facts DEF Tells
    <2>3. CASE InFlight /\ result = "none" /\ result' = "failed" /\ failures' = failures + 1
      <3>1. op # "gone" => ~(failures > 0)
        BY <2>3, Facts DEF Tells
      <3>2. op # "gone" => failures' = 1
        BY <1>2, <2>3, <3>1
      <3>3. Tells
        BY Facts
      <3> QED
        BY <1>1, <2>3, <3>2, <3>3 DEF Tells
    <2> QED
      BY <2>1, <2>2, <2>3
  <1>6. Reads'
    BY <1>1, Facts, ReaderStays DEF Reads
  <1>7. Types'
    BY <1>1, <1>2, Facts DEF Types, reader
  <1> QED
    BY <1>3, <1>4, <1>5, <1>6, <1>7 DEF Inv

\* Bytes of the span land in the file, in their place.
LEMMA SpanLandsInv ==
    ASSUME Inv, SpanLands
    PROVE  Inv'
  <1>1. /\ InFlight /\ result \in {"none", "dropped"}
        /\ UNCHANGED <<caller, reader, writer, length, failures, span, result>>
        /\ landed \subseteq landed' /\ landed' \ landed \subseteq SpanBytes
        /\ recorded \subseteq recorded' /\ recorded' \subseteq recorded \cup landed'
    <2>1. InFlight /\ Record /\ UNCHANGED <<caller, reader, writer, length, faults, failures>>
      BY DEF SpanLands
    <2>2. PICK more \in SUBSET SpanBytes : landed' = landed \cup more
      BY <2>1 DEF Record
    <2>3. PICK known \in SUBSET (SpanBytes \cap landed') : recorded' = recorded \cup known
      BY <2>1 DEF Record
    <2>4. result \in {"none", "dropped"} /\ UNCHANGED <<span, result>>
      BY <2>1 DEF Record
    <2> QED
      BY <2>1, <2>2, <2>3, <2>4
  <1>2. file' = [o \in DOMAIN file |->
                   IF o \in landed' \ landed THEN flushed[o - span[1] + 1] ELSE file[o]]
    BY DEF SpanLands
  <1>3. /\ UNCHANGED <<op, want, told, hand, accepted, sound>>
        /\ N' = N /\ Behind' = Behind /\ SpanBytes' = SpanBytes /\ InFlight' = InFlight
        /\ UNCHANGED <<cursor, buffer, flushing, flushed, pending, len>>
    BY <1>1 DEF N, Behind, SpanBytes, InFlight, caller, writer
  <1>4. /\ Runs(flushed, span[1] - Start) /\ span[1] >= Start /\ span[2] = Start + N
        /\ span[1] + Len(flushed) = span[2] /\ flushing # "none"
    BY <1>1, Facts DEF Writes, InFlight
  <1>5. /\ N \in Nat /\ Start \in Nat /\ SourceLength \in Nat /\ N <= SourceLength
        /\ span[1] \in Nat /\ span[2] \in Nat /\ Len(flushed) \in Nat
    <2>1. /\ N \in Nat /\ Len(hand) \in Nat /\ Len(held) \in Nat /\ SourceLength \in Nat
          /\ N + Len(hand) + Len(held) <= SourceLength /\ Start \in Nat
          /\ span[1] \in Nat /\ span[2] \in Nat
      BY Facts
    <2>2. Len(flushed) \in Nat
      BY <1>4, RunIs
    <2>3. N <= SourceLength
      BY <2>1
    <2> QED
      BY <2>1, <2>2, <2>3
  <1>6. ASSUME NEW o \in SpanBytes
        PROVE  flushed[o - span[1] + 1] = o - Start /\ o - Start \in Int
               /\ o \in Start .. Start + N - 1
    <2>1. o \in span[1] .. span[2] - 1
      BY DEF SpanBytes
    <2>2. o - span[1] + 1 \in 1 .. Len(flushed) /\ o \in Start .. Start + N - 1 /\ o - Start \in Int
      BY <1>4, <1>5, <2>1
    <2>3. flushed[o - span[1] + 1] = (span[1] - Start) + (o - span[1] + 1) - 1
      BY <1>4, <2>2 DEF Runs
    <2>4. (span[1] - Start) + (o - span[1] + 1) - 1 = o - Start
      BY <1>5, <2>1
    <2> QED
      BY <2>2, <2>3, <2>4
  <1>7. file \in [0 .. Start + SourceLength - 1 -> Int]
    BY Facts DEF Types
  <1>8. Start .. Start + N - 1 \subseteq 0 .. Start + SourceLength - 1
    BY <1>5
  <1>9. /\ recorded \subseteq landed /\ landed \subseteq Start .. Start + N - 1
        /\ \A o \in landed : file[o] = o - Start
        /\ \A k \in sound + 1 .. Behind : Start + k - 1 \in recorded /\ Start + k - 1 < len
        /\ len >= OldLength /\ (len > OldLength => len - 1 \in landed)
    BY Facts DEF Stores
  <1>10. /\ landed' \subseteq Start .. Start + N - 1
         /\ recorded' \subseteq landed'
    BY <1>1, <1>6, <1>9
  <1>11. file' \in [0 .. Start + SourceLength - 1 -> Int]
    <2>1. \A o \in landed' \ landed : flushed[o - span[1] + 1] \in Int
      BY <1>1, <1>6
    <2> QED
      BY <1>2, <1>7, <2>1
  <1>12. \A o \in landed' : file'[o] = o - Start
    <2> SUFFICES ASSUME NEW o \in landed' PROVE file'[o] = o - Start
      OBVIOUS
    <2>1. o \in DOMAIN file
      BY <1>7, <1>8, <1>10
    <2>2. CASE o \in landed
      BY <1>2, <1>9, <2>1, <2>2
    <2>3. CASE o \notin landed
      <3>1. o \in SpanBytes /\ file'[o] = flushed[o - span[1] + 1]
        BY <1>1, <1>2, <2>1, <2>3
      <3> QED
        BY <1>6, <3>1
    <2> QED
      BY <2>2, <2>3
  <1>13. Stores'
    <2>1. result' # "ok"
      BY <1>1
    <2> QED
      BY <1>1, <1>3, <1>9, <1>10, <1>12, <2>1 DEF Stores
  <1>14. Writes'
    BY <1>1, <1>3, Facts DEF Writes
  <1>15. Tells'
    BY <1>1, <1>3, Facts DEF Tells
  <1>16. Reads'
    BY <1>1, <1>3, Facts, ReaderStays DEF Reads
  <1>17. Types'
    BY <1>1, <1>3, <1>11, Facts DEF Types, reader
  <1> QED
    BY <1>13, <1>14, <1>15, <1>16, <1>17 DEF Inv

\* The results of the span, and its completion.
LEMMA SpanEndsInv ==
    ASSUME Inv, SpanOk \/ SpanFails \/ SpanCompletes
    PROVE  Inv'
  <1>1. CASE SpanOk
    BY <1>1, SpanStepInv DEF SpanOk, ReturnOk, servers
  <1>2. CASE SpanFails
    BY <1>2, SpanStepInv DEF SpanFails, ReturnError
  <1>3. CASE SpanCompletes
    BY <1>3, SpanStepInv DEF SpanCompletes, Complete, servers
  <1> QED
    BY <1>1, <1>2, <1>3

-----------------------------------------------------------------------------
(* A write. *)

\* What a write takes, and what that leaves in the buffer and in the hand.
LEMMA TakingIs ==
    ASSUME Inv, FlushReady, flushing # "direct"
    PROVE  LET t == Taking(Kept)
               bytes == Kept \o SubSeq(hand, 1, t)
               rest == SubSeq(hand, t + 1, Len(hand))
               all == accepted \o SubSeq(hand, 1, t)
           IN  /\ t \in Nat /\ (hand # <<>> => t > 0) /\ (hand = <<>> => t = 0)
               /\ AtCursor(bytes, N + t, sound, Settled) /\ Len(bytes) = Len(Kept) + t
               /\ Runs(all, 0) /\ Len(all) = N + t
               /\ Runs(rest, N + t) /\ Len(rest) = Len(hand) - t /\ Len(rest) \in Nat
  <1> DEFINE t == Taking(Kept)
             k == Len(Kept)
             h == Len(hand)
             first == SubSeq(hand, 1, t)
             rest == SubSeq(hand, t + 1, h)
  <1>1. /\ AtCursor(Kept, N, sound, Settled) /\ k < Capacity
    BY SettledIs
  <1>2. /\ N \in Nat /\ h \in Nat /\ Start \in Nat /\ Capacity \in Nat \ {0}
        /\ (hand = <<>> <=> h = 0)
    BY Facts
  <1>3. /\ Runs(Kept, N - k) /\ k \in 0 .. N /\ cursor = Start + N - k
        /\ Earned(Settled) /\ Secured(sound, N - k, Settled)
    BY <1>1 DEF AtCursor
  <1>4. Runs(accepted, 0) /\ Runs(hand, N)
    BY Facts DEF Reads
  <1>5. t \in 0 .. h /\ (h # 0 => t > 0) /\ (h = 0 => t = 0)
    <2>1. t = IF Capacity - k < h THEN Capacity - k ELSE h
      BY DEF Taking, Smaller
    <2> HIDE DEF t, k, h
    <2> QED
      BY <1>1, <1>2, <1>3, <2>1
  <1>6. /\ Runs(first, N) /\ Len(first) = t /\ Runs(rest, N + t) /\ Len(rest) = h - t
    <2>1. N \in Int /\ t \in 0 .. Len(hand)
      BY <1>2, <1>5
    <2> HIDE DEF t
    <2> QED
      BY <1>4, <2>1, CutRuns
  <1>7. Runs(Kept \o first, N - k) /\ Len(Kept \o first) = k + t
    <2>1. N - k \in Int /\ (N - k) + k = N
      <3> HIDE DEF k
      <3> QED
        BY <1>2, <1>3
    <2>2. Runs(first, (N - k) + Len(Kept))
      BY <1>6, <2>1
    <2> HIDE DEF first, t
    <2> QED
      BY <1>3, <1>6, <2>1, <2>2, JoinRuns
  <1>8. Runs(accepted \o first, 0) /\ Len(accepted \o first) = N + t
    <2>1. 0 + Len(accepted) = N /\ Len(accepted) = N
      BY <1>2 DEF N
    <2>2. Runs(first, 0 + Len(accepted))
      BY <1>6, <2>1
    <2> HIDE DEF first, t
    <2> QED
      BY <1>4, <1>6, <2>1, <2>2, JoinRuns
  <1>9. /\ (N + t) - (k + t) = N - k /\ k + t \in 0 .. N + t
        /\ Start + (N + t) - (k + t) = Start + N - k
        /\ t \in Nat /\ h - t \in Nat
    <2> HIDE DEF t, k, h
    <2> QED
      BY <1>2, <1>3, <1>5
  <1>10. AtCursor(Kept \o first, N + t, sound, Settled)
    <2> HIDE DEF t, k, h, first
    <2> QED
      BY <1>3, <1>7, <1>9 DEF AtCursor
  <1>11. (hand # <<>> => t > 0) /\ (hand = <<>> => t = 0)
    <2> HIDE DEF t, h
    <2> QED
      BY <1>2, <1>5
  <1> QED
    BY <1>6, <1>7, <1>8, <1>9, <1>10, <1>11

\* A write: more in the buffer, or a flush of the buffer it filled.
LEMMA PollWriteInv ==
    ASSUME Inv, PollWrite
    PROVE  Inv'
  <1> DEFINE t == Taking(Kept)
             bytes == Kept \o SubSeq(hand, 1, t)
             n == N + t
  <1>1. /\ op = "write" /\ FlushReady /\ UNCHANGED <<sound, reader, servers>>
        /\ op' = "idle" /\ UNCHANGED want
        /\ told' = IF hand # <<>> /\ t = 0 THEN "untaken" ELSE "written"
        /\ accepted' = accepted \o SubSeq(hand, 1, t)
        /\ hand' = SubSeq(hand, t + 1, Len(hand))
    BY DEF PollWrite, Returns
  <1>2. flushing # "direct" /\ op # "gone"
    BY <1>1, Facts DEF Writes
  <1>3. /\ t \in Nat /\ (hand # <<>> => t > 0) /\ (hand = <<>> => t = 0)
        /\ AtCursor(bytes, n, sound, Settled) /\ Len(bytes) = Len(Kept) + t
        /\ Runs(accepted', 0) /\ N' = n
        /\ Runs(hand', n) /\ Len(hand') = Len(hand) - t /\ Len(hand') \in Nat
    <2>1. /\ t \in Nat /\ (hand # <<>> => t > 0) /\ (hand = <<>> => t = 0)
          /\ AtCursor(bytes, n, sound, Settled) /\ Len(bytes) = Len(Kept) + t
          /\ Runs(accepted \o SubSeq(hand, 1, t), 0) /\ Len(accepted \o SubSeq(hand, 1, t)) = n
          /\ Runs(SubSeq(hand, t + 1, Len(hand)), n)
          /\ Len(SubSeq(hand, t + 1, Len(hand))) = Len(hand) - t
          /\ Len(SubSeq(hand, t + 1, Len(hand))) \in Nat
      BY <1>1, <1>2, TakingIs
    <2>2. N' = Len(accepted')
      BY DEF N
    <2> HIDE DEF t, bytes, n
    <2> QED
      BY <1>1, <2>1, <2>2
  <1>4. IF hand # <<>> /\ Len(bytes) >= Capacity THEN StartFlush(bytes, "boxed") ELSE Hold(bytes)
    BY DEF PollWrite
  <1>5. /\ Len(Kept) < Capacity /\ result # "none" /\ Len(Kept) \in Nat
    <2>1. AtCursor(Kept, N, sound, Settled) /\ Len(Kept) < Capacity /\ result # "none"
      BY <1>1, <1>2, SettledIs
    <2>2. Len(Kept) \in 0 .. N /\ N \in Nat
      BY <2>1, Facts DEF AtCursor
    <2>3. Len(Kept) \in Nat
      BY <2>2
    <2> QED
      BY <2>1, <2>3
  <1>6. failures = 0 /\ result # "dropped"
    BY <1>1, <1>2, ReadyIsQuiet
  <1>7. UNCHANGED <<length, file, failures>> /\ failures' = 0
    BY <1>1, <1>6 DEF servers
  <1> HIDE DEF t, bytes
  <1>8. n \in Nat /\ N <= n /\ Len(bytes) \in Nat /\ Capacity \in Nat \ {0} /\ N \in Nat
    <2>1. N \in Nat /\ Capacity \in Nat \ {0}
      BY Facts
    <2> QED
      BY <1>3, <1>5, <2>1
  <1>9. told' = "written"
    <2>1. ~(hand # <<>> /\ t = 0)
      BY <1>3
    <2> QED
      BY <1>1, <2>1
  <1>10. Reads'
    <2>1. UNCHANGED <<place, held, atEnd, filling, filled, length>>
      BY <1>1, <1>7 DEF reader
    <2>2. Reads /\ Len(hand) \in Nat /\ Len(held) \in Nat
      BY Facts
    <2>3. n + Len(hand') = N + Len(hand) /\ n + Len(hand') + Len(held) = N + Len(hand) + Len(held)
      BY <1>3, <1>8, <2>2
    <2> HIDE DEF n
    <2> QED
      BY <1>1, <1>3, <1>9, <2>1, <2>2, <2>3 DEF Reads
  <1> HIDE DEF n
  <1>11. AtCursor(bytes, n, sound', Settled)
    BY <1>1, <1>3
  <1>12. Types
    BY Facts
  <1>13. CASE hand # <<>> /\ Len(bytes) >= Capacity
    <2>1. /\ BeginSpan(bytes) /\ flushing' = "boxed" /\ buffer' = <<>> /\ len' = Settled
          /\ cursor' = cursor + Len(bytes) /\ pending' = cursor + Len(bytes)
      BY <1>4, <1>13 DEF StartFlush
    <2>2. Len(bytes) > 0 /\ AtCursor(bytes, n, sound', len')
      BY <1>8, <1>11, <1>13, <2>1
    <2>3. /\ Writes' /\ Stores' /\ Tells' /\ cursor' \in Nat /\ len' \in Nat
          /\ span' \in Nat \X Nat /\ result' = "none"
      <3>1. told' \notin {"flushed", "untaken"}
        BY <1>9
      <3> QED
        BY <1>3, <1>7, <1>8, <2>1, <2>2, <3>1, BeginInv
    <2>4. Types'
      <3>1. pending' = cursor'
        BY <2>1
      <3>2. pending' \in Int
        BY <2>3, <3>1
      <3> QED
        BY <1>1, <1>7, <1>12, <2>1, <2>3, <3>2 DEF Types, reader
    <2> QED
      BY <1>10, <2>3, <2>4 DEF Inv
  <1>14. CASE ~(hand # <<>> /\ Len(bytes) >= Capacity)
    <2>1. Hold(bytes)
      BY <1>4, <1>14
    <2>2. Len(bytes) < Capacity
      BY <1>3, <1>5, <1>8, <1>14
    <2>3. /\ Writes' /\ Stores' /\ Tells'
          /\ UNCHANGED <<cursor, span, result>> /\ flushing' = "none"
          /\ pending' = None /\ len' \in Nat
      BY <1>3, <1>5, <1>6, <1>7, <1>8, <1>9, <1>11, <2>1, <2>2, HoldInv
    <2>4. Types'
      <3>1. pending' \in Int
        BY <2>3 DEF None
      <3> QED
        BY <1>1, <1>7, <1>12, <2>3, <3>1 DEF Types, reader
    <2> QED
      BY <1>10, <2>3, <2>4 DEF Inv
  <1> QED
    BY <1>13, <1>14

-----------------------------------------------------------------------------
(* The invariant holds throughout, and what it gives. *)

\* It holds when the adapters are made.
LEMMA InitInv ==
    ASSUME Init
    PROVE  Inv
  <1>1. Runs(<<>>, 0) /\ Len(<<>>) = 0
    BY EmptyRuns
  <1>2. /\ FillSize \in Nat \ {0} /\ Capacity \in Nat \ {0} /\ SourceLength \in Nat
        /\ OldLength \in Nat /\ Start \in Nat
    BY AdapterAssumption
  <1>3. N = 0 /\ Len(hand) = 0 /\ Len(held) = 0 /\ Len(buffer) = 0
    BY <1>1 DEF Init, N
  <1>4. Types
    <2>1. file \in [0 .. Start + SourceLength - 1 -> Int] /\ pending \in Int
      BY DEF Init, None
    <2>2. length \in 0 .. SourceLength /\ span \in Nat \X Nat /\ cursor \in Nat /\ len \in Nat
      BY <1>2 DEF Init
    <2> QED
      BY <2>1, <2>2 DEF Init, Types
  <1>5. Reads
    <2>1. 0 + 0 = 0 /\ 0 + 0 + 0 = 0 /\ 0 <= SourceLength
      BY <1>2
    <2> QED
      BY <1>1, <1>3, <2>1 DEF Init, Reads
  <1>6. Writes
    <2>1. 0 - 0 = 0 /\ 0 <= 0 /\ 0 < Capacity /\ Start + 0 - 0 = Start
      BY <1>2
    <2> QED
      BY <1>1, <1>3, <2>1 DEF Init, Writes
  <1>7. Stores
    <2>1. Behind = 0 - 0
      BY <1>3 DEF Init, Behind
    <2>2. 0 + 1 .. 0 - 0 = {} /\ OldLength >= OldLength /\ ~(OldLength > OldLength)
      BY <1>2
    <2> QED
      BY <2>1, <2>2 DEF Init, Stores
  <1>8. Tells
    BY DEF Init, Tells, InFlight
  <1> QED
    BY <1>4, <1>5, <1>6, <1>7, <1>8 DEF Inv

\* It does not depend on more than the variables.
LEMMA StutterInv ==
    ASSUME Inv, UNCHANGED vars
    PROVE  Inv'
  <1>1. UNCHANGED <<caller, reader, writer, servers, contractVars>>
    BY DEF vars
  <1> QED
    BY <1>1, SpanStepInv DEF servers, contractVars

\* Every step keeps it.
LEMMA NextInv ==
    ASSUME Inv, [Next]_vars
    PROVE  Inv'
  <1>1. CASE CallRead \/ CallWrite \/ CallFlush \/ CallIntoInner \/ Abandon
    BY <1>1, CallInv
  <1>2. CASE ReadHeld \/ StartFill \/ FillEnds \/ TakeFill
    BY <1>2, ReadHeldInv, FillInv, TakeFillInv
  <1>3. CASE PollBoxed \/ TakeError \/ PollWrite \/ PollFlush
    BY <1>3, PollBoxedInv, TakeErrorInv, PollWriteInv, PollFlushInv
  <1>4. CASE IntoInner \/ IntoInnerEnds \/ DropWriter
    BY <1>4, IntoInnerInv, IntoInnerEndsInv, DropWriterInv
  <1>5. CASE SpanLands \/ SpanOk \/ SpanFails \/ SpanCompletes \/ Truncate
    BY <1>5, SpanLandsInv, SpanEndsInv, TruncateInv
  <1>6. CASE UNCHANGED vars
    BY <1>6, StutterInv
  <1> QED
    BY <1>1, <1>2, <1>3, <1>4, <1>5, <1>6 DEF Next

\* The inductive invariant is one of the specification.
THEOREM Invariance == Spec => []Inv
  <1>1. Init => Inv
    BY InitInv
  <1>2. Inv /\ [Next]_vars => Inv'
    BY NextInv
  <1> QED
    BY <1>1, <1>2, PTL DEF Spec

\* What came through the reader is the source from its first byte, in order, none twice
\* and none left out, whatever the sizes read by, the fills that failed and the reads
\* that were dropped; and an end was told only at the end (FileReader::poll_read).
THEOREM ReadsInOrder == Spec => []ReadInOrder
  <1>1. Inv => ReadInOrder
    <2> SUFFICES ASSUME Inv PROVE ReadInOrder
      OBVIOUS
    <2>1. /\ Runs(accepted, 0) /\ Runs(hand, N) /\ N \in Nat /\ Len(accepted) = N
          /\ Len(hand) \in Nat /\ Len(held) \in Nat /\ (held = <<>> <=> Len(held) = 0)
          /\ place = N + Len(hand) + Len(held)
          /\ atEnd => place >= length
          /\ told = "end" => held = <<>> /\ atEnd
      BY Facts DEF Reads, N
    <2>2. length \in Nat
      <3>1. length \in 0 .. SourceLength /\ SourceLength \in Nat
        BY Facts DEF Types
      <3> QED
        BY <3>1
    <2>3. 0 + N = N
      BY <2>1
    <2>4. Runs(accepted \o hand, 0) /\ Len(accepted \o hand) = Len(accepted) + Len(hand)
      <3>1. Runs(hand, 0 + Len(accepted))
        BY <2>1, <2>3
      <3> QED
        BY <2>1, <3>1, JoinRuns
    <2>5. accepted \o hand = Numbers(0, Len(accepted) + Len(hand))
      BY <2>4, RunIsNumbers
    <2>6. told = "end" => held = <<>> /\ Len(accepted) + Len(hand) >= length
      BY <2>1, <2>2
    <2> QED
      BY <2>5, <2>6 DEF ReadInOrder
  <1> QED
    BY <1>1, Invariance, PTL

\* A flush, a shutdown or an into_inner that returned Ok has every byte accepted since the
\* last error in its place, acknowledged and counted in the length; a span's error is told
\* once, before anything else is accepted; and no write takes nothing (FileWriter).
THEOREM FlushesStore == Spec => []FlushMeansStored
  <1>1. Inv => FlushMeansStored
    <2> SUFFICES ASSUME Inv PROVE FlushMeansStored
      OBVIOUS
    <2>1. ASSUME told = "flushed", NEW k \in sound + 1 .. Len(accepted)
          PROVE  /\ file[Start + k - 1] = accepted[k] /\ Start + k - 1 \in recorded
                 /\ len > Start + k - 1
      <3>1. flushing = "none" /\ buffer = <<>> /\ Len(buffer) = 0
        BY <2>1, Facts DEF Tells
      <3>2. N \in Nat /\ Start \in Nat /\ sound \in Nat /\ len \in Nat /\ Len(accepted) = N
        BY Facts DEF Types, N
      <3>3. Behind = N
        <4>1. N - 0 = N
          BY <3>2
        <4> QED
          BY <3>1, <4>1 DEF Behind
      <3>4. k \in sound + 1 .. Behind /\ k \in 1 .. Len(accepted) /\ k \in Nat
        BY <3>2, <3>3
      <3>5. Start + k - 1 \in recorded /\ Start + k - 1 < len
        BY <3>4, Facts DEF Stores
      <3>6. file[Start + k - 1] = (Start + k - 1) - Start
        BY <3>5, Facts DEF Stores
      <3>7. accepted[k] = 0 + k - 1
        BY <3>4, Facts DEF Reads, Runs
      <3>8. (Start + k - 1) - Start = 0 + k - 1 /\ len > Start + k - 1
        BY <3>2, <3>4, <3>5
      <3> QED
        BY <3>5, <3>6, <3>7, <3>8
    <2>2. /\ failures > 0 => op = "gone" \/ (InFlight /\ result = "failed" /\ failures = 1)
          /\ told # "untaken"
      BY Facts DEF Tells
    <2> QED
      BY <2>1, <2>2 DEF FlushMeansStored
  <1> QED
    BY <1>1, Invariance, PTL

\* File::len counts no byte the server does not hold, while a flush runs, when it fails
\* and when it is dropped (FileWriter::settle).
THEOREM LengthIsHonest == Spec => []LengthHonest
  <1>1. Inv => LengthHonest
    BY Facts DEF Stores, LengthHonest
  <1> QED
    BY <1>1, Invariance, PTL
=============================================================================
