--------------------------- MODULE ReadSpanProofs ---------------------------
(***************************************************************************)
(* Theorems about one read (read_span and the two calls that judge it), for *)
(* every length of the buffer, every depth of the pipeline, every pair of   *)
(* chunk sizes and every length the file may take while the read runs:      *)
(*                                                                         *)
(*   Invariance    Spec => []Inv                                           *)
(*   TypeCorrect   Spec => []TypeOK                                        *)
(*   JudgesRight   Spec => []JudgedRight                                   *)
(*   EndsAreReal   Spec => []EndIsReal                                     *)
(*                                                                         *)
(* EndIsReal is not inductive.  That the first missing byte is the start of *)
(* a chunk the server ended rests on every byte of the buffer having one    *)
(* place (Parts): arrived, given up in a chunk that was answered as the     *)
(* end, awaited, queued, or not asked for yet.                              *)
(***************************************************************************)
EXTENDS ReadSpan, CoverageProofs

-----------------------------------------------------------------------------
(* The inductive invariant. *)

\* The bytes a chunk asked for.
Asked(chunk) == Offsets(<<chunk.start, chunk.length>>)

\* Every span lies in the buffer and none of the queue is empty.
Fits ==
    /\ \A c \in 1 .. Len(chunks) : chunks[c].start + chunks[c].length <= Length
    /\ \A i \in 1 .. Len(queue) : /\ queue[i][2] >= 1
                                  /\ queue[i][1] + queue[i][2] <= Length

\* Once the chunk size is read there is a chunk to build, and a fill that is over
\* has nothing left to ask for but what lies past the end it saw.
Phases ==
    /\ pc = "build" => Len(issued) < Depth /\ (queue # <<>> \/ next < Length)
    /\ pc \in {"judge", "done"} =>
         issued = <<>> /\ queue = <<>> /\ (atEnd \/ next = Length)

\* A chunk has its answer once its request has ended, and only data brings bytes.
HasAnswer ==
    \A c \in 1 .. Len(chunks) :
      /\ chunks[c].state \in {"built", "sent"} <=> chunks[c].answer = "none"
      /\ chunks[c].answer # "data" => chunks[c].got = 0
      /\ chunks[c].got <= chunks[c].length

\* A call that has not failed awaits every chunk that is not answered.
Awaited ==
    pc # "failed" => \A c \in 1 .. Len(chunks) :
      chunks[c].state # "done" => \E i \in 1 .. Len(issued) : issued[i] = c

\* The coverage is in order and is what the buffer holds.
Arrived == Canonical(covered) /\ Bytes(covered) = buffer /\ ~overlapped

\* The chunks whose answer was taken, and the bytes one of them gave up.
Spent(c) == chunks[c].state = "done" /\ \A i \in 1 .. Len(issued) : issued[i] # c

GivenUp(o) ==
    \E c \in 1 .. Len(chunks) : Spent(c) /\ EndSeen(chunks[c]) /\ o \in Asked(chunks[c])

\* The end is seen in a chunk whose answer was taken, whose bytes then never come.
Ends ==
    pc # "failed" =>
      /\ atEnd <=> \E c \in 1 .. Len(chunks) : Spent(c) /\ EndSeen(chunks[c])
      /\ \A o \in buffer : ~GivenUp(o)

InChunk(i, o) == o \in Asked(chunks[issued[i]])
InQueue(i, o) == o \in Offsets(queue[i])

\* The byte at offset o came or is given up.
Settled(o) == o \in buffer \/ GivenUp(o)

\* It has one place.
Placed(o) ==
    \/ /\ Settled(o) /\ o < next
       /\ \A i \in 1 .. Len(issued) : ~InChunk(i, o)
       /\ \A i \in 1 .. Len(queue) : ~InQueue(i, o)
    \/ /\ ~Settled(o) /\ o >= next
       /\ \A i \in 1 .. Len(issued) : ~InChunk(i, o)
       /\ \A i \in 1 .. Len(queue) : ~InQueue(i, o)
    \/ /\ ~Settled(o) /\ o < next
       /\ \E i \in 1 .. Len(issued) : \A k \in 1 .. Len(issued) : InChunk(k, o) <=> k = i
       /\ \A i \in 1 .. Len(queue) : ~InQueue(i, o)
    \/ /\ ~Settled(o) /\ o < next
       /\ \A i \in 1 .. Len(issued) : ~InChunk(i, o)
       /\ \E i \in 1 .. Len(queue) : \A k \in 1 .. Len(queue) : InQueue(k, o) <=> k = i

Parts == pc # "failed" => \A o \in 0 .. Length - 1 : Placed(o)

Inv == /\ TypeOK /\ Fits /\ Phases /\ HasAnswer /\ Awaited /\ Arrived /\ Ends /\ Parts

-----------------------------------------------------------------------------
(* Facts about a state. *)

\* The types, element by element.
LEMMA Facts ==
    ASSUME Inv
    PROVE  /\ Len(chunks) \in Nat /\ Len(issued) \in Nat /\ Len(queue) \in Nat
           /\ chunks \in Seq(Chunk) /\ queue \in Seq(Span)
           /\ issued \in Seq(1 .. Len(chunks))
           /\ \A c \in 1 .. Len(chunks) : chunks[c] \in Chunk
           /\ \A i \in 1 .. Len(issued) : issued[i] \in 1 .. Len(chunks)
           /\ \A i \in 1 .. Len(queue) :
                queue[i][1] \in 0 .. Length /\ queue[i][2] \in 0 .. Length
           /\ covered \in Ranges
  <1>1. /\ chunks \in Seq(Chunk) /\ queue \in Seq(Span)
        /\ issued \in Seq(1 .. Len(chunks)) /\ covered \in Seq(Nat \X Nat)
    BY DEF Inv, TypeOK
  <1>2. \A i \in 1 .. Len(queue) : queue[i] \in Span
    BY <1>1
  <1> QED
    BY <1>1, <1>2 DEF Ranges, Pair, Span

\* The fields of a chunk.
LEMMA ChunkFields ==
    ASSUME NEW chunk \in Chunk
    PROVE  /\ chunk.start \in 0 .. Length /\ chunk.length \in 1 .. Length
           /\ chunk.large \in BOOLEAN /\ chunk.got \in 0 .. Length
           /\ chunk.state \in {"built", "sent", "done"}
           /\ chunk.answer \in {"none", "data", "end", "refused", "error"}
  BY DEF Chunk

\* The bytes a chunk asked for.
LEMMA AskedIs ==
    ASSUME NEW chunk \in Chunk, NEW o \in Nat
    PROVE  o \in Asked(chunk) <=>
             chunk.start <= o /\ o < chunk.start + chunk.length
  BY ChunkFields, ChunkAssumption DEF Asked, Offsets

\* A sequence, given as a function.
LEMMA SeqIntro ==
    ASSUME NEW S, NEW n \in Nat, NEW f \in [1 .. n -> S]
    PROVE  f \in Seq(S) /\ Len(f) = n
  BY SeqDef

\* The first state.
LEMMA InitInv == Init => Inv
  <1> SUFFICES ASSUME Init PROVE Inv
    OBVIOUS
  <1> USE DEF Init
  <1>1. Len(chunks) = 0 /\ Len(issued) = 0 /\ Len(queue) = 0 /\ Len(covered) = 0
    OBVIOUS
  <1>2. TypeOK
    <2>1. /\ chunks \in Seq(Chunk) /\ queue \in Seq(Span)
          /\ issued \in Seq(1 .. Len(chunks)) /\ covered \in Seq(Nat \X Nat)
      BY EmptySeq
    <2>2. Len(issued) <= Depth /\ 0 \in 0 .. Length
      BY <1>1, ChunkAssumption
    <2> QED
      BY <2>1, <2>2 DEF TypeOK
  <1>3. covered \in Ranges
    BY DEF Ranges
  <1>4. Bytes(covered) = {}
    BY <1>1, <1>3, BytesIn
  <1>5. Arrived
    BY <1>1, <1>4 DEF Arrived, Canonical
  <1>6. \A o \in Nat : ~GivenUp(o)
    BY <1>1 DEF GivenUp
  <1>7. Ends
    BY <1>1 DEF Ends
  <1>8. Parts
    BY <1>1, <1>6 DEF Parts, Placed, Settled
  <1>9. Fits /\ Phases /\ HasAnswer /\ Awaited
    BY <1>1 DEF Fits, Phases, HasAnswer, Awaited
  <1> QED
    BY <1>2, <1>5, <1>7, <1>8, <1>9 DEF Inv

-----------------------------------------------------------------------------
(* Steps that take no answer and build no chunk. *)

\* While spans stay where they are and a chunk changes only before it is answered,
\* every byte stays in its place.
LEMMA PlacesKept ==
    ASSUME Inv, UNCHANGED <<queue, next, issued, covered, buffer, atEnd, overlapped>>,
           pc' # "failed" => pc # "failed",
           chunks' \in Seq(Chunk), Len(chunks') = Len(chunks),
           \A c \in 1 .. Len(chunks) :
             /\ chunks'[c].start = chunks[c].start
             /\ chunks'[c].length = chunks[c].length
             /\ chunks'[c].state # "done" => chunks[c].state # "done"
             /\ chunks[c].state = "done" => chunks'[c] = chunks[c]
    PROVE  Fits' /\ Awaited' /\ Arrived' /\ Ends' /\ Parts'
  <1>1. Fits' /\ Arrived'
    BY DEF Inv, Fits, Arrived
  <1>2. Awaited'
    BY DEF Inv, Awaited
  <1>3. ASSUME pc # "failed", NEW c \in 1 .. Len(chunks)
        PROVE  /\ Spent(c)' <=> Spent(c)
               /\ Spent(c) => chunks'[c] = chunks[c]
    <2>1. chunks[c].state # "done" => ~Spent(c) /\ ~Spent(c)'
      BY <1>3 DEF Inv, Awaited, Spent
    <2>2. chunks[c].state = "done" => chunks'[c] = chunks[c]
      OBVIOUS
    <2> QED
      BY <2>1, <2>2 DEF Spent
  <1>4. ASSUME pc # "failed", NEW o \in Nat
        PROVE  GivenUp(o)' <=> GivenUp(o)
    BY <1>3, <1>4 DEF GivenUp, EndSeen
  <1>5. \A c \in 1 .. Len(chunks) : Asked(chunks'[c]) = Asked(chunks[c])
    BY DEF Asked
  <1>6. Ends'
    <2> SUFFICES ASSUME pc # "failed"
                 PROVE  /\ atEnd <=> \E c \in 1 .. Len(chunks) :
                                       Spent(c)' /\ EndSeen(chunks'[c])
                        /\ \A o \in buffer : ~GivenUp(o)'
      BY DEF Ends, EndSeen
    <2>1. buffer \subseteq Nat
      BY ChunkAssumption DEF Inv, TypeOK
    <2> QED
      BY <1>3, <1>4, <2>1 DEF Inv, Ends
  <1>7. Parts'
    <2> SUFFICES ASSUME pc # "failed", NEW o \in 0 .. Length - 1
                 PROVE  Placed(o)'
      BY DEF Parts
    <2>1. Placed(o) /\ (Settled(o)' <=> Settled(o))
      BY <1>4, ChunkAssumption DEF Inv, Parts, Settled
    <2>2. \A k \in 1 .. Len(issued) : InChunk(k, o)' <=> InChunk(k, o)
      BY <1>5, Facts DEF InChunk
    <2>3. \A k \in 1 .. Len(queue) : InQueue(k, o)' <=> InQueue(k, o)
      BY DEF InQueue
    <2>4. next' = next /\ Len(issued') = Len(issued) /\ Len(queue') = Len(queue)
      OBVIOUS
    <2> QED
      BY SMTT(40), <2>1, <2>2, <2>3, <2>4 DEF Placed
  <1> QED
    BY <1>1, <1>2, <1>6, <1>7

\* Reading the chunk size, deciding to wait or to judge, judging, and what others
\* do with the file and the connection.
LEMMA QuietInv ==
    ASSUME Inv, Measure \/ Wait \/ Judge \/ Resized \/ OtherDowngrades \/ UNCHANGED vars
    PROVE  Inv'
  <1>1. UNCHANGED <<queue, next, issued, covered, buffer, atEnd, overlapped, chunks>>
    BY DEF Measure, Wait, Judge, Resized, OtherDowngrades, callVars, vars
  <1>2. pc' # "failed" => pc # "failed"
    BY DEF Measure, Wait, Judge, Resized, OtherDowngrades, callVars, vars
  <1>3. Fits' /\ Awaited' /\ Arrived' /\ Ends' /\ Parts'
    BY <1>1, <1>2, Facts, PlacesKept
  <1>4. HasAnswer'
    BY <1>1 DEF Inv, HasAnswer
  <1>5. /\ pc' \in {"fill", "build", "await", "judge", "done", "failed"}
        /\ size' \in {LargeSize, SmallSize} /\ downgraded' \in BOOLEAN
        /\ fileLength' \in FileLengths
    BY DEF Inv, TypeOK, Measure, Wait, Judge, Resized, OtherDowngrades, callVars, vars,
           ChunkSize
  <1>6. TypeOK'
    BY <1>1, <1>5 DEF Inv, TypeOK
  <1>7. Phases'
    <2>1. CASE Measure
      BY <2>1, ChunkAssumption DEF Measure, Wants, Inv, Phases, TypeOK
    <2>2. CASE Wait
      <3>1. issued = <<>> => queue = <<>> /\ (atEnd \/ next = Length)
        <4>1. issued = <<>> => Len(issued) < Depth
          BY ChunkAssumption
        <4> QED
          BY <2>2, <4>1, ChunkAssumption DEF Wait, Wants, Inv, TypeOK
      <3> QED
        BY <2>2, <3>1 DEF Wait, Phases
    <2>3. CASE Judge
      BY <2>3 DEF Judge, Inv, Phases
    <2>4. CASE Resized \/ OtherDowngrades \/ UNCHANGED vars
      <3>1. UNCHANGED pc
        BY <2>4 DEF Resized, OtherDowngrades, callVars, vars
      <3> QED
        BY <1>1, <3>1 DEF Inv, Phases
    <2> QED
      BY <2>1, <2>2, <2>3, <2>4
  <1> QED
    BY <1>3, <1>4, <1>6, <1>7 DEF Inv

\* What polling sends.
LEMMA SentUpToIs ==
    ASSUME Inv, NEW n \in 0 .. Len(issued)
    PROVE  /\ SentUpTo(n) \in Seq(Chunk) /\ Len(SentUpTo(n)) = Len(chunks)
           /\ \A c \in 1 .. Len(chunks) :
                /\ SentUpTo(n)[c].start = chunks[c].start
                /\ SentUpTo(n)[c].length = chunks[c].length
                /\ SentUpTo(n)[c].answer = chunks[c].answer
                /\ SentUpTo(n)[c].got = chunks[c].got
                /\ \/ SentUpTo(n)[c] = chunks[c]
                   \/ chunks[c].state = "built" /\ SentUpTo(n)[c].state = "sent"
  <1>1. /\ Len(chunks) \in Nat
        /\ \A c \in 1 .. Len(chunks) : chunks[c] \in Chunk
    BY Facts
  <1>2. \A c \in 1 .. Len(chunks) :
          LET new == [chunks[c] EXCEPT !.state = "sent"]
          IN  /\ new \in Chunk /\ new.start = chunks[c].start
              /\ new.length = chunks[c].length /\ new.answer = chunks[c].answer
              /\ new.got = chunks[c].got /\ new.state = "sent"
    BY <1>1 DEF Chunk
  <1>3. SentUpTo(n) \in [1 .. Len(chunks) -> Chunk]
    BY <1>1, <1>2 DEF SentUpTo
  <1>4. SentUpTo(n) \in Seq(Chunk) /\ Len(SentUpTo(n)) = Len(chunks)
    BY <1>1, <1>3, SeqIntro
  <1> QED
    BY <1>1, <1>2, <1>4 DEF SentUpTo

\* Polling every chunk sends the ones not yet sent.
LEMMA PollPendsInv ==
    ASSUME Inv, PollPends
    PROVE  Inv'
  <1>1. /\ pc = "await" /\ chunks' = SentUpTo(Len(issued))
        /\ UNCHANGED <<callVars, downgraded, fileLength>>
    BY DEF PollPends
  <1>2. Len(issued) \in 0 .. Len(issued)
    BY Facts
  <1>3. /\ chunks' \in Seq(Chunk) /\ Len(chunks') = Len(chunks)
        /\ \A c \in 1 .. Len(chunks) :
             /\ chunks'[c].start = chunks[c].start
             /\ chunks'[c].length = chunks[c].length
             /\ chunks'[c].answer = chunks[c].answer
             /\ chunks'[c].got = chunks[c].got
             /\ \/ chunks'[c] = chunks[c]
                \/ chunks[c].state = "built" /\ chunks'[c].state = "sent"
    BY <1>1, <1>2, SentUpToIs
  <1>4. Fits' /\ Awaited' /\ Arrived' /\ Ends' /\ Parts'
    BY <1>1, <1>3, PlacesKept DEF callVars
  <1>5. TypeOK' /\ Phases'
    BY <1>1, <1>3 DEF Inv, TypeOK, Phases, callVars
  <1>6. HasAnswer'
    BY <1>3 DEF Inv, HasAnswer
  <1> QED
    BY <1>4, <1>5, <1>6 DEF Inv

\* A chunk on the wire gets its answer.
LEMMA AnsweredInv ==
    ASSUME Inv, NEW c \in 1 .. Len(chunks), NEW new \in Chunk,
           chunks[c].state = "sent", new.state = "done", new.answer # "none",
           new.start = chunks[c].start, new.length = chunks[c].length,
           new.answer # "data" => new.got = 0, new.got <= new.length,
           chunks' = [chunks EXCEPT ![c] = new],
           UNCHANGED <<callVars, downgraded, fileLength>>
    PROVE  Inv'
  <1>1. /\ chunks' \in Seq(Chunk) /\ Len(chunks') = Len(chunks)
        /\ \A d \in 1 .. Len(chunks) : chunks'[d] = IF d = c THEN new ELSE chunks[d]
    BY Facts, ExceptSeq
  <1>2. Fits' /\ Awaited' /\ Arrived' /\ Ends' /\ Parts'
    BY <1>1, PlacesKept DEF callVars
  <1>3. TypeOK' /\ Phases'
    BY <1>1 DEF Inv, TypeOK, Phases, callVars
  <1>4. HasAnswer'
    BY <1>1 DEF Inv, HasAnswer
  <1> QED
    BY <1>2, <1>3, <1>4 DEF Inv

\* The server serves or refuses a chunk.
LEMMA ServerInv ==
    ASSUME Inv, Server
    PROVE  Inv'
  <1>1. PICK c \in 1 .. Len(chunks) :
          \/ \E n \in 0 .. Length : Serves(c, n)
          \/ \E answer \in {"end", "refused", "error"} : Answers(c, answer)
    BY DEF Server
  <1>2. /\ chunks[c] \in Chunk /\ chunks[c].got \in 0 .. Length
        /\ chunks[c].length \in 1 .. Length /\ Length \in Nat
    BY Facts, ChunkFields, ChunkAssumption
  <1>3. ASSUME NEW n \in 0 .. Length, Serves(c, n)
        PROVE  Inv'
    <2> DEFINE new == [chunks[c] EXCEPT !.state = "done", !.answer = "data", !.got = n]
    <2>1. /\ chunks[c].state = "sent" /\ n <= chunks[c].length
          /\ chunks' = [chunks EXCEPT ![c] = new]
          /\ UNCHANGED <<callVars, downgraded, fileLength>>
      BY <1>2, <1>3, Facts DEF Serves
    <2>2. /\ new \in Chunk /\ new.state = "done" /\ new.answer = "data" /\ new.got = n
          /\ new.start = chunks[c].start /\ new.length = chunks[c].length
      BY <1>2 DEF Chunk
    <2> HIDE DEF new
    <2> QED
      BY <1>2, <2>1, <2>2, AnsweredInv
  <1>4. ASSUME NEW answer \in {"end", "refused", "error"}, Answers(c, answer)
        PROVE  Inv'
    <2> DEFINE new == [chunks[c] EXCEPT !.state = "done", !.answer = answer]
    <2>1. /\ chunks[c].state = "sent"
          /\ chunks' = [chunks EXCEPT ![c] = new]
          /\ UNCHANGED <<callVars, downgraded, fileLength>>
      BY <1>2, <1>4, Facts DEF Answers
    <2>2. /\ new \in Chunk /\ new.state = "done" /\ new.answer = answer
          /\ new.start = chunks[c].start /\ new.length = chunks[c].length
          /\ new.got = chunks[c].got
      BY <1>2 DEF Chunk
    <2>3. new.got = 0
      BY <2>1, <2>2 DEF Inv, HasAnswer
    <2> HIDE DEF new
    <2>4. new.answer # "none" /\ new.got <= new.length
      BY <1>2, <2>2, <2>3
    <2> QED
      BY <2>1, <2>2, <2>3, <2>4, AnsweredInv
  <1> QED
    BY <1>1, <1>3, <1>4

-----------------------------------------------------------------------------
(* An answer is taken. *)

\* The bytes of a chunk that are not asked for again: those that came, or all of
\* them once the server has called the end.
Resolved(chunk, o) == EndSeen(chunk) \/ o < chunk.start + chunk.got

\* What a chunk that the loop goes on from leaves to ask for again.
LEMMA AgainIs ==
    ASSUME NEW chunk \in Chunk, chunk.start + chunk.length <= Length,
           chunk.answer # "data" => chunk.got = 0, chunk.got <= chunk.length,
           GoesOn(chunk)
    PROVE  \/ /\ Again(chunk) = <<>>
              /\ \A o \in Nat : o \in Asked(chunk) => Resolved(chunk, o)
           \/ \E span \in Span :
                /\ Again(chunk) = <<span>>
                /\ span[2] >= 1 /\ span[1] + span[2] <= Length
                /\ \A o \in Nat : o \in Offsets(span) <=>
                                    o \in Asked(chunk) /\ ~Resolved(chunk, o)
  <1>1. /\ chunk.start \in 0 .. Length /\ chunk.length \in 1 .. Length
        /\ chunk.got \in 0 .. Length /\ Length \in Nat
    BY ChunkFields, ChunkAssumption
  <1>2. CASE chunk.answer = "refused"
    <2> DEFINE span == <<chunk.start, chunk.length>>
    <2>1. Again(chunk) = <<span>>
      BY <1>2 DEF Again
    <2>2. span \in Span /\ span[2] >= 1 /\ span[1] + span[2] <= Length
      BY <1>1 DEF Span
    <2>3. \A o \in Nat : o \in Offsets(span) <=>
                           o \in Asked(chunk) /\ ~Resolved(chunk, o)
      BY <1>1, <1>2, AskedIs DEF Offsets, Resolved, EndSeen
    <2> QED
      BY <2>1, <2>2, <2>3
  <1>3. CASE chunk.answer = "data" /\ chunk.got \in 1 .. chunk.length - 1
    <2> DEFINE span == <<chunk.start + chunk.got, chunk.length - chunk.got>>
    <2>1. Again(chunk) = <<span>>
      BY <1>3 DEF Again
    <2>2. span \in Span /\ span[2] >= 1 /\ span[1] + span[2] <= Length
      BY <1>1, <1>3 DEF Span
    <2>3. \A o \in Nat : o \in Offsets(span) <=>
                           o \in Asked(chunk) /\ ~Resolved(chunk, o)
      BY <1>1, <1>3, AskedIs DEF Offsets, Resolved, EndSeen
    <2> QED
      BY <2>1, <2>2, <2>3
  <1>4. CASE /\ chunk.answer # "refused"
             /\ ~(chunk.answer = "data" /\ chunk.got \in 1 .. chunk.length - 1)
    <2>1. Again(chunk) = <<>>
      BY <1>4 DEF Again
    <2>2. ASSUME NEW o \in Nat, o \in Asked(chunk)
          PROVE  Resolved(chunk, o)
      BY <1>1, <1>4, <2>2, AskedIs DEF Resolved, EndSeen, GoesOn
    <2> QED
      BY <2>1, <2>2
  <1> QED
    BY <1>2, <1>3, <1>4

\* The bytes of a chunk in flight belong to no other chunk and have not come.
LEMMA Awaits ==
    ASSUME Inv, pc # "failed", NEW i \in 1 .. Len(issued),
           NEW o \in Nat, InChunk(i, o)
    PROVE  /\ o \in 0 .. Length - 1 /\ ~Settled(o) /\ o < next
           /\ \A k \in 1 .. Len(issued) : InChunk(k, o) => k = i
           /\ \A k \in 1 .. Len(queue) : ~InQueue(k, o)
  <1>1. /\ issued[i] \in 1 .. Len(chunks) /\ chunks[issued[i]] \in Chunk
        /\ chunks[issued[i]].start + chunks[issued[i]].length <= Length
    BY Facts DEF Inv, Fits
  <1>2. o \in 0 .. Length - 1
    BY <1>1, AskedIs, ChunkFields, ChunkAssumption DEF InChunk
  <1>3. Placed(o)
    BY <1>2 DEF Inv, Parts
  <1> QED
    BY <1>2, <1>3 DEF Placed

\* A chunk is awaited once.
LEMMA AwaitedOnce ==
    ASSUME Inv, pc # "failed", NEW i \in 1 .. Len(issued),
           NEW k \in 1 .. Len(issued), issued[k] = issued[i]
    PROVE  k = i
  <1> DEFINE o == chunks[issued[i]].start
  <1>1. chunks[issued[i]] \in Chunk /\ o \in Nat
    BY Facts, ChunkFields, ChunkAssumption
  <1>2. InChunk(i, o) /\ InChunk(k, o)
    BY SMTT(40), <1>1, AskedIs, ChunkFields, ChunkAssumption DEF InChunk
  <1> QED
    BY <1>1, <1>2, Awaits

\* An answer is taken: what it brought arrives, what it ended is given up, and the
\* rest goes back on the queue.
LEMMA PollTakesInv ==
    ASSUME Inv, PollTakes
    PROVE  Inv'
  <1> DEFINE i == Min(Answered)
             t == issued[i]
             chunk == chunks[t]
             goes == GoesOn(chunk) /\ ~Repeats(chunk)
  <1>1. /\ pc = "await" /\ Answered # {}
        /\ chunks' = SentUpTo(i - 1) /\ issued' = RemoveAt(issued, i)
        /\ downgraded' = (downgraded \/ chunk.answer = "refused")
        /\ buffer' = buffer \cup Offsets(<<chunk.start, chunk.got>>)
        /\ overlapped' = Repeats(chunk)
        /\ goes => /\ queue' = queue \o Again(chunk)
                   /\ atEnd' = (atEnd \/ EndSeen(chunk))
                   /\ covered' = Cover(covered, chunk.start, chunk.got)
                   /\ pc' = "fill"
        /\ ~goes => pc' = "failed" /\ UNCHANGED <<queue, atEnd, covered>>
        /\ UNCHANGED <<size, next, fileLength>>
    BY DEF PollTakes
  <1>2. i \in Answered
    <2>1. Answered \in SUBSET Nat
      BY Facts DEF Answered
    <2> QED
      BY <1>1, <2>1, MinIs
  <1> HIDE DEF i
  <1>3. /\ i \in 1 .. Len(issued) /\ i - 1 \in 0 .. Len(issued)
        /\ t = issued[i] /\ t \in 1 .. Len(chunks)
        /\ chunk = chunks[t] /\ chunk.state = "done"
        /\ chunk \in Chunk /\ chunk.start + chunk.length <= Length
        /\ chunk.answer # "none" /\ (chunk.answer # "data" => chunk.got = 0)
        /\ chunk.got <= chunk.length
    <2>1. i \in 1 .. Len(issued) /\ chunks[issued[i]].state = "done"
      BY <1>2 DEF Answered
    <2>2. t \in 1 .. Len(chunks) /\ chunk \in Chunk /\ Len(issued) \in Nat
      BY <2>1, Facts
    <2> HIDE DEF t
    <2> QED
      BY <2>1, <2>2 DEF Inv, Fits, HasAnswer, t
  <1> HIDE DEF t, chunk
  <1>4. /\ chunk.start \in Nat /\ chunk.length \in Nat /\ chunk.got \in Nat
        /\ chunk.answer \in {"data", "end", "refused", "error"}
        /\ Length \in Nat /\ next \in 0 .. Length
    <2>1. /\ chunk.start \in 0 .. Length /\ chunk.length \in 1 .. Length
          /\ chunk.got \in 0 .. Length
          /\ chunk.answer \in {"none", "data", "end", "refused", "error"}
      BY <1>3, ChunkFields
    <2>2. Length \in Nat
      BY ChunkAssumption
    <2>3. next \in 0 .. Length
      BY DEF Inv, TypeOK
    <2>4. chunk.answer \in {"data", "end", "refused", "error"}
      BY <1>3, <2>1
    <2>5. chunk.start \in Nat /\ chunk.length \in Nat /\ chunk.got \in Nat
      BY <2>1, <2>2
    <2> QED
      BY <2>2, <2>3, <2>4, <2>5
  <1>5. /\ chunks' \in Seq(Chunk) /\ Len(chunks') = Len(chunks)
        /\ \A c \in 1 .. Len(chunks) :
             /\ chunks'[c].start = chunks[c].start
             /\ chunks'[c].length = chunks[c].length
             /\ chunks'[c].answer = chunks[c].answer
             /\ chunks'[c].got = chunks[c].got
             /\ \/ chunks'[c] = chunks[c]
                \/ chunks[c].state = "built" /\ chunks'[c].state = "sent"
    <2> DEFINE n == i - 1
    <2>1. n \in 0 .. Len(issued) /\ chunks' = SentUpTo(n)
      BY <1>1, <1>3
    <2> HIDE DEF n
    <2> QED
      BY <2>1, SentUpToIs
  <1>6. /\ issued' \in Seq(1 .. Len(chunks)) /\ Len(issued') = Len(issued) - 1
        /\ \A k \in 1 .. Len(issued) - 1 :
             issued'[k] = IF k < i THEN issued[k] ELSE issued[k + 1]
    BY <1>1, <1>3, Facts, RemoveAtIs
  <1>7. /\ Len(issued) \in Nat /\ Len(queue) \in Nat /\ Len(chunks) \in Nat
        /\ queue \in Seq(Span) /\ covered \in Ranges
        /\ buffer \in SUBSET (0 .. Length - 1) /\ Canonical(covered)
        /\ Bytes(covered) = buffer
    BY Facts DEF Inv, TypeOK, Arrived
  <1>8. \A o \in Nat : o \in Asked(chunk) <=> InChunk(i, o)
    BY <1>3 DEF InChunk
  <1>9. \A o \in Nat : o \in Offsets(<<chunk.start, chunk.got>>) <=>
                         o \in Asked(chunk) /\ o < chunk.start + chunk.got
    <2>1. Offsets(<<chunk.start, chunk.got>>)
            = chunk.start .. chunk.start + chunk.got - 1
      BY DEF Offsets
    <2> TAKE o \in Nat
    <2>2. o \in Asked(chunk) <=> chunk.start <= o /\ o < chunk.start + chunk.length
      BY <1>3, AskedIs
    <2>3. o \in Offsets(<<chunk.start, chunk.got>>)
            <=> chunk.start <= o /\ o < chunk.start + chunk.got
      BY <1>4, <2>1
    <2>4. chunk.got <= chunk.length
      BY <1>3
    <2> QED
      BY <1>4, <2>2, <2>3, <2>4
  <1>10. ~Repeats(chunk) /\ ~Overlaps(covered, chunk.start, chunk.got)
    <2>1. \A o \in Offsets(<<chunk.start, chunk.got>>) : o \in Nat /\ o \notin buffer
      BY <1>1, <1>3, <1>4, <1>8, <1>9, Awaits DEF Settled, Offsets
    <2>2. Offsets(<<chunk.start, chunk.got>>)
            = chunk.start .. chunk.start + chunk.got - 1
      BY DEF Offsets
    <2> QED
      BY <1>4, <1>7, <2>1, <2>2, OverlapsIs DEF Repeats
  <1>11. \A c \in 1 .. Len(chunks) : Asked(chunks'[c]) = Asked(chunks[c])
    BY <1>5 DEF Asked
  <1>12. \/ /\ queue' = queue
            /\ goes => \A o \in Nat : o \in Asked(chunk) => Resolved(chunk, o)
         \/ /\ queue' \in Seq(Span) /\ Len(queue') = Len(queue) + 1
            /\ \A k \in 1 .. Len(queue) : queue'[k] = queue[k]
            /\ queue'[Len(queue) + 1][2] >= 1
            /\ queue'[Len(queue) + 1][1] + queue'[Len(queue) + 1][2] <= Length
            /\ \A o \in Nat : o \in Offsets(queue'[Len(queue) + 1])
                                <=> o \in Asked(chunk) /\ ~Resolved(chunk, o)
    <2>1. CASE goes /\ Again(chunk) = <<>>
               /\ \A o \in Nat : o \in Asked(chunk) => Resolved(chunk, o)
      <3>1. queue' = queue
        BY <1>1, <1>7, <2>1, ConcatEmptySeq
      <3> QED
        BY <2>1, <3>1
    <2>2. CASE goes /\ \E span \in Span :
                 /\ Again(chunk) = <<span>>
                 /\ span[2] >= 1 /\ span[1] + span[2] <= Length
                 /\ \A o \in Nat : o \in Offsets(span) <=>
                                     o \in Asked(chunk) /\ ~Resolved(chunk, o)
      <3>1. PICK span \in Span :
                 /\ Again(chunk) = <<span>>
                 /\ span[2] >= 1 /\ span[1] + span[2] <= Length
                 /\ \A o \in Nat : o \in Offsets(span) <=>
                                     o \in Asked(chunk) /\ ~Resolved(chunk, o)
        BY <2>2
      <3>2. queue' = Append(queue, span)
        BY <1>1, <1>7, <2>2, <3>1, AppendIsConcat
      <3>3. /\ queue' \in Seq(Span) /\ Len(queue') = Len(queue) + 1
            /\ \A k \in 1 .. Len(queue) : queue'[k] = queue[k]
            /\ queue'[Len(queue) + 1] = span
        BY <1>7, <3>2, AppendProperties
      <3> QED
        BY <3>1, <3>3
    <2>3. CASE ~goes
      BY <1>1, <2>3
    <2> QED
      BY <1>3, <2>1, <2>2, <2>3, AgainIs
  <1> HIDE DEF goes
  <1>13. Fits'
    <2>1. \A c \in 1 .. Len(chunks') :
            chunks'[c].start + chunks'[c].length <= Length
      BY <1>5 DEF Inv, Fits
    <2>2. \A k \in 1 .. Len(queue') : /\ queue'[k][2] >= 1
                                      /\ queue'[k][1] + queue'[k][2] <= Length
      BY <1>7, <1>12 DEF Inv, Fits
    <2> QED
      BY <2>1, <2>2 DEF Fits
  <1>14. Arrived'
    <2>1. CASE goes
      <3>1. /\ Canonical(covered')
            /\ Bytes(covered') = buffer \cup Offsets(<<chunk.start, chunk.got>>)
        BY <1>1, <1>4, <1>7, <1>10, <2>1, CoverIs DEF Offsets
      <3> QED
        BY <1>1, <1>10, <3>1 DEF Arrived
    <2>2. CASE ~goes
      <3>1. chunk.got = 0
        BY <1>3, <1>4, <1>10, <2>2 DEF goes, GoesOn
      <3>2. Offsets(<<chunk.start, chunk.got>>) = {}
        BY <1>4, <3>1 DEF Offsets
      <3> QED
        BY <1>1, <1>7, <1>10, <2>2, <3>2 DEF Arrived
    <2> QED
      BY <2>1, <2>2
  <1>15. TypeOK'
    <2>1. Len(issued') <= Depth
      BY <1>6, <1>7, ChunkAssumption DEF Inv, TypeOK
    <2>2. queue' \in Seq(Span)
      BY <1>7, <1>12
    <2>3. buffer' \in SUBSET (0 .. Length - 1)
      <3>1. \A o \in Offsets(<<chunk.start, chunk.got>>) : o \in 0 .. Length - 1
        BY SMTT(40), <1>3, <1>4 DEF Offsets
      <3> QED
        BY <1>1, <1>7, <3>1
    <2>4. covered' \in Seq(Nat \X Nat)
      <3>1. CASE goes
        BY <1>1, <1>4, <1>7, <1>10, <3>1, CoverIs DEF Ranges, Pair
      <3> QED
        BY <1>1, <3>1 DEF Inv, TypeOK
    <2>5. /\ pc' \in {"fill", "failed"} /\ atEnd' \in BOOLEAN
          /\ overlapped' \in BOOLEAN /\ downgraded' \in BOOLEAN
      <3>1. atEnd \in BOOLEAN /\ downgraded \in BOOLEAN
        BY DEF Inv, TypeOK
      <3>2. EndSeen(chunk) \in BOOLEAN /\ (chunk.answer = "refused") \in BOOLEAN
        BY Zenon DEF EndSeen
      <3>3. overlapped' = FALSE
        BY <1>1, <1>10
      <3>4. downgraded' \in BOOLEAN
        BY Zenon, <1>1, <3>1, <3>2
      <3>5. atEnd' \in BOOLEAN /\ pc' \in {"fill", "failed"}
        BY Zenon, <1>1, <3>1, <3>2
      <3> QED
        BY <3>3, <3>4, <3>5
    <2>6. size' \in {LargeSize, SmallSize} /\ next' \in 0 .. Length
          /\ fileLength' \in FileLengths
      BY <1>1 DEF Inv, TypeOK
    <2> QED
      BY <1>5, <1>6, <2>1, <2>2, <2>3, <2>4, <2>5, <2>6 DEF TypeOK
  <1>16. HasAnswer' /\ Phases'
    <2>1. HasAnswer'
      BY <1>5 DEF Inv, HasAnswer
    <2>2. pc' \in {"fill", "failed"}
      BY <1>1
    <2> QED
      BY <2>1, <2>2 DEF Phases
  <1>17. CASE ~goes
    <2>1. pc' = "failed"
      BY <1>1, <1>17
    <2>2. Awaited' /\ Ends' /\ Parts'
      BY <2>1 DEF Awaited, Ends, Parts
    <2> QED
      BY <1>13, <1>14, <1>15, <1>16, <2>2 DEF Inv
  <1>18. CASE goes
    <2>1. ASSUME NEW c \in 1 .. Len(chunks)
          PROVE  (\E k \in 1 .. Len(issued') : issued'[k] = c)
                   <=> \E k \in 1 .. Len(issued) : issued[k] = c /\ k # i
      <3>1. ASSUME NEW k \in 1 .. Len(issued'), issued'[k] = c
            PROVE  \E j \in 1 .. Len(issued) : issued[j] = c /\ j # i
        <4>1. k \in 1 .. Len(issued) - 1 /\ k \in 1 .. Len(issued)
              /\ k + 1 \in 1 .. Len(issued)
          BY <1>6, <1>7
        <4>2. CASE k < i
          BY <1>3, <1>6, <3>1, <4>1, <4>2
        <4>3. CASE ~(k < i)
          <5>1. issued[k + 1] = c /\ k + 1 # i
            BY <1>3, <1>6, <3>1, <4>1, <4>3
          <5> QED
            BY <4>1, <5>1
        <4> QED
          BY <4>2, <4>3
      <3>2. ASSUME NEW k \in 1 .. Len(issued), issued[k] = c, k # i
            PROVE  \E j \in 1 .. Len(issued') : issued'[j] = c
        <4>1. CASE k < i
          <5>1. k \in 1 .. Len(issued')
            BY <1>3, <1>6, <1>7, <4>1
          <5> QED
            BY <1>6, <3>2, <4>1, <5>1
        <4>2. CASE k > i
          <5>1. k - 1 \in 1 .. Len(issued') /\ ~(k - 1 < i) /\ (k - 1) + 1 = k
            BY <1>3, <1>6, <1>7, <4>2
          <5>2. issued'[k - 1] = c
            BY <1>6, <3>2, <5>1
          <5> QED
            BY <5>1, <5>2
        <4> QED
          BY <1>3, <1>7, <3>2, <4>1, <4>2
      <3> QED
        BY <3>1, <3>2
    <2>2. \A k \in 1 .. Len(issued) : issued[k] = t <=> k = i
      BY <1>1, <1>3, AwaitedOnce
    <2>3. ASSUME NEW c \in 1 .. Len(chunks)
          PROVE  Spent(c)' <=> Spent(c) \/ c = t
      <3>1. chunks'[c].state = "done" <=> chunks[c].state = "done"
        BY <1>5
      <3>2. (\A k \in 1 .. Len(issued') : issued'[k] # c)
              <=> (\A k \in 1 .. Len(issued) : issued[k] # c) \/ c = t
        BY <2>1, <2>2, <1>3
      <3>3. c = t => chunks[c].state = "done"
        BY <1>3
      <3> QED
        BY <3>1, <3>2, <3>3 DEF Spent
    <2>4. \A c \in 1 .. Len(chunks) : EndSeen(chunks'[c]) <=> EndSeen(chunks[c])
      BY <1>5 DEF EndSeen
    <2>5. ASSUME NEW o \in Nat
          PROVE  GivenUp(o)' <=> GivenUp(o) \/ (EndSeen(chunk) /\ o \in Asked(chunk))
      <3>1. GivenUp(o)' <=> \E c \in 1 .. Len(chunks) :
                              Spent(c)' /\ EndSeen(chunks'[c]) /\ o \in Asked(chunks'[c])
        BY <1>5 DEF GivenUp, EndSeen, Asked
      <3>2. GivenUp(o)' <=> \E c \in 1 .. Len(chunks) :
                              /\ Spent(c) \/ c = t
                              /\ EndSeen(chunks[c]) /\ o \in Asked(chunks[c])
        BY <3>1, <2>3, <2>4, <1>11
      <3> QED
        BY <3>2, <1>3 DEF GivenUp
    <2>6. EndSeen(chunk) => chunk.got = 0
      BY <1>3 DEF EndSeen
    <2>7. ASSUME NEW o \in Nat
          PROVE  /\ o \in buffer' <=> \/ o \in buffer
                                      \/ o \in Asked(chunk) /\ o < chunk.start + chunk.got
                 /\ o \in Asked(chunk) => ~Settled(o)
      <3>1. o \in Asked(chunk) => ~Settled(o)
        BY <1>1, <1>3, <1>8, Awaits
      <3> QED
        BY <1>1, <1>9, <3>1
    <2>8. Awaited'
      <3>1. ASSUME NEW c \in 1 .. Len(chunks), chunks'[c].state # "done"
            PROVE  \E k \in 1 .. Len(issued') : issued'[k] = c
        <4>1. chunks[c].state # "done"
          BY <1>5, <3>1
        <4>2. PICK k \in 1 .. Len(issued) : issued[k] = c
          BY <1>1, <4>1 DEF Inv, Awaited
        <4>3. k # i
          BY <1>3, <4>1, <4>2
        <4> QED
          BY <2>1, <4>2, <4>3
      <3> QED
        BY <1>5, <3>1 DEF Awaited
    <2>9. Ends'
      <3>1. (\E c \in 1 .. Len(chunks') : Spent(c)' /\ EndSeen(chunks'[c]))
              <=> \/ \E c \in 1 .. Len(chunks) : Spent(c) /\ EndSeen(chunks[c])
                  \/ EndSeen(chunk)
        BY <1>3, <1>5, <2>3, <2>4
      <3>2. atEnd' <=> \E c \in 1 .. Len(chunks') : Spent(c)' /\ EndSeen(chunks'[c])
        BY <1>1, <1>18, <3>1 DEF Inv, Ends
      <3>3. ASSUME NEW o \in buffer'
            PROVE  ~GivenUp(o)'
        <4>1. o \in Nat
          BY <1>4, <1>15 DEF TypeOK
        <4>2. CASE o \in buffer
          BY <1>1, <2>5, <2>7, <4>1, <4>2 DEF Inv, Ends, Settled
        <4>3. CASE o \in Asked(chunk) /\ o < chunk.start + chunk.got
          <5>1. ~GivenUp(o)
            BY <2>7, <4>1, <4>3 DEF Settled
          <5>2. chunk.start <= o
            BY <1>3, <4>1, <4>3, AskedIs
          <5>3. ~EndSeen(chunk)
            BY <1>4, <2>6, <4>1, <4>3, <5>2
          <5> QED
            BY <2>5, <4>1, <5>1, <5>3
        <4> QED
          BY <2>7, <4>1, <4>2, <4>3
      <3> QED
        BY <3>2, <3>3 DEF Ends, EndSeen
    <2>10. ASSUME NEW o \in 0 .. Length - 1
           PROVE  Placed(o)'
      <3>1. Placed(o) /\ o \in Nat
        BY <1>1, <1>4 DEF Inv, Parts
      <3> DEFINE left == InChunk(i, o) /\ ~Resolved(chunk, o)
                 came == InChunk(i, o) /\ Resolved(chunk, o)
      <3>2. Settled(o)' <=> Settled(o) \/ came
        BY <1>8, <2>5, <2>7, <3>1 DEF Settled, Resolved
      <3>3. \A k \in 1 .. Len(issued) - 1 :
              /\ k \in 1 .. Len(issued) /\ k + 1 \in 1 .. Len(issued)
              /\ InChunk(k, o)' <=> IF k < i THEN InChunk(k, o) ELSE InChunk(k + 1, o)
        <4> SUFFICES ASSUME NEW k \in 1 .. Len(issued) - 1
                     PROVE  /\ k \in 1 .. Len(issued) /\ k + 1 \in 1 .. Len(issued)
                            /\ InChunk(k, o)' <=> IF k < i THEN InChunk(k, o)
                                                  ELSE InChunk(k + 1, o)
          OBVIOUS
        <4>1. k \in 1 .. Len(issued) /\ k + 1 \in 1 .. Len(issued)
          BY <1>7
        <4>2. issued[k] \in 1 .. Len(chunks) /\ issued[k + 1] \in 1 .. Len(chunks)
          BY <4>1, Facts
        <4> QED
          BY <1>6, <1>11, <4>1, <4>2 DEF InChunk
      <3>4. InChunk(i, o) => /\ ~Settled(o) /\ o < next
                             /\ \A k \in 1 .. Len(issued) : InChunk(k, o) => k = i
                             /\ \A k \in 1 .. Len(queue) : ~InQueue(k, o)
        BY <1>1, <1>3, <3>1, Awaits
      <3>5. InChunk(i, o) => \A k \in 1 .. Len(issued') : ~InChunk(k, o)'
        BY SMTT(40), <1>3, <1>6, <3>3, <3>4
      <3>6. next' = next
        BY <1>1
      <3>7. ~left => \A k \in 1 .. Len(queue') :
                       InQueue(k, o)' <=> k \in 1 .. Len(queue) /\ InQueue(k, o)
        BY <1>7, <1>8, <1>12, <3>1 DEF InQueue
      <3>8. 1 .. Len(queue) \subseteq 1 .. Len(queue')
        BY <1>7, <1>12
      <3>9. CASE left
        <4>1. /\ Len(queue') = Len(queue) + 1
              /\ \A k \in 1 .. Len(queue) : queue'[k] = queue[k]
              /\ o \in Offsets(queue'[Len(queue) + 1])
          BY <1>8, <1>12, <1>18, <3>1, <3>9
        <4>2. \A k \in 1 .. Len(queue') : InQueue(k, o)' <=> k = Len(queue) + 1
          BY <1>7, <3>4, <3>9, <4>1 DEF InQueue
        <4>3. Len(queue) + 1 \in 1 .. Len(queue')
          BY <1>7, <4>1
        <4>4. ~Settled(o)' /\ o < next
          BY <3>2, <3>4, <3>9
        <4> QED
          BY <3>5, <3>6, <3>9, <4>2, <4>3, <4>4 DEF Placed
      <3>10. CASE came
        <4>1. \A k \in 1 .. Len(queue') : ~InQueue(k, o)'
          BY <3>4, <3>7, <3>10
        <4>2. Settled(o)' /\ o < next
          BY <3>2, <3>4, <3>10
        <4> QED
          BY <3>5, <3>6, <3>10, <4>1, <4>2 DEF Placed
      <3>11. CASE ~InChunk(i, o)
        <4>1. Settled(o)' <=> Settled(o)
          BY <3>2, <3>11
        <4>2. CASE \E k \in 1 .. Len(issued) : InChunk(k, o)
          <5>1. PICK k \in 1 .. Len(issued) : /\ InChunk(k, o)
                                              /\ \A j \in 1 .. Len(issued) :
                                                   InChunk(j, o) <=> j = k
            BY <3>1, <4>2 DEF Placed
          <5>2. /\ ~Settled(o) /\ o < next
                /\ \A j \in 1 .. Len(queue) : ~InQueue(j, o)
            BY <3>1, <5>1 DEF Placed
          <5>3. k # i
            BY <3>11, <5>1
          <5> DEFINE at == IF k < i THEN k ELSE k - 1
          <5>4. at \in 1 .. Len(issued')
            BY <1>3, <1>6, <1>7, <5>3
          <5>5. \A j \in 1 .. Len(issued') : InChunk(j, o)' <=> j = at
            BY SMTT(40), <1>3, <1>6, <1>7, <3>3, <5>1, <5>3
          <5>6. \A j \in 1 .. Len(queue') : ~InQueue(j, o)'
            BY <3>7, <3>11, <5>2
          <5> HIDE DEF at
          <5> QED
            BY <3>6, <4>1, <5>2, <5>4, <5>5, <5>6 DEF Placed
        <4>3. CASE \A k \in 1 .. Len(issued) : ~InChunk(k, o)
          <5>1. \A k \in 1 .. Len(issued') : ~InChunk(k, o)'
            BY <1>6, <3>3, <4>3
          <5>2. CASE \A k \in 1 .. Len(queue) : ~InQueue(k, o)
            <6>1. \A k \in 1 .. Len(queue') : ~InQueue(k, o)'
              BY <3>7, <3>11, <5>2
            <6>2. \/ Settled(o) /\ o < next
                  \/ ~Settled(o) /\ o >= next
              BY <3>1, <4>3, <5>2 DEF Placed
            <6> QED
              BY <3>6, <4>1, <5>1, <6>1, <6>2 DEF Placed
          <5>3. CASE \E k \in 1 .. Len(queue) : \A j \in 1 .. Len(queue) :
                       InQueue(j, o) <=> j = k
            <6>1. PICK k \in 1 .. Len(queue) : \A j \in 1 .. Len(queue) :
                         InQueue(j, o) <=> j = k
              BY <5>3
            <6>2. k \in 1 .. Len(queue') /\ \A j \in 1 .. Len(queue') :
                         InQueue(j, o)' <=> j = k
              BY <3>7, <3>8, <3>11, <6>1
            <6>3. ~Settled(o) /\ o < next
              BY <3>1, <6>1 DEF Placed
            <6> QED
              BY <3>6, <4>1, <5>1, <6>2, <6>3 DEF Placed
          <5> QED
            BY <3>1, <5>2, <5>3 DEF Placed
        <4> QED
          BY <4>2, <4>3
      <3> QED
        BY <3>9, <3>10, <3>11
    <2> QED
      BY <1>13, <1>14, <1>15, <1>16, <2>8, <2>9, <2>10 DEF Inv, Parts
  <1> QED
    BY <1>17, <1>18

\* The span of the chunk built next lies in the buffer and is not empty.
LEMMA NextSpanIs ==
    ASSUME Inv, pc = "build"
    PROVE  LET span == NextSpan(queue, next, size) IN
           /\ span[1] \in 0 .. Length /\ span[2] \in 1 .. Length
           /\ span[1] + span[2] <= Length
           /\ queue = <<>> => span[1] = next /\ NextAfter(queue, next, size) = next + span[2]
           /\ queue # <<>> => span[1] = queue[Len(queue)][1] /\ span[2] =
                IF size < queue[Len(queue)][2] THEN size ELSE queue[Len(queue)][2]
  <1>1. /\ size \in Nat \ {0} /\ next \in 0 .. Length /\ Length \in Nat
    BY ChunkAssumption DEF Inv, TypeOK
  <1>2. CASE queue = <<>>
    <2>1. next < Length
      BY <1>2 DEF Inv, Phases
    <2>2. NextSpan(queue, next, size) = <<next, Min({size, Length - next})>>
      BY <1>2 DEF NextSpan
    <2>3. Min({size, Length - next})
            = IF size <= Length - next THEN size ELSE Length - next
      BY <1>1, MinOfTwo
    <2>4. NextAfter(queue, next, size) = next + Min({size, Length - next})
      BY <1>2 DEF NextAfter
    <2> QED
      BY <1>1, <1>2, <2>1, <2>2, <2>3, <2>4
  <1>3. CASE queue # <<>>
    <2> DEFINE top == queue[Len(queue)]
    <2>1. Len(queue) \in 1 .. Len(queue)
      BY <1>3, Facts
    <2>2. /\ top[1] \in 0 .. Length /\ top[2] \in 1 .. Length
          /\ top[1] + top[2] <= Length
      BY <1>1, <2>1, Facts DEF Inv, Fits
    <2>3. NextSpan(queue, next, size) = <<top[1], Min({size, top[2]})>>
      BY <1>3 DEF NextSpan, Last
    <2> HIDE DEF top
    <2>4. Min({size, top[2]}) = IF size <= top[2] THEN size ELSE top[2]
      BY <1>1, <2>2, MinOfTwo
    <2> QED
      BY <1>1, <1>3, <2>2, <2>3, <2>4 DEF top
  <1> QED
    BY <1>2, <1>3

\* The queue once the chunk is built: every span but the last, and what the chunk
\* leaves of that one.
LEMMA QueueAfterIs ==
    ASSUME Inv, pc = "build", queue # <<>>
    PROVE  LET n == Len(queue)
               top == queue[n]
               after == QueueAfter(queue, size)
           IN  /\ n \in 1 .. n /\ top \in Span
               /\ after \in Seq(Span)
               /\ \A k \in 1 .. n - 1 : after[k] = queue[k]
               /\ \/ size >= top[2] /\ Len(after) = n - 1
                  \/ /\ size < top[2] /\ Len(after) = n
                     /\ after[n] = <<top[1] + size, top[2] - size>>
  <1> DEFINE n == Len(queue)
             top == queue[n]
             rest == <<top[1] + size, top[2] - size>>
             after == QueueAfter(queue, size)
  <1>1. /\ n \in 1 .. n /\ queue \in Seq(Span) /\ n \in Nat
        /\ \A k \in 1 .. n : queue[k] \in Span
    BY Facts
  <1>2. /\ top \in Span /\ top[1] \in 0 .. Length /\ top[2] \in 0 .. Length
        /\ top[1] + top[2] <= Length /\ size \in Nat /\ Length \in Nat
    BY <1>1, Facts, ChunkAssumption DEF Inv, Fits, TypeOK
  <1>3. /\ Front(queue) \in Seq(Span) /\ Len(Front(queue)) = n - 1
        /\ \A k \in 1 .. n - 1 : Front(queue)[k] = queue[k]
    <2> DEFINE m == n - 1
    <2>1. /\ m \in Nat /\ m = n - 1 /\ m <= n
          /\ \A k \in 1 .. m : k \in 1 .. n /\ 1 + k - 1 = k
      BY <1>1
    <2>2. Front(queue) = SubSeq(queue, 1, m)
      BY DEF Front
    <2> HIDE DEF m, n
    <2>3. /\ SubSeq(queue, 1, m) \in Seq(Span)
          /\ Len(SubSeq(queue, 1, m)) = m
          /\ \A k \in 1 .. m : SubSeq(queue, 1, m)[k] = queue[k]
      BY <1>1, <2>1 DEF n
    <2> QED
      BY <2>1, <2>2, <2>3
  <1>4. CASE size < top[2]
    <2>1. after = Append(Front(queue), rest)
      BY <1>4 DEF QueueAfter, Last
    <2>2. rest \in Span
      BY <1>2, <1>4 DEF Span
    <2>3. /\ after \in Seq(Span) /\ Len(after) = n
          /\ \A k \in 1 .. n - 1 : after[k] = queue[k]
          /\ after[n] = rest
      BY <1>1, <1>3, <2>1, <2>2, AppendProperties
    <2> QED
      BY <1>1, <1>2, <1>4, <2>3
  <1>5. CASE ~(size < top[2])
    <2>1. after = Front(queue)
      BY <1>5 DEF QueueAfter, Last
    <2> QED
      BY <1>1, <1>2, <1>3, <1>5, <2>1
  <1> QED
    BY <1>4, <1>5

\* A chunk is built: its bytes move from the queue or the tail into it.
LEMMA BuildInv ==
    ASSUME Inv, Build
    PROVE  Inv'
  <1> DEFINE span == NextSpan(queue, next, size)
             new == [start |-> span[1], length |-> span[2], large |-> ~downgraded,
                     state |-> "built", answer |-> "none", got |-> 0]
             t == Len(chunks) + 1
             n == Len(issued) + 1
  <1>1. /\ pc = "build" /\ pc' = "fill" /\ chunks' = Append(chunks, new)
        /\ issued' = Append(issued, t) /\ queue' = QueueAfter(queue, size)
        /\ next' = NextAfter(queue, next, size)
        /\ UNCHANGED <<size, covered, buffer, atEnd, overlapped, downgraded, fileLength>>
    BY DEF Build
  <1>2. /\ span[1] \in 0 .. Length /\ span[2] \in 1 .. Length
        /\ span[1] + span[2] <= Length
        /\ queue = <<>> => span[1] = next /\ next' = next + span[2]
        /\ queue # <<>> => span[1] = queue[Len(queue)][1] /\ span[2] =
             IF size < queue[Len(queue)][2] THEN size ELSE queue[Len(queue)][2]
    BY <1>1, NextSpanIs
  <1>3. queue = <<>> => queue' = queue
    BY <1>1 DEF QueueAfter
  <1>4. queue # <<>> => next' = next
    BY <1>1 DEF NextAfter
  <1>5. /\ Length \in Nat /\ next \in 0 .. Length /\ Len(chunks) \in Nat
        /\ Len(issued) \in Nat /\ Len(queue) \in Nat
        /\ chunks \in Seq(Chunk) /\ issued \in Seq(1 .. Len(chunks))
        /\ size \in Nat \ {0}
    BY Facts, ChunkAssumption DEF Inv, TypeOK
  <1> HIDE DEF span
  <1>6. /\ new \in Chunk /\ new.start = span[1] /\ new.length = span[2]
        /\ new.state = "built" /\ new.answer = "none" /\ new.got = 0
    BY <1>2, <1>5 DEF Chunk, Inv, TypeOK
  <1> HIDE DEF new
  <1>7. /\ chunks' \in Seq(Chunk) /\ Len(chunks') = t
        /\ \A u \in 1 .. Len(chunks) : chunks'[u] = chunks[u]
        /\ chunks'[t] = new
        /\ t \in 1 .. t /\ t \notin 1 .. Len(chunks)
        /\ \A u \in 1 .. t : u \in 1 .. Len(chunks) \/ u = t
    BY <1>1, <1>5, <1>6, AppendProperties
  <1>8. /\ issued' \in Seq(1 .. Len(chunks')) /\ Len(issued') = n
        /\ \A k \in 1 .. Len(issued) : issued'[k] = issued[k]
        /\ issued'[n] = t
        /\ n \in 1 .. n /\ n \notin 1 .. Len(issued)
        /\ \A k \in 1 .. Len(issued) : k \in 1 .. n
        /\ \A k \in 1 .. n : k \in 1 .. Len(issued) \/ k = n
        /\ n = Len(issued) + 1
    <2>1. issued \in Seq(1 .. t) /\ t \in 1 .. t
      BY <1>5, SeqMonotonic
    <2> HIDE DEF t
    <2> QED
      BY <1>1, <1>5, <1>7, <2>1, AppendProperties
  <1> HIDE DEF t, n
  <1>9. UNCHANGED <<covered, buffer, atEnd, overlapped>> /\ Arrived'
    BY <1>1 DEF Inv, Arrived
  <1>10. /\ \A u \in 1 .. Len(chunks') : Spent(u)' <=> u \in 1 .. Len(chunks) /\ Spent(u)
         /\ \A u \in 1 .. Len(chunks) : /\ EndSeen(chunks'[u]) <=> EndSeen(chunks[u])
                                        /\ Asked(chunks'[u]) = Asked(chunks[u])
    <2>1. ASSUME NEW u \in 1 .. Len(chunks)
          PROVE  Spent(u)' <=> Spent(u)
      <3>1. (\A k \in 1 .. Len(issued') : issued'[k] # u)
              <=> \A k \in 1 .. Len(issued) : issued[k] # u
        BY <1>7, <1>8
      <3> QED
        BY <1>7, <3>1 DEF Spent
    <2>2. \A u \in 1 .. Len(chunks') : u = t => ~Spent(u)'
      BY <1>6, <1>7 DEF Spent
    <2> QED
      BY <1>7, <2>1, <2>2
  <1>11. queue' \in Seq(Span) /\ next' \in 0 .. Length
    <2>1. CASE queue = <<>>
      BY <1>2, <1>3, <1>5, <2>1, Facts
    <2>2. CASE queue # <<>>
      BY <1>1, <1>4, <1>5, <2>2, QueueAfterIs
    <2> QED
      BY <2>1, <2>2
  <1>12. TypeOK'
    <2>1. Len(issued') <= Depth
      BY <1>1, <1>5, <1>8, ChunkAssumption DEF Inv, Phases
    <2> QED
      BY <1>1, <1>7, <1>8, <1>11, <2>1 DEF Inv, TypeOK
  <1>13. Fits'
    <2>1. \A u \in 1 .. Len(chunks') :
            chunks'[u].start + chunks'[u].length <= Length
      <3> TAKE u \in 1 .. Len(chunks')
      <3>1. CASE u = t
        BY <1>2, <1>6, <1>7, <3>1
      <3>2. CASE u \in 1 .. Len(chunks)
        BY <1>7, <3>2 DEF Inv, Fits
      <3> QED
        BY <1>7, <3>1, <3>2
    <2>2. ASSUME NEW k \in 1 .. Len(queue')
          PROVE  queue'[k][2] >= 1 /\ queue'[k][1] + queue'[k][2] <= Length
      <3>1. CASE queue = <<>>
        BY <1>3, <2>2, <3>1 DEF Inv, Fits
      <3>2. CASE queue # <<>>
        <4> DEFINE last == Len(queue)
                   top == queue[last]
        <4>1. /\ last \in 1 .. last
              /\ \A j \in 1 .. last - 1 : queue'[j] = queue[j]
              /\ \/ Len(queue') = last - 1
                 \/ /\ size < top[2] /\ Len(queue') = last
                    /\ queue'[last] = <<top[1] + size, top[2] - size>>
          BY <1>1, <3>2, QueueAfterIs
        <4>2. top[1] \in Nat /\ top[2] \in Nat /\ top[1] + top[2] <= Length
          BY <1>5, <4>1, Facts DEF Inv, Fits
        <4>3. CASE k \in 1 .. last - 1
          <5>1. k \in 1 .. Len(queue) /\ queue'[k] = queue[k]
            BY SMTT(40), <1>5, <4>1, <4>3
          <5> QED
            BY <5>1 DEF Inv, Fits
        <4>4. CASE k = last
          BY SMTT(40), <1>5, <4>1, <4>2, <4>4
        <4> QED
          BY <1>5, <4>1, <4>3, <4>4
      <3> QED
        BY <3>1, <3>2
    <2> QED
      BY <2>1, <2>2 DEF Fits
  <1>14. Phases'
    BY <1>1 DEF Phases
  <1>15. HasAnswer'
    <2> SUFFICES ASSUME NEW u \in 1 .. Len(chunks')
                 PROVE  /\ chunks'[u].state \in {"built", "sent"}
                             <=> chunks'[u].answer = "none"
                        /\ chunks'[u].answer # "data" => chunks'[u].got = 0
                        /\ chunks'[u].got <= chunks'[u].length
      BY DEF HasAnswer
    <2>1. CASE u = t
      BY <1>2, <1>5, <1>6, <1>7, <2>1
    <2>2. CASE u \in 1 .. Len(chunks)
      BY <1>7, <2>2 DEF Inv, HasAnswer
    <2> QED
      BY <1>7, <2>1, <2>2
  <1>16. Awaited'
    <2>1. ASSUME NEW u \in 1 .. Len(chunks'), chunks'[u].state # "done"
          PROVE  \E k \in 1 .. Len(issued') : issued'[k] = u
      <3>1. CASE u = t
        BY <1>8, <3>1
      <3>2. CASE u \in 1 .. Len(chunks)
        <4>1. PICK k \in 1 .. Len(issued) : issued[k] = u
          BY <1>1, <1>7, <2>1, <3>2 DEF Inv, Awaited
        <4> QED
          BY <1>8, <4>1
      <3> QED
        BY <1>7, <3>1, <3>2
    <2> QED
      BY <1>1, <2>1 DEF Awaited
  <1>17. ASSUME NEW o \in Nat
         PROVE  (GivenUp(o)' <=> GivenUp(o)) /\ (Settled(o)' <=> Settled(o))
    <2>1. GivenUp(o)' <=> GivenUp(o)
      <3>1. GivenUp(o)' <=> \E u \in 1 .. Len(chunks') :
              Spent(u)' /\ EndSeen(chunks'[u]) /\ o \in Asked(chunks'[u])
        BY DEF GivenUp, EndSeen, Asked
      <3> QED
        BY <1>7, <1>10, <3>1 DEF GivenUp
    <2> QED
      BY <1>9, <2>1 DEF Settled
  <1>18. Ends'
    <2>1. (\E u \in 1 .. Len(chunks') : Spent(u)' /\ EndSeen(chunks'[u]))
            <=> \E u \in 1 .. Len(chunks) : Spent(u) /\ EndSeen(chunks[u])
      BY <1>7, <1>10
    <2>2. buffer \subseteq Nat
      BY ChunkAssumption DEF Inv, TypeOK
    <2>3. atEnd' <=> \E u \in 1 .. Len(chunks') : Spent(u)' /\ EndSeen(chunks'[u])
      BY <1>1, <2>1 DEF Inv, Ends
    <2>4. ASSUME NEW o \in buffer'
          PROVE  ~GivenUp(o)'
      <3>1. o \in buffer /\ o \in Nat /\ ~GivenUp(o)
        BY <1>1, <2>2 DEF Inv, Ends
      <3> QED
        BY <1>17, <3>1
    <2> QED
      BY <2>3, <2>4 DEF Ends, EndSeen
  <1>19. Parts'
    <2> SUFFICES ASSUME NEW o \in 0 .. Length - 1 PROVE Placed(o)'
      BY <1>1 DEF Parts
    <2>1. Placed(o) /\ o \in Nat
      BY <1>1, ChunkAssumption DEF Inv, Parts
    <2> DEFINE taken == span[1] <= o /\ o < span[1] + span[2]
    <2> DEFINE Now(k) == o \in Asked(chunks'[issued'[k]])
    <2>2. \A k \in 1 .. Len(issued) : Now(k) <=> InChunk(k, o)
      BY <1>7, <1>8, Facts DEF InChunk
    <2>3. Now(n) <=> taken
      <3>1. o \in Asked(new) <=> taken
        BY <1>6, <2>1, AskedIs
      <3> QED
        BY <1>7, <1>8, <3>1
    <2>4. Settled(o)' <=> Settled(o)
      BY <1>17, <2>1
    <2>5. 1 .. Len(issued') = 1 .. Len(issued) \cup {n} /\ n \notin 1 .. Len(issued)
      BY <1>5, <1>8
    <2> HIDE DEF taken, Now
    <2>6. CASE queue = <<>>
      <3>1. /\ \A k \in 1 .. Len(queue) : ~InQueue(k, o)
            /\ \A k \in 1 .. Len(queue') : ~InQueue(k, o)'
        BY <1>3, <2>6
      <3>2. taken <=> next <= o /\ o < next'
        BY <1>2, <1>5, <2>6 DEF taken
      <3>3. next <= next'
        BY <1>2, <1>5, <2>6
      <3>4. CASE o < next
        <4>1. o < next' /\ ~taken
          BY <1>5, <1>11, <2>1, <3>2, <3>3, <3>4
        <4>2. ~Now(n)
          BY <2>3, <4>1
        <4>3. CASE \A k \in 1 .. Len(issued) : ~InChunk(k, o)
          <5>1. Settled(o)
            BY <2>1, <3>1, <3>4, <4>3, <1>5 DEF Placed
          <5>2. \A k \in 1 .. Len(issued') : ~Now(k)
            BY <2>2, <2>5, <4>2, <4>3
          <5> QED
            BY <2>4, <3>1, <4>1, <5>1, <5>2 DEF Placed, InChunk, Now
        <4>4. CASE \E k \in 1 .. Len(issued) : InChunk(k, o)
          <5>1. PICK k \in 1 .. Len(issued) : \A j \in 1 .. Len(issued) :
                  InChunk(j, o) <=> j = k
            BY <2>1, <4>4 DEF Placed
          <5>2. ~Settled(o)
            BY <2>1, <4>4 DEF Placed
          <5>3. k \in 1 .. Len(issued') /\ \A j \in 1 .. Len(issued') :
                  Now(j) <=> j = k
            BY <2>2, <2>5, <4>2, <5>1
          <5> QED
            BY <2>4, <3>1, <4>1, <5>2, <5>3 DEF Placed, InChunk, Now
        <4> QED
          BY <4>3, <4>4
      <3>5. CASE o >= next
        <4>1. /\ ~Settled(o)
              /\ \A k \in 1 .. Len(issued) : ~InChunk(k, o)
          BY <1>5, <2>1, <3>5 DEF Placed
        <4>2. CASE o < next'
          <5>1. n \in 1 .. Len(issued') /\ \A j \in 1 .. Len(issued') :
                  Now(j) <=> j = n
            BY <2>2, <2>3, <2>5, <3>2, <3>5, <4>1, <4>2
          <5> QED
            BY <2>4, <3>1, <4>1, <4>2, <5>1 DEF Placed, InChunk, Now
        <4>3. CASE ~(o < next')
          <5>1. o >= next'
            BY <1>11, <2>1, <4>3
          <5>2. \A j \in 1 .. Len(issued') : ~Now(j)
            BY <2>2, <2>3, <2>5, <3>2, <4>1, <4>3
          <5> QED
            BY <2>4, <3>1, <4>1, <5>1, <5>2 DEF Placed, InChunk, Now
        <4> QED
          BY <4>2, <4>3
      <3> QED
        BY <1>5, <2>1, <3>4, <3>5
    <2>7. CASE queue # <<>>
      <3> DEFINE last == Len(queue)
                 top == queue[last]
      <3>1. /\ last \in 1 .. last
            /\ \A j \in 1 .. last - 1 : queue'[j] = queue[j]
            /\ \/ size >= top[2] /\ Len(queue') = last - 1
               \/ /\ size < top[2] /\ Len(queue') = last
                  /\ queue'[last] = <<top[1] + size, top[2] - size>>
        BY <1>1, <2>7, QueueAfterIs
      <3>2. top[1] \in Nat /\ top[2] \in Nat
        BY <1>5, <3>1, Facts
      <3>3. InQueue(last, o) <=> top[1] <= o /\ o < top[1] + top[2]
        BY <2>1, <3>2 DEF InQueue, Offsets
      <3>4. span[1] = top[1] /\ span[2] = IF size < top[2] THEN size ELSE top[2]
        BY <1>2, <2>7
      <3>5. taken => InQueue(last, o)
        BY <1>5, <3>2, <3>3, <3>4 DEF taken
      <3> HIDE DEF top
      <3>6. \A k \in 1 .. Len(queue') :
              /\ k \in 1 .. last
              /\ InQueue(k, o)' <=> InQueue(k, o) /\ ~(k = last /\ taken)
        <4> SUFFICES ASSUME NEW k \in 1 .. Len(queue')
                     PROVE  /\ k \in 1 .. last
                            /\ InQueue(k, o)' <=> InQueue(k, o) /\ ~(k = last /\ taken)
          OBVIOUS
        <4>1. k \in 1 .. last - 1 \/ (k = last /\ Len(queue') = last)
          <5>1. (Len(queue') = last - 1 \/ Len(queue') = last) /\ last \in Nat
            BY <1>5, <3>1
          <5> HIDE DEF last
          <5> QED
            BY <5>1
        <4>2. CASE k \in 1 .. last - 1
          BY <1>5, <3>1, <4>2 DEF InQueue
        <4>3. CASE k = last /\ Len(queue') = last
          <5>1. /\ size < top[2]
                /\ queue'[last] = <<top[1] + size, top[2] - size>>
            BY <1>5, <3>1, <4>3
          <5>2. InQueue(k, o)' <=> top[1] + size <= o /\ o < top[1] + top[2]
            BY SMTT(40), <1>5, <2>1, <3>2, <4>3, <5>1 DEF InQueue, Offsets
          <5> QED
            BY <1>5, <2>1, <3>1, <3>2, <3>3, <3>4, <4>3, <5>1, <5>2 DEF taken
        <4> QED
          BY <4>1, <4>2, <4>3
      <3>7. \A k \in 1 .. last : InQueue(k, o) /\ ~(k = last /\ taken)
              => k \in 1 .. Len(queue')
        BY <1>5, <2>1, <3>1, <3>2, <3>3, <3>4 DEF taken
      <3>8. next' = next
        BY <1>4, <2>7
      <3> HIDE DEF last
      <3>9. CASE taken
        <4>1. /\ \A k \in 1 .. Len(queue) : InQueue(k, o) <=> k = last
              /\ ~Settled(o) /\ o < next
              /\ \A k \in 1 .. Len(issued) : ~InChunk(k, o)
          BY <2>1, <3>1, <3>5, <3>9 DEF Placed, last
        <4>2. \A k \in 1 .. Len(queue') : ~InQueue(k, o)'
          BY <3>6, <3>9, <4>1 DEF last
        <4>3. n \in 1 .. Len(issued') /\ \A k \in 1 .. Len(issued') :
                Now(k) <=> k = n
          BY <2>2, <2>3, <2>5, <3>9, <4>1
        <4> QED
          BY <2>4, <3>8, <4>1, <4>2, <4>3 DEF Placed, InChunk, Now
      <3>10. CASE ~taken
        <4>1. \A k \in 1 .. Len(issued') :
                Now(k) <=> k \in 1 .. Len(issued) /\ InChunk(k, o)
          BY <2>2, <2>3, <2>5, <3>10
        <4>2. /\ \A k \in 1 .. Len(queue') : /\ k \in 1 .. Len(queue)
                                             /\ InQueue(k, o)' <=> InQueue(k, o)
              /\ \A k \in 1 .. Len(queue) : InQueue(k, o) => k \in 1 .. Len(queue')
          BY <3>6, <3>7, <3>10 DEF last
        <4>3. CASE \E k \in 1 .. Len(queue) : InQueue(k, o)
          <5>1. PICK k \in 1 .. Len(queue) : \A j \in 1 .. Len(queue) :
                  InQueue(j, o) <=> j = k
            BY <2>1, <4>3 DEF Placed
          <5>2. /\ ~Settled(o) /\ o < next
                /\ \A j \in 1 .. Len(issued) : ~InChunk(j, o)
            BY <2>1, <4>3 DEF Placed
          <5>3. k \in 1 .. Len(queue') /\ \A j \in 1 .. Len(queue') :
                  InQueue(j, o)' <=> j = k
            BY <4>2, <5>1
          <5>4. \A j \in 1 .. Len(issued') : ~Now(j)
            BY <4>1, <5>2
          <5> QED
            BY <2>4, <3>8, <5>2, <5>3, <5>4 DEF Placed, InChunk, Now
        <4>4. CASE \A k \in 1 .. Len(queue) : ~InQueue(k, o)
          <5>1. \A k \in 1 .. Len(queue') : ~InQueue(k, o)'
            BY <4>2, <4>4
          <5>2. CASE \A k \in 1 .. Len(issued) : ~InChunk(k, o)
            <6>1. \A k \in 1 .. Len(issued') : ~Now(k)
              BY <4>1, <5>2
            <6>2. \/ Settled(o) /\ o < next
                  \/ ~Settled(o) /\ o >= next
              BY <2>1, <4>4, <5>2 DEF Placed
            <6> QED
              BY <2>4, <3>8, <5>1, <6>1, <6>2 DEF Placed, InChunk, Now
          <5>3. CASE \E k \in 1 .. Len(issued) : InChunk(k, o)
            <6>1. PICK k \in 1 .. Len(issued) : \A j \in 1 .. Len(issued) :
                    InChunk(j, o) <=> j = k
              BY <2>1, <5>3 DEF Placed
            <6>2. ~Settled(o) /\ o < next
              BY <2>1, <5>3 DEF Placed
            <6>3. k \in 1 .. Len(issued') /\ \A j \in 1 .. Len(issued') :
                    Now(j) <=> j = k
              BY <2>5, <4>1, <6>1
            <6> QED
              BY <2>4, <3>8, <5>1, <6>2, <6>3 DEF Placed, InChunk, Now
          <5> QED
            BY <5>2, <5>3
        <4> QED
          BY <4>3, <4>4
      <3> QED
        BY <3>9, <3>10
    <2> QED
      BY <2>6, <2>7
  <1> QED
    BY <1>9, <1>12, <1>13, <1>14, <1>15, <1>16, <1>18, <1>19 DEF Inv

-----------------------------------------------------------------------------
(* The theorems. *)

\* Every step of the call, of the server, and of whoever shares the file and the
\* connection.
LEMMA NextInv == Inv /\ [Next]_vars => Inv'
  <1> SUFFICES ASSUME Inv, [Next]_vars PROVE Inv'
    OBVIOUS
  <1>1. CASE Loop
    BY <1>1, QuietInv, BuildInv, PollPendsInv, PollTakesInv DEF Loop
  <1>2. CASE Server
    BY <1>2, ServerInv
  <1>3. CASE Resized \/ OtherDowngrades \/ Over \/ UNCHANGED vars
    BY <1>3, QuietInv DEF Over
  <1> QED
    BY <1>1, <1>2, <1>3 DEF Next

\* What the other theorems rest on holds of every read, whatever the length of the
\* buffer, the depth of the pipeline, the two chunk sizes and the lengths the file
\* takes while it runs.
THEOREM Invariance == Spec => []Inv
  <1>1. Init => Inv
    BY InitInv
  <1>2. Inv /\ [Next]_vars => Inv'
    BY NextInv
  <1> QED
    BY <1>1, <1>2, PTL DEF Spec

\* The variables of read_span keep their types.
THEOREM TypeCorrect == Spec => []TypeOK
  <1>1. Inv => TypeOK
    BY DEF Inv
  <1> QED
    BY <1>1, Invariance, PTL

\* The first missing byte.
LEMMA PrefixOf ==
    ASSUME Inv
    PROVE  /\ Prefix(covered) \in 0 .. Length
           /\ 0 .. Prefix(covered) - 1 \subseteq buffer
           /\ Prefix(covered) \notin buffer
           /\ buffer \subseteq 0 .. Length - 1
           /\ covered \in Ranges /\ Canonical(covered) /\ Bytes(covered) = buffer
           /\ Length \in Nat \ {0}
  <1>1. /\ covered \in Ranges /\ Canonical(covered) /\ Bytes(covered) = buffer
        /\ buffer \subseteq 0 .. Length - 1 /\ Length \in Nat \ {0}
    BY Facts, ChunkAssumption DEF Inv, TypeOK, Arrived
  <1> DEFINE p == Prefix(covered)
  <1>2. p \in Nat /\ 0 .. p - 1 \subseteq buffer /\ p \notin buffer
    BY <1>1, PrefixIs
  <1> HIDE DEF p
  <1>3. p <= Length
    <2>1. p > 0 => p - 1 \in buffer
      BY <1>2
    <2> QED
      BY <1>1, <1>2, <2>1
  <1> QED
    BY <1>1, <1>2, <1>3 DEF p

\* read_exact_at succeeds only with the buffer full, and what read_to_end returns
\* is every byte that arrived: the gap it accepts has nothing behind it.
THEOREM JudgesRight == Spec => []JudgedRight
  <1>1. ASSUME Inv PROVE JudgedRight
    <2> DEFINE p == Prefix(covered)
               missing == (0 .. Length - 1) \ buffer
               m == Min(missing)
               after == {Length} \cup {b \in buffer : b > m}
    <2>1. /\ p \in 0 .. Length /\ 0 .. p - 1 \subseteq buffer /\ p \notin buffer
          /\ buffer \subseteq 0 .. Length - 1 /\ Length \in Nat \ {0}
      BY <1>1, PrefixOf
    <2>2. Gap(covered, Length) = IF missing = {} THEN NoGap ELSE <<m, Min(after)>>
      BY <1>1, PrefixOf, GapIs
    <2>3. ASSUME missing = {}
          PROVE  buffer = 0 .. Length - 1 /\ p = Length
      <3>1. \A b \in 0 .. Length - 1 : b \in buffer
        BY <2>3
      <3>2. buffer = 0 .. Length - 1
        BY <2>1, <3>1
      <3>3. p = Length
        BY <2>1, <3>2
      <3> QED
        BY <3>2, <3>3
    <2>4. ASSUME missing # {}, Min(after) = Length
          PROVE  buffer = 0 .. p - 1
      <3>1. missing \in SUBSET Nat
        BY <2>1
      <3>2. m \in missing /\ \A b \in missing : m <= b
        <4> HIDE DEF missing
        <4> QED
          BY <2>4, <3>1, MinIs
      <3> HIDE DEF m
      <3>3. p = m
        BY <2>1, <3>2
      <3>4. after \in SUBSET Nat /\ after # {}
        <4>1. Length \in Nat /\ \A b \in buffer : b \in Nat
          BY <2>1
        <4>2. \A b \in after : b \in Nat
          BY <4>1
        <4> QED
          BY <4>2
      <3>5. \A b \in after : Length <= b
        <4> HIDE DEF after
        <4> QED
          BY <2>4, <3>4, MinIs
      <3>6. \A b \in buffer : b < m
        BY <2>1, <3>2, <3>5
      <3>7. \A b \in buffer : b \in 0 .. p - 1
        BY <2>1, <3>3, <3>6
      <3> QED
        BY <2>1, <3>7
    <2> HIDE DEF missing, m, after
    <2>5. Filled <=> missing = {}
      BY <2>2 DEF Filled, NoGap
    <2>6. ShortOnly => missing = {} \/ Min(after) = Length
      BY <2>2 DEF ShortOnly, NoGap
    <2>7. Filled => buffer = 0 .. Length - 1
      BY <2>3, <2>5
    <2>8. ShortOnly => buffer = 0 .. p - 1
      BY <2>3, <2>4, <2>6
    <2> QED
      BY <2>7, <2>8 DEF JudgedRight, Returned
  <1> QED
    BY <1>1, Invariance, PTL

\* The end a fill reports is where the server said it is, at the first byte that is
\* missing; a fill that reports none is full; and no byte is answered for twice.
THEOREM EndsAreReal == Spec => []EndIsReal
  <1>1. ASSUME Inv PROVE EndIsReal
    <2>1. ~overlapped
      BY <1>1 DEF Inv, Arrived
    <2>2. ASSUME pc = "judge"
          PROVE  IF atEnd THEN \E c \in 1 .. Len(chunks) :
                                 chunks[c].start = Prefix(covered) /\ EndSeen(chunks[c])
                 ELSE buffer = 0 .. Length - 1
      <3> DEFINE p == Prefix(covered)
      <3>1. /\ p \in 0 .. Length /\ 0 .. p - 1 \subseteq buffer /\ p \notin buffer
            /\ buffer \subseteq 0 .. Length - 1 /\ Length \in Nat \ {0}
        BY <1>1, PrefixOf
      <3> HIDE DEF p
      <3>2. issued = <<>> /\ queue = <<>> /\ (atEnd \/ next = Length)
            /\ next \in 0 .. Length
        BY <1>1, <2>2 DEF Inv, Phases, TypeOK
      <3>3. \A o \in 0 .. Length - 1 : Settled(o) <=> o < next
        <4>1. \A o \in 0 .. Length - 1 : Placed(o)
          BY <1>1, <2>2 DEF Inv, Parts
        <4> QED
          BY <3>1, <3>2, <4>1 DEF Placed
      <3>4. /\ atEnd <=> \E c \in 1 .. Len(chunks) : Spent(c) /\ EndSeen(chunks[c])
            /\ \A o \in buffer : ~GivenUp(o)
        BY <1>1, <2>2 DEF Inv, Ends
      <3>5. CASE ~atEnd
        <4>1. \A o \in 0 .. Length - 1 : ~GivenUp(o)
          BY <3>4, <3>5 DEF GivenUp
        <4>2. \A o \in 0 .. Length - 1 : o \in buffer
          BY <3>1, <3>2, <3>3, <3>5, <4>1 DEF Settled
        <4> QED
          BY <3>1, <3>5, <4>2
      <3>6. CASE atEnd
        <4>1. ASSUME NEW c \in 1 .. Len(chunks), Spent(c), EndSeen(chunks[c])
              PROVE  /\ chunks[c].start \in 0 .. Length - 1 /\ p <= chunks[c].start
                     /\ chunks[c].start < next
          <5>1. /\ chunks[c] \in Chunk /\ chunks[c].start \in 0 .. Length
                /\ chunks[c].length \in 1 .. Length
                /\ chunks[c].start + chunks[c].length <= Length
            BY <1>1, Facts, ChunkFields DEF Inv, Fits
          <5>2. chunks[c].start \in 0 .. Length - 1 /\ chunks[c].start \in Asked(chunks[c])
            BY <3>1, <5>1, AskedIs
          <5>3. GivenUp(chunks[c].start)
            BY <4>1, <5>2 DEF GivenUp
          <5>4. Settled(chunks[c].start) /\ chunks[c].start \notin buffer
            BY <3>4, <5>3 DEF Settled
          <5> QED
            BY <3>1, <3>3, <5>2, <5>4
        <4>2. p \in 0 .. Length - 1 /\ p < next
          BY <3>1, <3>2, <3>4, <3>6, <4>1
        <4>3. GivenUp(p)
          BY <3>1, <3>3, <4>2 DEF Settled
        <4>4. PICK c \in 1 .. Len(chunks) :
                Spent(c) /\ EndSeen(chunks[c]) /\ p \in Asked(chunks[c])
          BY <4>3 DEF GivenUp
        <4>5. chunks[c].start <= p
          BY <1>1, <4>2, <4>4, Facts, AskedIs
        <4>6. chunks[c].start = p
          BY <3>1, <4>1, <4>4, <4>5
        <4> QED
          BY <3>6, <4>4, <4>6 DEF p
      <3> QED
        BY <3>5, <3>6
    <2> QED
      BY <2>1, <2>2 DEF EndIsReal
  <1> QED
    BY <1>1, Invariance, PTL
=============================================================================
