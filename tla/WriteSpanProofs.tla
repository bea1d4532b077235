--------------------------- MODULE WriteSpanProofs ---------------------------
(***************************************************************************)
(* Theorems about one File::write_all_at, for every length of the buffer,   *)
(* every depth of the pipeline and every pair of chunk sizes:               *)
(*                                                                         *)
(*   Invariance               Spec => []Inv                                *)
(*   TypeCorrect              Spec => []TypeOK                             *)
(*   OnePlaceEach             Spec => []Partitioned                        *)
(*   WriteImplementsContract  Spec => KeepsContract                        *)
(*                                                                         *)
(* Partitioned is not inductive: whether a byte stays in one place depends  *)
(* on the spans lying in the buffer (Fits), on a ticket being answered once *)
(* (Answers) and on the recorded list being sorted and disjoint (InOrder),  *)
(* which decides what Overlaps and Cover do.  The contract adds that a call *)
(* that has returned awaits nothing (Awaited) and that the count of the     *)
(* group is the number of chunks in it (Guarded), without which the prefix  *)
(* could be settled under a chunk still on the wire.                        *)
(***************************************************************************)
EXTENDS WriteSpan, CoverageProofs

-----------------------------------------------------------------------------
(* The inductive invariant. *)

Looping == pc \in {"fill", "build", "await"}

\* The tickets that count as outstanding.
Live == {t \in 1 .. Len(tickets) : tickets[t].state \in {"built", "sent", "ending"}}

\* Every span lies in the buffer and none is empty.
Fits ==
    /\ \A t \in 1 .. Len(tickets) : tickets[t].start + tickets[t].length <= Length
    /\ \A i \in 1 .. Len(queue) : /\ queue[i][2] >= 1
                                  /\ queue[i][1] + queue[i][2] <= Length

\* Once the chunk size is read there is a chunk to build.
Building == pc = "build" => /\ ~failure /\ Len(issued) < Depth
                            /\ queue # <<>> \/ next < Length

\* A ticket has its answer once its request has ended, and only a dropped call
\* abandons one.
Answers ==
    \A t \in 1 .. Len(tickets) :
      /\ tickets[t].state \in {"built", "sent"} <=> tickets[t].answer = "none"
      /\ pc # "dropped" => tickets[t].answer # "abandoned"

\* A call that has not been dropped awaits every chunk whose hook is not over,
\* and returns with none to await; a dropped one has left none unsent.
Awaited ==
    /\ pc # "dropped" => \A t \in 1 .. Len(tickets) :
         tickets[t].state # "done" => \E i \in 1 .. Len(issued) : issued[i] = t
    /\ pc \in {"ok", "failed"} => issued = <<>>
    /\ pc = "dropped" =>
         \A t \in 1 .. Len(tickets) : tickets[t].state # "built"

\* The guard outlives the loop, and the prefix is final only once the guard has
\* gone and the group is empty.
Guarded ==
    /\ outstanding = Cardinality(Live)
    /\ issuing # "held" => ~Looping
    /\ finalPrefix # NotFinal => issuing # "held" /\ Live = {}

\* What is recorded is a list in order, of bytes that reached the file.
InOrder == Canonical(covered) /\ Bytes(covered) \subseteq landed

InChunk(i, o) == o \in Remaining(tickets[issued[i]])
InQueue(i, o) == o \in Offsets(queue[i])

\* The byte at offset o has one place.
Placed(o) ==
    \/ /\ o \in Bytes(covered) /\ o < next
       /\ \A i \in 1 .. Len(issued) : ~InChunk(i, o)
       /\ \A i \in 1 .. Len(queue) : ~InQueue(i, o)
    \/ /\ o \notin Bytes(covered) /\ o >= next
       /\ \A i \in 1 .. Len(issued) : ~InChunk(i, o)
       /\ \A i \in 1 .. Len(queue) : ~InQueue(i, o)
    \/ /\ o \notin Bytes(covered) /\ o < next
       /\ \E i \in 1 .. Len(issued) : \A k \in 1 .. Len(issued) : InChunk(k, o) <=> k = i
       /\ \A i \in 1 .. Len(queue) : ~InQueue(i, o)
    \/ /\ o \notin Bytes(covered) /\ o < next
       /\ \A i \in 1 .. Len(issued) : ~InChunk(i, o)
       /\ \E i \in 1 .. Len(queue) : \A k \in 1 .. Len(queue) : InQueue(k, o) <=> k = i

Parts == Looping /\ ~failure => \A o \in 0 .. Length - 1 : Placed(o)

Inv == /\ TypeOK /\ Fits /\ Building /\ Answers /\ Awaited /\ Guarded
       /\ InOrder /\ Parts

-----------------------------------------------------------------------------
(* Facts about a state. *)

\* The types, element by element.
LEMMA Facts ==
    ASSUME Inv
    PROVE  /\ Len(tickets) \in Nat /\ Len(issued) \in Nat /\ Len(queue) \in Nat
           /\ tickets \in Seq(Ticket) /\ queue \in Seq(Span)
           /\ issued \in Seq(1 .. Len(tickets))
           /\ \A t \in 1 .. Len(tickets) : tickets[t] \in Ticket
           /\ \A i \in 1 .. Len(issued) : issued[i] \in 1 .. Len(tickets)
           /\ \A i \in 1 .. Len(queue) :
                queue[i][1] \in 0 .. Length /\ queue[i][2] \in 0 .. Length
           /\ covered \in Ranges
  <1>1. /\ tickets \in Seq(Ticket) /\ queue \in Seq(Span)
        /\ issued \in Seq(1 .. Len(tickets)) /\ covered \in Seq(Nat \X Nat)
    BY DEF Inv, TypeOK
  <1>2. \A i \in 1 .. Len(queue) : queue[i] \in Span
    BY <1>1
  <1> QED
    BY <1>1, <1>2 DEF Ranges, Pair, Span

\* The fields of a ticket.
LEMMA TicketFields ==
    ASSUME NEW ticket \in Ticket
    PROVE  /\ ticket.start \in 0 .. Length /\ ticket.length \in 1 .. Length
           /\ ticket.large \in BOOLEAN /\ ticket.count \in 0 .. Length + 1
           /\ ticket.state \in {"built", "sent", "ending", "left", "done"}
           /\ ticket.answer \in {"none", "taken", "refused", "error", "abandoned"}
  BY DEF Ticket

\* What a chunk stands for: its span, less what was taken.
LEMMA RemainingIs ==
    ASSUME NEW ticket \in Ticket, NEW o \in Nat
    PROVE  o \in Remaining(ticket) <=>
             /\ ticket.start <= o /\ o < ticket.start + ticket.length
             /\ ticket.answer = "taken" => ticket.start + ticket.count <= o
  <1>1. /\ ticket.start \in Nat /\ ticket.length \in Nat /\ ticket.count \in Nat
    BY TicketFields, ChunkAssumption
  <1>2. Min({ticket.count, ticket.length})
          = IF ticket.count <= ticket.length THEN ticket.count ELSE ticket.length
    BY <1>1, MinOfTwo
  <1>3. CASE ticket.answer = "taken"
    <2>1. Remaining(ticket)
            = Offsets(<<ticket.start + Min({ticket.count, ticket.length}),
                        ticket.length - Min({ticket.count, ticket.length})>>)
      BY <1>3 DEF Remaining
    <2> QED
      BY SMTT(40), <1>1, <1>2, <1>3, <2>1 DEF Offsets
  <1>4. CASE ticket.answer # "taken"
    <2>1. Remaining(ticket) = Offsets(<<ticket.start + 0, ticket.length - 0>>)
      BY <1>4 DEF Remaining
    <2> QED
      BY <1>1, <1>4, <2>1 DEF Offsets
  <1> QED
    BY <1>3, <1>4

\* The tickets are finitely many.
LEMMA LiveFinite ==
    ASSUME Inv
    PROVE  IsFiniteSet(Live) /\ Cardinality(Live) \in Nat
  <1>1. IsFiniteSet(1 .. Len(tickets)) /\ Live \in SUBSET (1 .. Len(tickets))
    BY Facts, FS_Interval DEF Live
  <1> QED
    BY <1>1, FS_Subset, FS_CardinalityType

\* The recorded prefix lies in the buffer.
LEMMA PrefixFits ==
    ASSUME Inv
    PROVE  /\ Prefix(covered) \in 0 .. Length
           /\ Settle \in -1 .. Length
  <1>1. covered \in Ranges /\ Canonical(covered) /\ Bytes(covered) \subseteq 0 .. Length - 1
    BY Facts DEF Inv, InOrder, TypeOK
  <1>2. /\ Prefix(covered) \in Nat /\ 0 .. Prefix(covered) - 1 \subseteq Bytes(covered)
    BY <1>1, PrefixIs
  <1>3. Prefix(covered) <= Length
    <2>1. CASE Prefix(covered) = 0
      BY <2>1, ChunkAssumption
    <2>2. CASE Prefix(covered) > 0
      <3>1. Prefix(covered) - 1 \in 0 .. Prefix(covered) - 1
        BY <1>2, <2>2
      <3>2. Prefix(covered) - 1 \in 0 .. Length - 1
        BY <1>1, <1>2, <3>1
      <3> QED
        BY <1>2, <3>2, ChunkAssumption
    <2> QED
      BY <1>2, <2>1, <2>2
  <1> QED
    BY <1>2, <1>3, ChunkAssumption DEF Settle, Inv, TypeOK

\* A byte keeps its place while nothing it depends on moves.
LEMMA PartsKept ==
    ASSUME Inv, UNCHANGED <<queue, next, issued, covered>>,
           Looping' /\ ~failure' => Looping /\ ~failure,
           \A t \in 1 .. Len(tickets) : Remaining(tickets'[t]) = Remaining(tickets[t])
    PROVE  Parts'
  <1>1. \A i \in 1 .. Len(issued) :
          Remaining(tickets'[issued[i]]) = Remaining(tickets[issued[i]])
    BY Facts
  <1>2. ASSUME NEW o \in 0 .. Length - 1, Placed(o) PROVE Placed(o)'
    BY <1>1, <1>2 DEF Placed, InChunk, InQueue
  <1> QED
    BY <1>2 DEF Parts, Inv

\* The group is what it was while no ticket enters or leaves it.
LEMMA LiveSame ==
    ASSUME Len(tickets') = Len(tickets),
           \A t \in 1 .. Len(tickets) :
             tickets'[t].state \in {"built", "sent", "ending"}
               <=> tickets[t].state \in {"built", "sent", "ending"}
    PROVE  Live' = Live
  BY DEF Live

\* The first state.
LEMMA InitInv == Init => Inv
  <1> SUFFICES ASSUME Init PROVE Inv
    OBVIOUS
  <1> USE DEF Init
  <1>1. Len(tickets) = 0 /\ Len(issued) = 0 /\ Len(queue) = 0 /\ Len(covered) = 0
    OBVIOUS
  <1>2. TypeOK
    <2>1. /\ tickets \in Seq(Ticket) /\ queue \in Seq(Span)
          /\ issued \in Seq(1 .. Len(tickets)) /\ covered \in Seq(Nat \X Nat)
      BY EmptySeq
    <2>2. Len(issued) <= Depth /\ NotFinal \in -1 .. Length
      BY <1>1, ChunkAssumption DEF NotFinal
    <2>3. 0 \in 0 .. Length
      BY ChunkAssumption
    <2> QED
      BY <2>1, <2>2, <2>3 DEF TypeOK
  <1>3. Live = {} /\ Cardinality(Live) = 0
    BY <1>1, FS_EmptySet DEF Live
  <1>4. covered \in Ranges
    BY DEF Ranges
  <1>5. Bytes(covered) = {}
    BY <1>1, <1>4, BytesIn
  <1>6. InOrder
    BY <1>1, <1>5 DEF InOrder, Canonical
  <1>7. Parts
    BY <1>1, <1>5 DEF Parts, Placed
  <1>8. Fits /\ Building /\ Answers /\ Awaited /\ Guarded
    BY <1>1, <1>3 DEF Fits, Building, Answers, Awaited, Guarded, Looping
  <1> QED
    BY <1>2, <1>6, <1>7, <1>8 DEF Inv

-----------------------------------------------------------------------------
(* The call. *)

\* A step of the call, or of another operation, that touches neither the chunks
\* nor the handle.
LEMMA CallInv ==
    ASSUME Inv, Measure \/ Wait \/ Return \/ OtherDowngrades \/ UNCHANGED vars
    PROVE  Inv'
  <1>1. UNCHANGED <<queue, next, issued, failure, tickets, covered, outstanding,
                    issuing, finalPrefix, landed>>
    BY DEF Measure, Wait, Return, OtherDowngrades, vars, callVars, handleVars
  <1>2. /\ pc' \in {"fill", "build", "await", "ok", "failed", "dropped"}
        /\ size' \in {LargeSize, SmallSize} /\ downgraded' \in BOOLEAN
    BY DEF Measure, Wait, Return, OtherDowngrades, vars, callVars, ChunkSize,
           Inv, TypeOK
  <1>3. Written \in -1 .. Length
    BY PrefixFits DEF Written, Inv, TypeOK
  <1>4. reported' \in -1 .. Length
    BY <1>3 DEF Measure, Wait, Return, OtherDowngrades, vars, callVars, Inv, TypeOK
  <1>5. TypeOK'
    BY <1>1, <1>2, <1>4 DEF Inv, TypeOK
  <1>6. Live' = Live
    BY <1>1 DEF Live
  <1>7. \/ pc' = pc
        \/ pc = "fill" /\ Wants /\ pc' = "build"
        \/ pc = "fill" /\ pc' = "await"
        \/ pc = "fill" /\ issued = <<>> /\ pc' \in {"ok", "failed"}
    BY DEF Measure, Wait, Return, OtherDowngrades, vars, callVars
  <1>8. Fits' /\ InOrder'
    BY <1>1 DEF Inv, Fits, InOrder
  <1>9. Building'
    BY <1>1, <1>7 DEF Inv, Building, Wants
  <1>10. Answers' /\ Awaited'
    BY <1>1, <1>7 DEF Inv, Answers, Awaited
  <1>11. Guarded'
    BY <1>1, <1>6, <1>7 DEF Inv, Guarded, Looping
  <1>12. Parts'
    BY <1>1, <1>7, PartsKept DEF Looping
  <1> QED
    BY <1>5, <1>8, <1>9, <1>10, <1>11, <1>12 DEF Inv

-----------------------------------------------------------------------------
(* The tickets. *)

\* A function on 1 .. n is a sequence of length n.
LEMMA SeqIntro ==
    ASSUME NEW S, NEW n \in Nat, NEW f \in [1 .. n -> S]
    PROVE  f \in Seq(S) /\ Len(f) = n
  BY SeqDef

\* Two tickets of one span that differ in no count taken.
LEMMA RemainingSame ==
    ASSUME NEW a \in Ticket, NEW b \in Ticket, a.start = b.start,
           a.length = b.length, a.answer # "taken", b.answer # "taken"
    PROVE  Remaining(a) = Remaining(b)
  BY DEF Remaining

\* One ticket changes and keeps its span.
LEMMA OneTicket ==
    ASSUME Inv, NEW t \in 1 .. Len(tickets), NEW new \in Ticket,
           new.start = tickets[t].start, new.length = tickets[t].length,
           tickets' = [tickets EXCEPT ![t] = new]
    PROVE  /\ tickets' \in Seq(Ticket) /\ Len(tickets') = Len(tickets)
           /\ tickets'[t] = new
           /\ \A u \in 1 .. Len(tickets) : u # t => tickets'[u] = tickets[u]
           /\ \A u \in 1 .. Len(tickets) : /\ tickets'[u].start = tickets[u].start
                                           /\ tickets'[u].length = tickets[u].length
  <1>1. tickets \in Seq(Ticket)
    BY Facts
  <1>2. /\ tickets' \in Seq(Ticket) /\ Len(tickets') = Len(tickets)
        /\ \A u \in 1 .. Len(tickets) :
             tickets'[u] = IF u = t THEN new ELSE tickets[u]
    BY <1>1, ExceptSeq
  <1> QED
    BY <1>2

\* Spans stay where they are while tickets keep theirs and nothing is queued.
LEMMA FitsSame ==
    ASSUME Inv, UNCHANGED queue, Len(tickets') = Len(tickets),
           \A u \in 1 .. Len(tickets) : /\ tickets'[u].start = tickets[u].start
                                        /\ tickets'[u].length = tickets[u].length
    PROVE  Fits'
  BY DEF Inv, Fits

\* Chunk::leave, and the settling after it.
LEMMA LeaveInv ==
    ASSUME Inv, NEW t \in 1 .. Len(tickets), Leave(t)
    PROVE  Inv'
  <1> DEFINE new == [tickets[t] EXCEPT !.state = "left"]
  <1>1. /\ tickets[t].state = "ending" /\ tickets' = [tickets EXCEPT ![t] = new]
        /\ outstanding' = outstanding - 1
        /\ UNCHANGED <<pc, size, queue, next, issued, failure, reported, covered,
                       issuing, finalPrefix, downgraded, landed>>
    BY DEF Leave, callVars
  <1>2. /\ new \in Ticket /\ new.start = tickets[t].start
        /\ new.length = tickets[t].length /\ new.state = "left"
        /\ new.answer = tickets[t].answer /\ new.count = tickets[t].count
    BY Facts DEF Ticket
  <1> HIDE DEF new
  <1>3. /\ tickets' \in Seq(Ticket) /\ Len(tickets') = Len(tickets)
        /\ tickets'[t] = new
        /\ \A u \in 1 .. Len(tickets) : u # t => tickets'[u] = tickets[u]
        /\ \A u \in 1 .. Len(tickets) : /\ tickets'[u].start = tickets[u].start
                                        /\ tickets'[u].length = tickets[u].length
    BY <1>1, <1>2, OneTicket
  <1>4. t \in Live /\ Live' = Live \ {t}
    BY <1>1, <1>2, <1>3 DEF Live
  <1>5. Cardinality(Live') = Cardinality(Live) - 1 /\ Cardinality(Live') \in Nat
    <2>1. IsFiniteSet(Live) /\ Cardinality(Live) \in Nat
      BY LiveFinite
    <2>2. IsFiniteSet(Live \ {t}) /\ Cardinality(Live \ {t}) = Cardinality(Live) - 1
      BY <1>4, <2>1, FS_RemoveElement
    <2> QED
      BY <1>4, <2>2, FS_CardinalityType
  <1>6. Guarded' /\ outstanding' \in Nat
    BY <1>1, <1>4, <1>5 DEF Inv, Guarded, Looping
  <1>7. TypeOK'
    BY <1>1, <1>3, <1>6 DEF Inv, TypeOK
  <1>8. Fits' /\ InOrder' /\ Building'
    BY <1>1, <1>3, FitsSame DEF Inv, InOrder, Building
  <1>9. Answers' /\ Awaited'
    BY <1>1, <1>2, <1>3 DEF Inv, Answers, Awaited
  <1>10. \A u \in 1 .. Len(tickets) : Remaining(tickets'[u]) = Remaining(tickets[u])
    BY <1>2, <1>3 DEF Remaining
  <1>11. Parts'
    BY <1>1, <1>10, PartsKept DEF Looping
  <1> QED
    BY <1>6, <1>7, <1>8, <1>9, <1>11 DEF Inv

\* Settling says the prefix is final only when the guard has gone and the group is
\* empty.
LEMMA SettleIs ==
    ASSUME Inv, Settle # NotFinal
    PROVE  issuing # "held" /\ Live = {}
  <1>1. CASE finalPrefix # NotFinal
    BY <1>1 DEF Inv, Guarded
  <1>2. CASE finalPrefix = NotFinal
    <2>1. issuing # "held" /\ ~(outstanding > 0)
      BY <1>2 DEF Settle
    <2>2. Cardinality(Live) = 0
      BY <2>1 DEF Inv, Guarded, TypeOK
    <2> QED
      BY <2>1, <2>2, LiveFinite, FS_EmptySet
  <1> QED
    BY <1>1, <1>2

\* Chunk::leave settles, after the ticket has left the group.
LEMMA SettleChunkInv ==
    ASSUME Inv, NEW t \in 1 .. Len(tickets), SettleChunk(t)
    PROVE  Inv'
  <1> DEFINE new == [tickets[t] EXCEPT !.state = "done"]
  <1>1. /\ tickets[t].state = "left" /\ tickets' = [tickets EXCEPT ![t] = new]
        /\ finalPrefix' = Settle
        /\ UNCHANGED <<pc, size, queue, next, issued, failure, reported, covered,
                       issuing, outstanding, downgraded, landed>>
    BY DEF SettleChunk, callVars
  <1>2. /\ new \in Ticket /\ new.start = tickets[t].start
        /\ new.length = tickets[t].length /\ new.state = "done"
        /\ new.answer = tickets[t].answer /\ new.count = tickets[t].count
    BY Facts DEF Ticket
  <1> HIDE DEF new
  <1>3. /\ tickets' \in Seq(Ticket) /\ Len(tickets') = Len(tickets)
        /\ tickets'[t] = new
        /\ \A u \in 1 .. Len(tickets) : u # t => tickets'[u] = tickets[u]
        /\ \A u \in 1 .. Len(tickets) : /\ tickets'[u].start = tickets[u].start
                                        /\ tickets'[u].length = tickets[u].length
    BY <1>1, <1>2, OneTicket
  <1>4. Live' = Live
    BY <1>1, <1>2, <1>3, LiveSame
  <1>5. Guarded'
    BY <1>1, <1>4, SettleIs DEF Inv, Guarded, Looping
  <1>6. TypeOK'
    BY <1>1, <1>3, PrefixFits DEF Inv, TypeOK
  <1>7. Fits' /\ InOrder' /\ Building'
    BY <1>1, <1>3, FitsSame DEF Inv, InOrder, Building
  <1>8. Answers' /\ Awaited'
    BY <1>1, <1>2, <1>3 DEF Inv, Answers, Awaited
  <1>9. \A u \in 1 .. Len(tickets) : Remaining(tickets'[u]) = Remaining(tickets[u])
    BY <1>2, <1>3 DEF Remaining
  <1>10. Parts'
    BY <1>1, <1>9, PartsKept DEF Looping
  <1> QED
    BY <1>5, <1>6, <1>7, <1>8, <1>10 DEF Inv

\* The guard goes once the call is over.
LEMMA GuardInv ==
    ASSUME Inv, ReleaseGuard \/ SettleGuard
    PROVE  Inv'
  <1>1. UNCHANGED <<pc, size, queue, next, issued, failure, reported, tickets,
                    covered, outstanding, downgraded, landed>>
    BY DEF ReleaseGuard, SettleGuard, callVars
  <1>2. issuing' \in {"released", "gone"} /\ finalPrefix' \in {finalPrefix, Settle}
    BY DEF ReleaseGuard, SettleGuard
  <1>3. ~Looping
    BY DEF ReleaseGuard, SettleGuard, Looping, Inv, Guarded
  <1>4. TypeOK'
    BY <1>1, <1>2, PrefixFits DEF Inv, TypeOK
  <1>5. Live' = Live
    BY <1>1 DEF Live
  <1>6. Guarded'
    BY <1>1, <1>2, <1>3, <1>5, SettleIs DEF Inv, Guarded, Looping
  <1>7. Fits' /\ InOrder' /\ Building' /\ Answers' /\ Awaited'
    BY <1>1 DEF Inv, Fits, InOrder, Building, Answers, Awaited
  <1>8. Parts'
    BY <1>1, <1>3 DEF Parts, Looping
  <1> QED
    BY <1>4, <1>6, <1>7, <1>8 DEF Inv

-----------------------------------------------------------------------------
(* The actor ends a request. *)

\* What every end of a request leaves true but for where its bytes are.
LEMMA EndsInv ==
    ASSUME Inv, NEW t \in 1 .. Len(tickets), NEW new \in Ticket,
           tickets[t].state = "sent", tickets' = [tickets EXCEPT ![t] = new],
           new.start = tickets[t].start, new.length = tickets[t].length,
           new.state = "ending", new.answer \in {"taken", "refused", "error"},
           UNCHANGED <<callVars, outstanding, issuing, finalPrefix, downgraded>>,
           covered' \in Ranges, InOrder', landed' \in SUBSET (0 .. Length - 1),
           Parts'
    PROVE  Inv'
  <1> USE DEF callVars
  <1>1. /\ tickets' \in Seq(Ticket) /\ Len(tickets') = Len(tickets)
        /\ tickets'[t] = new
        /\ \A u \in 1 .. Len(tickets) : u # t => tickets'[u] = tickets[u]
        /\ \A u \in 1 .. Len(tickets) : /\ tickets'[u].start = tickets[u].start
                                        /\ tickets'[u].length = tickets[u].length
    BY OneTicket
  <1>2. Live' = Live
    BY <1>1, LiveSame
  <1>3. Guarded'
    BY <1>2 DEF Inv, Guarded, Looping
  <1>4. TypeOK'
    BY <1>1 DEF Inv, TypeOK, Ranges, Pair
  <1>5. Fits'
    BY <1>1, FitsSame
  <1>6. Building'
    BY DEF Inv, Building
  <1>7. Answers'
    BY <1>1 DEF Inv, Answers
  <1>8. Awaited'
    BY <1>1 DEF Inv, Awaited
  <1> QED
    BY <1>3, <1>4, <1>5, <1>6, <1>7, <1>8 DEF Inv

\* A request that ends without being acknowledged.
LEMMA NotTakenInv ==
    ASSUME Inv, NEW t \in 1 .. Len(tickets), RefusesSize(t) \/ Errs(t)
    PROVE  Inv'
  <1>1. /\ tickets[t].state = "sent" /\ UNCHANGED <<callVars, handleVars, downgraded>>
    BY DEF RefusesSize, Errs
  <1>2. tickets[t] \in Ticket /\ tickets \in Seq(Ticket)
    BY Facts
  <1>3. PICK answer \in {"refused", "error"} :
          tickets' = [tickets EXCEPT ![t] = [tickets[t] EXCEPT !.state = "ending",
                                                               !.answer = answer]]
    BY DEF RefusesSize, Errs
  <1> DEFINE new == [tickets[t] EXCEPT !.state = "ending", !.answer = answer]
  <1>4. /\ tickets' = [tickets EXCEPT ![t] = new]
        /\ new \in Ticket /\ new.start = tickets[t].start
        /\ new.length = tickets[t].length /\ new.state = "ending"
        /\ new.answer \in {"refused", "error"}
    BY <1>2, <1>3 DEF Ticket
  <1> HIDE DEF new
  <1>5. /\ tickets'[t] = new
        /\ \A u \in 1 .. Len(tickets) : u # t => tickets'[u] = tickets[u]
    BY <1>4, OneTicket
  <1>6. landed \subseteq landed' /\ landed' \in SUBSET (0 .. Length - 1)
    <2>1. CASE RefusesSize(t)
      BY <2>1 DEF RefusesSize, Inv, TypeOK
    <2>2. CASE Errs(t)
      <3>1. PICK n \in 0 .. tickets[t].length :
              landed' = landed \cup Offsets(<<tickets[t].start, n>>)
        BY <2>2 DEF Errs
      <3>2. /\ tickets[t].start \in Nat /\ tickets[t].length \in Nat
            /\ tickets[t].start + tickets[t].length <= Length
        BY SMTT(40), <1>2, TicketFields, ChunkAssumption DEF Inv, Fits
      <3>3. Offsets(<<tickets[t].start, n>>) \subseteq 0 .. Length - 1
        BY <3>2, ChunkAssumption DEF Offsets
      <3> QED
        BY <3>1, <3>3 DEF Inv, TypeOK
    <2> QED
      BY <2>1, <2>2
  <1>7. covered' \in Ranges /\ InOrder'
    BY <1>1, <1>6, Facts DEF Inv, InOrder, handleVars
  <1>8. tickets[t].answer = "none"
    BY <1>1 DEF Inv, Answers
  <1>9. Remaining(new) = Remaining(tickets[t])
    BY <1>2, <1>4, <1>8, RemainingSame
  <1>10. \A u \in 1 .. Len(tickets) : Remaining(tickets'[u]) = Remaining(tickets[u])
    BY <1>5, <1>9
  <1>11. Parts'
    BY <1>1, <1>10, PartsKept DEF Looping, callVars, handleVars
  <1> QED
    BY <1>1, <1>4, <1>6, <1>7, <1>11, EndsInv DEF handleVars

\* What a SUCCESS reply records: the first bytes of the chunk, as many as it
\* acknowledges and never more than it was sent.
LEMMA TakenIs ==
    ASSUME Inv, NEW t \in 1 .. Len(tickets), NEW count \in 0 .. Length + 1,
           Taken(t, count)
    PROVE  LET start == tickets[t].start
               length == tickets[t].length
               n == IF count <= length THEN count ELSE length
               span == start .. start + n - 1
           IN  /\ span \subseteq 0 .. Length - 1
               /\ landed' = landed \cup span
               /\ covered' \in Ranges /\ Canonical(covered')
               /\ \/ Bytes(covered) \cap span # {} /\ covered' = covered
                  \/ /\ Bytes(covered) \cap span = {}
                     /\ Bytes(covered') = Bytes(covered) \cup span
  <1> DEFINE start == tickets[t].start
             length == tickets[t].length
             n == IF count <= length THEN count ELSE length
             span == start .. start + n - 1
  <1>1. /\ start \in Nat /\ length \in Nat /\ start + length <= Length /\ n \in Nat
        /\ n <= length /\ count \in Nat
    BY Facts, TicketFields, ChunkAssumption DEF Inv, Fits
  <1>2. Recorded(tickets[t], count) = n /\ Min({count, length}) = n
    BY <1>1, MinOfTwo DEF Recorded
  <1>3. span \subseteq 0 .. Length - 1
    BY SMTT(40), <1>1, ChunkAssumption
  <1>4. landed' = landed \cup Offsets(<<start, n>>)
    BY <1>2 DEF Taken
  <1>5. covered' = IF Overlaps(covered, start, n) THEN covered
                   ELSE Cover(covered, start, n)
    BY <1>2 DEF Taken
  <1>6. Offsets(<<start, n>>) = span
    BY DEF Offsets
  <1>7. covered \in Ranges /\ Canonical(covered)
    BY Facts DEF Inv, InOrder
  <1> HIDE DEF n, start, length
  <1>8. Overlaps(covered, start, n) <=> Bytes(covered) \cap span # {}
    BY <1>1, <1>7, OverlapsIs
  <1>9. CASE Overlaps(covered, start, n)
    BY <1>3, <1>4, <1>5, <1>6, <1>7, <1>8, <1>9 DEF n, start, length
  <1>10. CASE ~Overlaps(covered, start, n)
    <2>1. /\ covered' \in Ranges /\ Canonical(covered')
          /\ Bytes(covered') = Bytes(covered) \cup span
      BY <1>1, <1>5, <1>7, <1>10, CoverIs
    <2> QED
      BY <1>3, <1>4, <1>6, <1>8, <1>10, <2>1 DEF n, start, length
  <1> QED
    BY <1>9, <1>10

\* The bytes acknowledged move from the chunk to the record, and no others.
LEMMA TakenInv ==
    ASSUME Inv, NEW t \in 1 .. Len(tickets), NEW count \in 0 .. Length + 1,
           Taken(t, count)
    PROVE  Inv'
  <1> DEFINE start == tickets[t].start
             length == tickets[t].length
             n == IF count <= length THEN count ELSE length
             span == start .. start + n - 1
             new == [tickets[t] EXCEPT !.state = "ending", !.answer = "taken",
                                       !.count = count]
  <1>1. /\ tickets[t].state = "sent" /\ tickets' = [tickets EXCEPT ![t] = new]
        /\ UNCHANGED <<callVars, outstanding, issuing, finalPrefix, downgraded>>
    BY DEF Taken
  <1>2. tickets[t] \in Ticket
    BY Facts
  <1>3. /\ new \in Ticket /\ new.start = start /\ new.length = length
        /\ new.state = "ending" /\ new.answer = "taken" /\ new.count = count
    BY <1>2 DEF Ticket
  <1> HIDE DEF new
  <1>4. /\ span \subseteq 0 .. Length - 1
        /\ landed' = landed \cup span
        /\ covered' \in Ranges /\ Canonical(covered')
        /\ \/ Bytes(covered) \cap span # {} /\ covered' = covered
           \/ /\ Bytes(covered) \cap span = {}
              /\ Bytes(covered') = Bytes(covered) \cup span
    BY TakenIs
  <1>5. InOrder' /\ landed' \in SUBSET (0 .. Length - 1)
    BY <1>4 DEF Inv, InOrder, TypeOK
  <1>6. /\ tickets'[t] = new
        /\ \A u \in 1 .. Len(tickets) : u # t => tickets'[u] = tickets[u]
    BY <1>1, <1>3, OneTicket
  <1>7. /\ start \in Nat /\ length \in Nat /\ count \in Nat /\ tickets[t].answer = "none"
    BY <1>1, <1>2, TicketFields, ChunkAssumption DEF Inv, Answers
  <1>8. ASSUME NEW o \in Nat
        PROVE  /\ o \in Remaining(tickets[t]) <=> start <= o /\ o < start + length
               /\ o \in Remaining(new) <=> o \in Remaining(tickets[t]) /\ o \notin span
               /\ o \in span => o \in Remaining(tickets[t])
    <2>1. o \in Remaining(tickets[t]) <=> start <= o /\ o < start + length
      BY <1>2, <1>7, RemainingIs
    <2>2. o \in Remaining(new) <=> start + count <= o /\ o < start + length
      BY <1>3, <1>7, RemainingIs
    <2> QED
      BY SMTT(40), <1>7, <2>1, <2>2
  <1> HIDE DEF span, n, start, length
  <1>9. Parts'
    <2> SUFFICES ASSUME Looping, ~failure, NEW o \in 0 .. Length - 1
                 PROVE  Placed(o)'
      BY <1>1 DEF Parts, Looping, callVars
    <2>1. \A b \in 0 .. Length - 1 : Placed(b)
      BY DEF Inv, Parts
    <2>2. PICK i \in 1 .. Len(issued) : issued[i] = t
      BY <1>1 DEF Inv, Awaited, Looping
    <2>3. ASSUME NEW b \in span PROVE b \notin Bytes(covered)
      <3>1. InChunk(i, b) /\ b \in 0 .. Length - 1
        BY <1>4, <1>8, <2>2, ChunkAssumption DEF InChunk
      <3> QED
        BY <2>1, <3>1 DEF Placed
    <2>4. Bytes(covered') = Bytes(covered) \cup span
      BY <1>4, <2>3
    <2>5. \A k \in 1 .. Len(issued) :
            InChunk(k, o)' <=> InChunk(k, o) /\ ~(issued[k] = t /\ o \in span)
      <3>1. SUFFICES ASSUME NEW k \in 1 .. Len(issued)
                     PROVE  o \in Remaining(tickets'[issued[k]]) <=>
                              /\ o \in Remaining(tickets[issued[k]])
                              /\ ~(issued[k] = t /\ o \in span)
        BY <1>1 DEF InChunk, callVars
      <3>2. issued[k] \in 1 .. Len(tickets) /\ o \in Nat
        BY Facts, ChunkAssumption
      <3> QED
        BY <1>6, <1>8, <3>2
    <2>6. \A k \in 1 .. Len(queue) : InQueue(k, o)' <=> InQueue(k, o)
      BY <1>1 DEF InQueue, callVars
    <2>7. UNCHANGED <<issued, queue, next>>
      BY <1>1 DEF callVars
    <2>8. CASE o \notin span
      <3>1. o \in Bytes(covered') <=> o \in Bytes(covered)
        BY <2>4, <2>8
      <3>2. \A k \in 1 .. Len(issued) : InChunk(k, o)' <=> InChunk(k, o)
        BY <2>5, <2>8
      <3>3. Placed(o)
        BY <2>1
      <3>4. \A k \in 1 .. Len(issued') :
              (o \in Remaining(tickets'[issued'[k]])) <=> InChunk(k, o)
        BY <2>7, <3>2 DEF InChunk
      <3>5. \A k \in 1 .. Len(queue') : (o \in Offsets(queue'[k])) <=> InQueue(k, o)
        BY <2>7 DEF InQueue
      <3> QED
        BY <2>7, <3>1, <3>3, <3>4, <3>5 DEF Placed, InChunk, InQueue
    <2>9. CASE o \in span
      <3>1. InChunk(i, o) /\ Placed(o)
        BY <1>8, <2>1, <2>2, <2>9, ChunkAssumption DEF InChunk
      <3>2. /\ o < next
            /\ \A k \in 1 .. Len(issued) : InChunk(k, o) => k = i
            /\ \A k \in 1 .. Len(queue) : ~InQueue(k, o)
        BY <3>1 DEF Placed
      <3>3. \A k \in 1 .. Len(issued) : ~InChunk(k, o)'
        BY <2>2, <2>5, <2>9, <3>2
      <3>4. o \in Bytes(covered')
        BY <2>4, <2>9
      <3> QED
        BY <2>6, <2>7, <3>2, <3>3, <3>4 DEF Placed
    <2> QED
      BY <2>8, <2>9
  <1> QED
    BY <1>1, <1>3, <1>4, <1>5, <1>9, EndsInv DEF start, length

-----------------------------------------------------------------------------
(* The call polls its chunks, and is dropped. *)

\* A poll that sends some chunks and takes no answer.
LEMMA SentUpToIs ==
    ASSUME Inv, NEW n \in 0 .. Len(issued)
    PROVE  /\ SentUpTo(n) \in Seq(Ticket) /\ Len(SentUpTo(n)) = Len(tickets)
           /\ \A t \in 1 .. Len(tickets) :
                /\ SentUpTo(n)[t].start = tickets[t].start
                /\ SentUpTo(n)[t].length = tickets[t].length
                /\ SentUpTo(n)[t].large = tickets[t].large
                /\ SentUpTo(n)[t].answer = tickets[t].answer
                /\ SentUpTo(n)[t].count = tickets[t].count
                /\ \/ SentUpTo(n)[t].state = tickets[t].state
                   \/ tickets[t].state = "built" /\ SentUpTo(n)[t].state = "sent"
  <1>1. /\ Len(tickets) \in Nat
        /\ \A t \in 1 .. Len(tickets) : tickets[t] \in Ticket
    BY Facts
  <1>2. \A t \in 1 .. Len(tickets) :
          LET new == [tickets[t] EXCEPT !.state = "sent"]
          IN  /\ new \in Ticket /\ new.start = tickets[t].start
              /\ new.length = tickets[t].length /\ new.large = tickets[t].large
              /\ new.answer = tickets[t].answer /\ new.count = tickets[t].count
              /\ new.state = "sent"
    BY <1>1 DEF Ticket
  <1>3. SentUpTo(n) \in [1 .. Len(tickets) -> Ticket]
    BY <1>1, <1>2 DEF SentUpTo
  <1>4. SentUpTo(n) \in Seq(Ticket) /\ Len(SentUpTo(n)) = Len(tickets)
    BY <1>1, <1>3, SeqIntro
  <1> QED
    BY <1>1, <1>2, <1>4 DEF SentUpTo

\* Polling every chunk sends the ones not yet sent.
LEMMA PollPendsInv ==
    ASSUME Inv, PollPends
    PROVE  Inv'
  <1>1. /\ pc = "await" /\ tickets' = SentUpTo(Len(issued))
        /\ UNCHANGED <<pc, size, queue, next, issued, failure, reported, covered,
                       outstanding, issuing, finalPrefix, downgraded, landed>>
    BY DEF PollPends, callVars, handleVars
  <1>2. Len(issued) \in 0 .. Len(issued)
    BY Facts
  <1>3. /\ tickets' \in Seq(Ticket) /\ Len(tickets') = Len(tickets)
        /\ \A t \in 1 .. Len(tickets) :
             /\ tickets'[t].start = tickets[t].start
             /\ tickets'[t].length = tickets[t].length
             /\ tickets'[t].answer = tickets[t].answer
             /\ tickets'[t].count = tickets[t].count
             /\ \/ tickets'[t].state = tickets[t].state
                \/ tickets[t].state = "built" /\ tickets'[t].state = "sent"
    BY <1>1, <1>2, SentUpToIs
  <1>4. Live' = Live
    BY <1>3, LiveSame
  <1>5. Guarded'
    BY <1>1, <1>4 DEF Inv, Guarded, Looping
  <1>6. TypeOK'
    BY <1>1, <1>3 DEF Inv, TypeOK
  <1>7. Fits' /\ InOrder' /\ Building'
    BY <1>1, <1>3, FitsSame DEF Inv, InOrder, Building
  <1>8. Answers' /\ Awaited'
    BY <1>1, <1>3 DEF Inv, Answers, Awaited
  <1>9. \A t \in 1 .. Len(tickets) : Remaining(tickets'[t]) = Remaining(tickets[t])
    BY <1>3 DEF Remaining
  <1>10. Parts'
    BY <1>1, <1>9, PartsKept DEF Looping
  <1> QED
    BY <1>5, <1>6, <1>7, <1>8, <1>10 DEF Inv

\* The call is dropped: each chunk not handed over leaves through its own Drop.
LEMMA CancelInv ==
    ASSUME Inv, Cancel
    PROVE  Inv'
  <1>1. PICK lost \in SUBSET {t \in 1 .. Len(tickets) : tickets[t].state = "sent"} :
          tickets' = [t \in 1 .. Len(tickets) |->
                        IF tickets[t].state = "built" \/ t \in lost
                        THEN [tickets[t] EXCEPT !.state = "ending",
                                                !.answer = "abandoned"]
                        ELSE tickets[t]]
    BY DEF Cancel
  <1>2. /\ pc = "await" /\ pc' = "dropped"
        /\ UNCHANGED <<size, queue, next, issued, failure, reported, covered,
                       outstanding, issuing, finalPrefix, downgraded, landed>>
    BY DEF Cancel, handleVars
  <1>3. /\ Len(tickets) \in Nat
        /\ \A t \in 1 .. Len(tickets) : tickets[t] \in Ticket
    BY Facts
  <1>4. \A t \in 1 .. Len(tickets) :
          LET new == [tickets[t] EXCEPT !.state = "ending", !.answer = "abandoned"]
          IN  /\ new \in Ticket /\ new.start = tickets[t].start
              /\ new.length = tickets[t].length
              /\ new.answer = "abandoned" /\ new.state = "ending"
    BY <1>3 DEF Ticket
  <1>5. tickets' \in [1 .. Len(tickets) -> Ticket]
    BY <1>1, <1>3, <1>4
  <1>6. tickets' \in Seq(Ticket) /\ Len(tickets') = Len(tickets)
    BY <1>3, <1>5, SeqIntro
  <1>7. \A t \in 1 .. Len(tickets) :
          /\ tickets'[t].start = tickets[t].start
          /\ tickets'[t].length = tickets[t].length
          /\ \/ /\ tickets'[t].state = tickets[t].state /\ tickets[t].state # "built"
                /\ tickets'[t].answer = tickets[t].answer
             \/ /\ tickets[t].state \in {"built", "sent"}
                /\ tickets'[t].state = "ending"
                /\ tickets'[t].answer = "abandoned"
    BY <1>1, <1>4
  <1>8. Live' = Live
    BY <1>6, <1>7, LiveSame
  <1>9. Guarded'
    BY <1>2, <1>8 DEF Inv, Guarded, Looping
  <1>10. TypeOK'
    BY <1>2, <1>6 DEF Inv, TypeOK
  <1>11. Fits' /\ InOrder' /\ Building'
    BY <1>2, <1>6, <1>7, FitsSame DEF Inv, InOrder, Building
  <1>12. Answers' /\ Awaited'
    BY <1>2, <1>6, <1>7 DEF Inv, Answers, Awaited
  <1>13. Parts'
    BY <1>2 DEF Parts, Looping
  <1> QED
    BY <1>9, <1>10, <1>11, <1>12, <1>13 DEF Inv

\* acknowledge(): the span queued again is what the chunk has left, and a chunk
\* that fails nothing and queues nothing has nothing left.
LEMMA AgainIs ==
    ASSUME NEW ticket \in Ticket, ticket.start + ticket.length <= Length
    PROVE  \/ /\ Again(ticket) = <<>>
              /\ ticket.answer \in {"taken", "refused"} /\ ~Fails(ticket)
                   => \A o \in Nat : o \notin Remaining(ticket)
           \/ \E span \in Span :
                /\ Again(ticket) = <<span>>
                /\ span[2] >= 1 /\ span[1] + span[2] <= Length
                /\ \A o \in Nat : o \in Offsets(span) <=> o \in Remaining(ticket)
  <1>1. /\ ticket.start \in 0 .. Length /\ ticket.length \in 1 .. Length
        /\ ticket.count \in 0 .. Length + 1 /\ Length \in Nat
    BY TicketFields, ChunkAssumption
  <1>2. CASE ticket.answer = "refused" /\ ticket.large
    <2> DEFINE span == <<ticket.start, ticket.length>>
    <2>1. Again(ticket) = <<span>>
      BY <1>2 DEF Again
    <2>2. span \in Span /\ span[2] >= 1 /\ span[1] + span[2] <= Length
      BY <1>1 DEF Span
    <2>3. \A o \in Nat : o \in Offsets(span) <=> o \in Remaining(ticket)
      BY <1>1, <1>2, RemainingIs DEF Offsets
    <2> QED
      BY <2>1, <2>2, <2>3
  <1>3. CASE ticket.answer = "taken" /\ ticket.count \in 1 .. ticket.length - 1
    <2> DEFINE span == <<ticket.start + ticket.count, ticket.length - ticket.count>>
    <2>1. Again(ticket) = <<span>>
      BY <1>3 DEF Again
    <2>2. span \in Span /\ span[2] >= 1 /\ span[1] + span[2] <= Length
      BY <1>1, <1>3 DEF Span
    <2>3. \A o \in Nat : o \in Offsets(span) <=> o \in Remaining(ticket)
      BY <1>1, <1>3, RemainingIs DEF Offsets
    <2> QED
      BY <2>1, <2>2, <2>3
  <1>4. CASE /\ ~(ticket.answer = "refused" /\ ticket.large)
             /\ ~(ticket.answer = "taken" /\ ticket.count \in 1 .. ticket.length - 1)
    <2>1. Again(ticket) = <<>>
      BY <1>4 DEF Again
    <2>2. ASSUME ticket.answer \in {"taken", "refused"}, ~Fails(ticket), NEW o \in Nat
          PROVE  o \notin Remaining(ticket)
      <3>1. ticket.answer = "taken" /\ ticket.count >= ticket.length
        BY <1>1, <1>4, <2>2 DEF Fails
      <3> QED
        BY <1>1, <3>1, RemainingIs
    <2> QED
      BY <2>1, <2>2
  <1> QED
    BY <1>2, <1>3, <1>4

\* An answer is taken: what the chunk has left goes back on the queue.
LEMMA PollTakesInv ==
    ASSUME Inv, PollTakes
    PROVE  Inv'
  <1> DEFINE i == Min(Answered)
             ticket == tickets[issued[i]]
  <1>1. /\ pc = "await" /\ pc' = "fill" /\ Answered # {}
        /\ tickets' = SentUpTo(i - 1) /\ issued' = RemoveAt(issued, i)
        /\ queue' = queue \o Again(ticket)
        /\ failure' = (failure \/ Fails(ticket))
        /\ downgraded' = (downgraded \/ ticket.answer = "refused")
        /\ UNCHANGED <<size, next, reported, covered, outstanding, issuing,
                       finalPrefix, landed>>
    BY DEF PollTakes, handleVars
  <1>2. i \in Answered
    <2>1. Answered \in SUBSET Nat
      BY Facts DEF Answered
    <2> QED
      BY <1>1, <2>1, MinIs
  <1>3. /\ i \in 1 .. Len(issued) /\ i - 1 \in 0 .. Len(issued)
        /\ issued[i] \in 1 .. Len(tickets) /\ ticket.state = "done"
        /\ ticket \in Ticket /\ ticket.start + ticket.length <= Length
    BY <1>2, Facts DEF Answered, Inv, Fits
  <1> HIDE DEF i
  <1>4. /\ tickets' \in Seq(Ticket) /\ Len(tickets') = Len(tickets)
        /\ \A t \in 1 .. Len(tickets) :
             /\ tickets'[t].start = tickets[t].start
             /\ tickets'[t].length = tickets[t].length
             /\ tickets'[t].answer = tickets[t].answer
             /\ tickets'[t].count = tickets[t].count
             /\ \/ tickets'[t].state = tickets[t].state
                \/ tickets[t].state = "built" /\ tickets'[t].state = "sent"
    <2> DEFINE n == i - 1
    <2>1. n \in 0 .. Len(issued) /\ tickets' = SentUpTo(n)
      BY <1>1, <1>3
    <2> HIDE DEF n
    <2> QED
      BY <2>1, SentUpToIs
  <1>5. /\ issued' \in Seq(1 .. Len(tickets)) /\ Len(issued') = Len(issued) - 1
        /\ \A k \in 1 .. Len(issued) - 1 :
             issued'[k] = IF k < i THEN issued[k] ELSE issued[k + 1]
    BY <1>1, <1>3, Facts, RemoveAtIs
  <1>6. /\ Len(issued) \in Nat /\ Len(queue) \in Nat /\ Len(tickets) \in Nat
        /\ queue \in Seq(Span)
    BY Facts
  <1>7. \/ /\ queue' = queue
           /\ ticket.answer \in {"taken", "refused"} /\ ~Fails(ticket)
                => \A o \in Nat : o \notin Remaining(ticket)
        \/ /\ queue' \in Seq(Span) /\ Len(queue') = Len(queue) + 1
           /\ \A k \in 1 .. Len(queue) : queue'[k] = queue[k]
           /\ queue'[Len(queue) + 1][2] >= 1
           /\ queue'[Len(queue) + 1][1] + queue'[Len(queue) + 1][2] <= Length
           /\ \A o \in Nat : o \in Offsets(queue'[Len(queue) + 1])
                               <=> o \in Remaining(ticket)
    <2>1. CASE /\ Again(ticket) = <<>>
               /\ ticket.answer \in {"taken", "refused"} /\ ~Fails(ticket)
                    => \A o \in Nat : o \notin Remaining(ticket)
      <3>1. queue' = queue
        BY <1>1, <1>6, <2>1, ConcatEmptySeq
      <3> QED
        BY <2>1, <3>1
    <2>2. CASE \E span \in Span :
                 /\ Again(ticket) = <<span>>
                 /\ span[2] >= 1 /\ span[1] + span[2] <= Length
                 /\ \A o \in Nat : o \in Offsets(span) <=> o \in Remaining(ticket)
      <3>1. PICK span \in Span :
                 /\ Again(ticket) = <<span>>
                 /\ span[2] >= 1 /\ span[1] + span[2] <= Length
                 /\ \A o \in Nat : o \in Offsets(span) <=> o \in Remaining(ticket)
        BY <2>2
      <3>2. queue' = Append(queue, span)
        BY <1>1, <1>6, <3>1, AppendIsConcat
      <3>3. /\ queue' \in Seq(Span) /\ Len(queue') = Len(queue) + 1
            /\ \A k \in 1 .. Len(queue) : queue'[k] = queue[k]
            /\ queue'[Len(queue) + 1] = span
        BY <1>6, <3>2, AppendProperties
      <3> QED
        BY <3>1, <3>3
    <2> QED
      BY <1>3, <2>1, <2>2, AgainIs
  <1> HIDE DEF ticket
  <1>8. Live' = Live
    BY <1>4, LiveSame
  <1>9. Guarded'
    BY <1>1, <1>8 DEF Inv, Guarded, Looping
  <1>10. TypeOK'
    <2>1. Len(issued') <= Depth
      BY <1>5, <1>6, ChunkAssumption DEF Inv, TypeOK
    <2>2. queue' \in Seq(Span)
      BY <1>6, <1>7
    <2> QED
      BY <1>1, <1>4, <1>5, <2>1, <2>2 DEF Inv, TypeOK
  <1>11. Fits'
    <2>1. \A t \in 1 .. Len(tickets') :
            tickets'[t].start + tickets'[t].length <= Length
      BY <1>4 DEF Inv, Fits
    <2>2. \A k \in 1 .. Len(queue') : /\ queue'[k][2] >= 1
                                      /\ queue'[k][1] + queue'[k][2] <= Length
      BY <1>6, <1>7 DEF Inv, Fits
    <2> QED
      BY <2>1, <2>2 DEF Fits
  <1>12. InOrder' /\ Building'
    BY <1>1 DEF Inv, InOrder, Building
  <1>13. Answers'
    BY <1>1, <1>4 DEF Inv, Answers
  <1>14. Awaited'
    <2>1. ASSUME NEW t \in 1 .. Len(tickets), tickets'[t].state # "done"
          PROVE  \E k \in 1 .. Len(issued') : issued'[k] = t
      <3>1. tickets[t].state # "done"
        BY <1>4, <2>1
      <3>2. PICK k \in 1 .. Len(issued) : issued[k] = t
        BY <1>1, <3>1 DEF Inv, Awaited
      <3>3. k # i
        BY <1>3, <3>1, <3>2 DEF ticket
      <3>4. CASE k < i
        <4>1. k \in 1 .. Len(issued')
          BY <1>3, <1>5, <1>6, <3>4
        <4>2. issued'[k] = t
          BY <1>5, <3>2, <3>4, <4>1
        <4> QED
          BY <4>1, <4>2
      <3>5. CASE k > i
        <4>1. k - 1 \in 1 .. Len(issued') /\ ~(k - 1 < i) /\ (k - 1) + 1 = k
          BY <1>3, <1>5, <1>6, <3>5
        <4>2. issued'[k - 1] = t
          BY <1>5, <3>2, <4>1
        <4> QED
          BY <4>1, <4>2
      <3> QED
        BY <1>3, <1>6, <3>3, <3>4, <3>5
    <2> QED
      BY <1>1, <1>4, <2>1 DEF Awaited
  <1>15. Parts'
    <2> SUFFICES ASSUME ~failure, ~Fails(ticket), NEW o \in 0 .. Length - 1
                 PROVE  Placed(o)'
      BY <1>1 DEF Parts
    <2>1. Placed(o) /\ o \in Nat
      BY <1>1, ChunkAssumption DEF Inv, Parts, Looping
    <2>2. ticket.answer \in {"taken", "refused"}
      <3>1. ticket.answer \in {"taken", "refused", "error"}
        BY <1>1, <1>3, TicketFields DEF Inv, Answers, ticket
      <3> QED
        BY <3>1 DEF Fails
    <2> DEFINE left == o \in Remaining(ticket)
    <2>3. left <=> InChunk(i, o)
      BY DEF InChunk, ticket
    <2>4. \A t \in 1 .. Len(tickets) : Remaining(tickets'[t]) = Remaining(tickets[t])
      BY <1>4 DEF Remaining
    <2>5. \A k \in 1 .. Len(issued) - 1 :
            /\ k \in 1 .. Len(issued) /\ k + 1 \in 1 .. Len(issued)
            /\ InChunk(k, o)' <=> IF k < i THEN InChunk(k, o) ELSE InChunk(k + 1, o)
      <3> SUFFICES ASSUME NEW k \in 1 .. Len(issued) - 1
                   PROVE  /\ k \in 1 .. Len(issued) /\ k + 1 \in 1 .. Len(issued)
                          /\ InChunk(k, o)' <=> IF k < i THEN InChunk(k, o)
                                                ELSE InChunk(k + 1, o)
        OBVIOUS
      <3>1. k \in 1 .. Len(issued) /\ k + 1 \in 1 .. Len(issued)
        BY <1>6
      <3>2. issued[k] \in 1 .. Len(tickets) /\ issued[k + 1] \in 1 .. Len(tickets)
        BY <3>1, Facts
      <3> QED
        BY <1>5, <2>4, <3>1, <3>2 DEF InChunk
    <2>6. left => \A k \in 1 .. Len(issued') : ~InChunk(k, o)'
      <3>1. left => \A k \in 1 .. Len(issued) : InChunk(k, o) => k = i
        BY <1>3, <2>1, <2>3 DEF Placed
      <3> QED
        BY <1>3, <1>5, <2>5, <3>1
    <2>7. UNCHANGED <<covered, next>>
      BY <1>1
    <2>8. CASE left
      <3>1. /\ o \notin Bytes(covered) /\ o < next
            /\ \A k \in 1 .. Len(queue) : ~InQueue(k, o)
        BY <1>3, <2>1, <2>3, <2>8 DEF Placed
      <3>2. /\ Len(queue') = Len(queue) + 1
            /\ \A k \in 1 .. Len(queue) : queue'[k] = queue[k]
            /\ o \in Offsets(queue'[Len(queue) + 1])
        BY <1>7, <2>1, <2>2, <2>8
      <3>3. \A k \in 1 .. Len(queue') : InQueue(k, o)' <=> k = Len(queue) + 1
        BY <1>6, <3>1, <3>2 DEF InQueue
      <3>4. Len(queue) + 1 \in 1 .. Len(queue')
        BY <1>6, <3>2
      <3> QED
        BY <2>6, <2>7, <2>8, <3>1, <3>3, <3>4 DEF Placed
    <2>9. CASE ~left
      <3>1. \A k \in 1 .. Len(queue') :
              InQueue(k, o)' <=> k \in 1 .. Len(queue) /\ InQueue(k, o)
        BY <1>6, <1>7, <2>1, <2>9 DEF InQueue
      <3>2. 1 .. Len(queue) \subseteq 1 .. Len(queue')
        BY <1>6, <1>7
      <3>3. CASE \E k \in 1 .. Len(issued) : InChunk(k, o)
        <4>1. PICK k \in 1 .. Len(issued) : /\ InChunk(k, o)
                                            /\ \A j \in 1 .. Len(issued) :
                                                 InChunk(j, o) <=> j = k
          BY <2>1, <3>3 DEF Placed
        <4>2. /\ o \notin Bytes(covered) /\ o < next
              /\ \A j \in 1 .. Len(queue) : ~InQueue(j, o)
          BY <2>1, <4>1 DEF Placed
        <4>3. k # i
          BY <2>3, <2>9, <4>1
        <4> DEFINE at == IF k < i THEN k ELSE k - 1
        <4>4. at \in 1 .. Len(issued')
          BY <1>3, <1>5, <1>6, <4>3
        <4>5. \A j \in 1 .. Len(issued') : InChunk(j, o)' <=> j = at
          BY <1>3, <1>5, <1>6, <2>5, <4>1, <4>3
        <4>6. \A j \in 1 .. Len(queue') : ~InQueue(j, o)'
          BY <3>1, <4>2
        <4> QED
          BY <2>7, <4>2, <4>4, <4>5, <4>6 DEF Placed
      <3>4. CASE \A k \in 1 .. Len(issued) : ~InChunk(k, o)
        <4>1. \A k \in 1 .. Len(issued') : ~InChunk(k, o)'
          BY <1>5, <2>5, <3>4
        <4>2. \/ \A k \in 1 .. Len(queue) : ~InQueue(k, o)
              \/ \E k \in 1 .. Len(queue) : \A j \in 1 .. Len(queue) :
                   InQueue(j, o) <=> j = k
          BY <2>1 DEF Placed
        <4>3. CASE \A k \in 1 .. Len(queue) : ~InQueue(k, o)
          <5>1. \A k \in 1 .. Len(queue') : ~InQueue(k, o)'
            BY <3>1, <4>3
          <5>2. \/ o \in Bytes(covered) /\ o < next
                \/ o \notin Bytes(covered) /\ o >= next
            BY <2>1, <3>4, <4>3 DEF Placed
          <5> QED
            BY <2>7, <4>1, <5>1, <5>2 DEF Placed
        <4>4. CASE \E k \in 1 .. Len(queue) : \A j \in 1 .. Len(queue) :
                     InQueue(j, o) <=> j = k
          <5>1. PICK k \in 1 .. Len(queue) : \A j \in 1 .. Len(queue) :
                     InQueue(j, o) <=> j = k
            BY <4>4
          <5>2. k \in 1 .. Len(queue') /\ \A j \in 1 .. Len(queue') :
                     InQueue(j, o)' <=> j = k
            BY <3>1, <3>2, <5>1
          <5>3. o \notin Bytes(covered) /\ o < next
            BY <2>1, <5>1 DEF Placed
          <5> QED
            BY <2>7, <4>1, <5>2, <5>3 DEF Placed
        <4> QED
          BY <4>2, <4>3, <4>4
      <3> QED
        BY <3>3, <3>4
    <2> QED
      BY <2>8, <2>9
  <1> QED
    BY <1>9, <1>10, <1>11, <1>12, <1>13, <1>14, <1>15 DEF Inv

\* The span of the chunk built next lies in the buffer and is not empty.
LEMMA NextSpanIs ==
    ASSUME Inv, pc = "build"
    PROVE  LET span == NextSpan(queue, next, size) IN
           /\ span[1] \in 0 .. Length /\ span[2] \in 1 .. Length
           /\ span[1] + span[2] <= Length
           /\ queue = <<>> => span[1] = next /\ NextAfter(queue, next, size) = next + span[2]
           /\ queue # <<>> => span[1] = queue[Len(queue)][1] /\ span[2] =
                IF size < queue[Len(queue)][2] THEN size ELSE queue[Len(queue)][2]
  <1>1. /\ size \in Nat \ {0} /\ next \in 0 .. Length /\ Length \in Nat
    BY ChunkAssumption DEF Inv, TypeOK
  <1>2. CASE queue = <<>>
    <2>1. next < Length
      BY <1>2 DEF Inv, Building
    <2>2. NextSpan(queue, next, size) = <<next, Min({size, Length - next})>>
      BY <1>2 DEF NextSpan
    <2>3. Min({size, Length - next})
            = IF size <= Length - next THEN size ELSE Length - next
      BY <1>1, MinOfTwo
    <2>4. NextAfter(queue, next, size) = next + Min({size, Length - next})
      BY <1>2 DEF NextAfter
    <2> QED
      BY <1>1, <1>2, <2>1, <2>2, <2>3, <2>4
  <1>3. CASE queue # <<>>
    <2> DEFINE top == queue[Len(queue)]
    <2>1. Len(queue) \in 1 .. Len(queue)
      BY <1>3, Facts
    <2>2. /\ top[1] \in 0 .. Length /\ top[2] \in 1 .. Length
          /\ top[1] + top[2] <= Length
      BY <1>1, <2>1, Facts DEF Inv, Fits
    <2>3. NextSpan(queue, next, size) = <<top[1], Min({size, top[2]})>>
      BY <1>3 DEF NextSpan, Last
    <2> HIDE DEF top
    <2>4. Min({size, top[2]}) = IF size <= top[2] THEN size ELSE top[2]
      BY <1>1, <2>2, MinOfTwo
    <2> QED
      BY <1>1, <1>3, <2>2, <2>3, <2>4 DEF top
  <1> QED
    BY <1>2, <1>3

\* The queue once the chunk is built: every span but the last, and what the chunk
\* leaves of that one.
LEMMA QueueAfterIs ==
    ASSUME Inv, pc = "build", queue # <<>>
    PROVE  LET n == Len(queue)
               top == queue[n]
               after == QueueAfter(queue, size)
           IN  /\ n \in 1 .. n /\ top \in Span
               /\ after \in Seq(Span)
               /\ \A k \in 1 .. n - 1 : after[k] = queue[k]
               /\ \/ size >= top[2] /\ Len(after) = n - 1
                  \/ /\ size < top[2] /\ Len(after) = n
                     /\ after[n] = <<top[1] + size, top[2] - size>>
  <1> DEFINE n == Len(queue)
             top == queue[n]
             rest == <<top[1] + size, top[2] - size>>
             after == QueueAfter(queue, size)
  <1>1. /\ n \in 1 .. n /\ queue \in Seq(Span) /\ n \in Nat
        /\ \A k \in 1 .. n : queue[k] \in Span
    BY Facts
  <1>2. /\ top \in Span /\ top[1] \in 0 .. Length /\ top[2] \in 0 .. Length
        /\ top[1] + top[2] <= Length /\ size \in Nat /\ Length \in Nat
    BY <1>1, Facts, ChunkAssumption DEF Inv, Fits, TypeOK
  <1>3. /\ Front(queue) \in Seq(Span) /\ Len(Front(queue)) = n - 1
        /\ \A k \in 1 .. n - 1 : Front(queue)[k] = queue[k]
    <2> DEFINE m == n - 1
    <2>1. /\ m \in Nat /\ m = n - 1 /\ m <= n
          /\ \A k \in 1 .. m : k \in 1 .. n /\ 1 + k - 1 = k
      BY <1>1
    <2>2. Front(queue) = SubSeq(queue, 1, m)
      BY DEF Front
    <2> HIDE DEF m, n
    <2>3. /\ SubSeq(queue, 1, m) \in Seq(Span)
          /\ Len(SubSeq(queue, 1, m)) = m
          /\ \A k \in 1 .. m : SubSeq(queue, 1, m)[k] = queue[k]
      BY <1>1, <2>1 DEF n
    <2> QED
      BY <2>1, <2>2, <2>3
  <1>4. CASE size < top[2]
    <2>1. after = Append(Front(queue), rest)
      BY <1>4 DEF QueueAfter, Last
    <2>2. rest \in Span
      BY <1>2, <1>4 DEF Span
    <2>3. /\ after \in Seq(Span) /\ Len(after) = n
          /\ \A k \in 1 .. n - 1 : after[k] = queue[k]
          /\ after[n] = rest
      BY <1>1, <1>3, <2>1, <2>2, AppendProperties
    <2> QED
      BY <1>1, <1>2, <1>4, <2>3
  <1>5. CASE ~(size < top[2])
    <2>1. after = Front(queue)
      BY <1>5 DEF QueueAfter, Last
    <2> QED
      BY <1>1, <1>2, <1>3, <1>5, <2>1
  <1> QED
    BY <1>4, <1>5

\* A chunk is built: its bytes move from the queue or the tail into it.
LEMMA BuildInv ==
    ASSUME Inv, Build
    PROVE  Inv'
  <1> DEFINE span == NextSpan(queue, next, size)
             new == [start |-> span[1], length |-> span[2], large |-> ~downgraded,
                     state |-> "built", answer |-> "none", count |-> 0]
             t == Len(tickets) + 1
             n == Len(issued) + 1
  <1>1. /\ pc = "build" /\ pc' = "fill" /\ tickets' = Append(tickets, new)
        /\ issued' = Append(issued, t) /\ queue' = QueueAfter(queue, size)
        /\ next' = NextAfter(queue, next, size) /\ outstanding' = outstanding + 1
        /\ UNCHANGED <<size, failure, reported, covered, issuing, finalPrefix,
                       downgraded, landed>>
    BY DEF Build
  <1>2. /\ span[1] \in 0 .. Length /\ span[2] \in 1 .. Length
        /\ span[1] + span[2] <= Length
        /\ queue = <<>> => span[1] = next /\ next' = next + span[2]
        /\ queue # <<>> => span[1] = queue[Len(queue)][1] /\ span[2] =
             IF size < queue[Len(queue)][2] THEN size ELSE queue[Len(queue)][2]
    BY <1>1, NextSpanIs
  <1>3. queue = <<>> => queue' = queue
    BY <1>1 DEF QueueAfter
  <1>4. queue # <<>> => next' = next
    BY <1>1 DEF NextAfter
  <1>5. /\ Length \in Nat /\ next \in 0 .. Length /\ Len(tickets) \in Nat
        /\ Len(issued) \in Nat /\ Len(queue) \in Nat
        /\ tickets \in Seq(Ticket) /\ issued \in Seq(1 .. Len(tickets))
        /\ size \in Nat \ {0}
    BY Facts, ChunkAssumption DEF Inv, TypeOK
  <1> HIDE DEF span
  <1>6. /\ new \in Ticket /\ new.start = span[1] /\ new.length = span[2]
        /\ new.state = "built" /\ new.answer = "none"
    BY <1>2, <1>5 DEF Ticket, Inv, TypeOK
  <1> HIDE DEF new
  <1>7. /\ tickets' \in Seq(Ticket) /\ Len(tickets') = t
        /\ \A u \in 1 .. Len(tickets) : tickets'[u] = tickets[u]
        /\ tickets'[t] = new
        /\ t \in 1 .. t /\ t \notin 1 .. Len(tickets)
        /\ \A u \in 1 .. t : u \in 1 .. Len(tickets) \/ u = t
    BY <1>1, <1>5, <1>6, AppendProperties
  <1>8. /\ issued' \in Seq(1 .. Len(tickets')) /\ Len(issued') = n
        /\ \A k \in 1 .. Len(issued) : issued'[k] = issued[k]
        /\ issued'[n] = t
        /\ n \in 1 .. n /\ n \notin 1 .. Len(issued)
        /\ \A k \in 1 .. Len(issued) : k \in 1 .. n
        /\ \A k \in 1 .. n : k \in 1 .. Len(issued) \/ k = n
        /\ n = Len(issued) + 1
    <2>1. issued \in Seq(1 .. t) /\ t \in 1 .. t
      BY <1>5, SeqMonotonic
    <2> HIDE DEF t
    <2> QED
      BY <1>1, <1>5, <1>7, <2>1, AppendProperties
  <1> HIDE DEF t, n
  <1>9. Live' = Live \cup {t} /\ t \notin Live
    BY <1>6, <1>7 DEF Live
  <1>10. Guarded'
    <2>1. Cardinality(Live') = Cardinality(Live) + 1
      BY <1>9, LiveFinite, FS_AddElement
    <2>2. issuing = "held" /\ finalPrefix = NotFinal
      BY <1>1 DEF Inv, Guarded, Looping
    <2> QED
      BY <1>1, <2>1, <2>2 DEF Inv, Guarded, Looping
  <1>11. queue' \in Seq(Span) /\ next' \in 0 .. Length
    <2>1. CASE queue = <<>>
      BY <1>2, <1>3, <1>5, <2>1, Facts
    <2>2. CASE queue # <<>>
      BY <1>1, <1>4, <1>5, <2>2, QueueAfterIs
    <2> QED
      BY <2>1, <2>2
  <1>12. TypeOK'
    <2>1. Len(issued') <= Depth
      BY <1>1, <1>5, <1>8, ChunkAssumption DEF Inv, Building
    <2>2. outstanding' \in Nat
      BY <1>1 DEF Inv, TypeOK
    <2> QED
      BY <1>1, <1>7, <1>8, <1>11, <2>1, <2>2 DEF Inv, TypeOK
  <1>13. Fits'
    <2>1. \A u \in 1 .. Len(tickets') :
            tickets'[u].start + tickets'[u].length <= Length
      <3> TAKE u \in 1 .. Len(tickets')
      <3>1. CASE u = t
        BY <1>2, <1>6, <1>7, <3>1
      <3>2. CASE u \in 1 .. Len(tickets)
        BY <1>7, <3>2 DEF Inv, Fits
      <3> QED
        BY <1>7, <3>1, <3>2
    <2>2. ASSUME NEW k \in 1 .. Len(queue')
          PROVE  queue'[k][2] >= 1 /\ queue'[k][1] + queue'[k][2] <= Length
      <3>1. CASE queue = <<>>
        BY <1>3, <2>2, <3>1 DEF Inv, Fits
      <3>2. CASE queue # <<>>
        <4> DEFINE last == Len(queue)
                   top == queue[last]
        <4>1. /\ last \in 1 .. last
              /\ \A j \in 1 .. last - 1 : queue'[j] = queue[j]
              /\ \/ Len(queue') = last - 1
                 \/ /\ size < top[2] /\ Len(queue') = last
                    /\ queue'[last] = <<top[1] + size, top[2] - size>>
          BY <1>1, <3>2, QueueAfterIs
        <4>2. top[1] \in Nat /\ top[2] \in Nat /\ top[1] + top[2] <= Length
          BY <1>5, <4>1, Facts DEF Inv, Fits
        <4>3. CASE k \in 1 .. last - 1
          <5>1. k \in 1 .. Len(queue) /\ queue'[k] = queue[k]
            BY <1>5, <4>1, <4>3
          <5> QED
            BY <5>1 DEF Inv, Fits
        <4>4. CASE k = last
          BY SMTT(40), <1>5, <4>1, <4>2, <4>4
        <4> QED
          BY <1>5, <4>1, <4>3, <4>4
      <3> QED
        BY <3>1, <3>2
    <2> QED
      BY <2>1, <2>2 DEF Fits
  <1>14. InOrder' /\ Building'
    BY <1>1 DEF Inv, InOrder, Building
  <1>15. Answers'
    <2> SUFFICES ASSUME NEW u \in 1 .. Len(tickets')
                 PROVE  /\ tickets'[u].state \in {"built", "sent"}
                             <=> tickets'[u].answer = "none"
                        /\ tickets'[u].answer # "abandoned"
      BY DEF Answers
    <2>1. CASE u = t
      BY <1>6, <1>7, <2>1
    <2>2. CASE u \in 1 .. Len(tickets)
      BY <1>1, <1>7, <2>2 DEF Inv, Answers
    <2> QED
      BY <1>7, <2>1, <2>2
  <1>16. Awaited'
    <2>1. ASSUME NEW u \in 1 .. Len(tickets'), tickets'[u].state # "done"
          PROVE  \E k \in 1 .. Len(issued') : issued'[k] = u
      <3>1. CASE u = t
        BY <1>8, <3>1
      <3>2. CASE u \in 1 .. Len(tickets)
        <4>1. PICK k \in 1 .. Len(issued) : issued[k] = u
          BY <1>1, <1>7, <2>1, <3>2 DEF Inv, Awaited
        <4> QED
          BY <1>8, <4>1
      <3> QED
        BY <1>7, <3>1, <3>2
    <2> QED
      BY <1>1, <2>1 DEF Awaited
  <1>17. Parts'
    <2> SUFFICES ASSUME ~failure, NEW o \in 0 .. Length - 1 PROVE Placed(o)'
      BY <1>1 DEF Parts
    <2>1. Placed(o) /\ o \in Nat
      BY <1>1, ChunkAssumption DEF Inv, Parts, Looping
    <2> DEFINE taken == span[1] <= o /\ o < span[1] + span[2]
    <2> DEFINE Now(k) == o \in Remaining(tickets'[issued'[k]])
    <2>2. \A k \in 1 .. Len(issued) : Now(k) <=> InChunk(k, o)
      BY <1>7, <1>8, Facts DEF InChunk
    <2>3. Now(n) <=> taken
      <3>1. o \in Remaining(new) <=> taken
        BY <1>6, <2>1, RemainingIs
      <3> QED
        BY <1>7, <1>8, <3>1
    <2>4. Bytes(covered') = Bytes(covered)
      BY <1>1
    <2>5. 1 .. Len(issued') = 1 .. Len(issued) \cup {n} /\ n \notin 1 .. Len(issued)
      BY <1>5, <1>8
    <2> HIDE DEF taken, Now
    <2>6. CASE queue = <<>>
      <3>1. /\ \A k \in 1 .. Len(queue) : ~InQueue(k, o)
            /\ \A k \in 1 .. Len(queue') : ~InQueue(k, o)'
        BY <1>3, <2>6
      <3>2. taken <=> next <= o /\ o < next'
        BY <1>2, <1>5, <2>6 DEF taken
      <3>3. next <= next'
        BY <1>2, <1>5, <2>6
      <3>4. CASE o < next
        <4>1. o < next' /\ ~taken
          BY <1>5, <1>11, <2>1, <3>2, <3>3, <3>4
        <4>2. ~Now(n)
          BY <2>3, <4>1
        <4>3. CASE \A k \in 1 .. Len(issued) : ~InChunk(k, o)
          <5>1. o \in Bytes(covered)
            BY <2>1, <3>1, <3>4, <4>3, <1>5 DEF Placed
          <5>2. \A k \in 1 .. Len(issued') : ~Now(k)
            BY <2>2, <2>5, <4>2, <4>3
          <5> QED
            BY <2>4, <3>1, <4>1, <5>1, <5>2 DEF Placed, InChunk, Now
        <4>4. CASE \E k \in 1 .. Len(issued) : InChunk(k, o)
          <5>1. PICK k \in 1 .. Len(issued) : \A j \in 1 .. Len(issued) :
                  InChunk(j, o) <=> j = k
            BY <2>1, <4>4 DEF Placed
          <5>2. o \notin Bytes(covered)
            BY <2>1, <4>4 DEF Placed
          <5>3. k \in 1 .. Len(issued') /\ \A j \in 1 .. Len(issued') :
                  Now(j) <=> j = k
            BY <2>2, <2>5, <4>2, <5>1
          <5> QED
            BY <2>4, <3>1, <4>1, <5>2, <5>3 DEF Placed, InChunk, Now
        <4> QED
          BY <4>3, <4>4
      <3>5. CASE o >= next
        <4>1. /\ o \notin Bytes(covered)
              /\ \A k \in 1 .. Len(issued) : ~InChunk(k, o)
          BY <1>5, <2>1, <3>5 DEF Placed
        <4>2. CASE o < next'
          <5>1. n \in 1 .. Len(issued') /\ \A j \in 1 .. Len(issued') :
                  Now(j) <=> j = n
            BY <2>2, <2>3, <2>5, <3>2, <3>5, <4>1, <4>2
          <5> QED
            BY <2>4, <3>1, <4>1, <4>2, <5>1 DEF Placed, InChunk, Now
        <4>3. CASE ~(o < next')
          <5>1. o >= next'
            BY <1>11, <2>1, <4>3
          <5>2. \A j \in 1 .. Len(issued') : ~Now(j)
            BY <2>2, <2>3, <2>5, <3>2, <4>1, <4>3
          <5> QED
            BY <2>4, <3>1, <4>1, <5>1, <5>2 DEF Placed, InChunk, Now
        <4> QED
          BY <4>2, <4>3
      <3> QED
        BY <1>5, <2>1, <3>4, <3>5
    <2>7. CASE queue # <<>>
      <3> DEFINE last == Len(queue)
                 top == queue[last]
      <3>1. /\ last \in 1 .. last
            /\ \A j \in 1 .. last - 1 : queue'[j] = queue[j]
            /\ \/ size >= top[2] /\ Len(queue') = last - 1
               \/ /\ size < top[2] /\ Len(queue') = last
                  /\ queue'[last] = <<top[1] + size, top[2] - size>>
        BY <1>1, <2>7, QueueAfterIs
      <3>2. top[1] \in Nat /\ top[2] \in Nat
        BY <1>5, <3>1, Facts
      <3>3. InQueue(last, o) <=> top[1] <= o /\ o < top[1] + top[2]
        BY <2>1, <3>2 DEF InQueue, Offsets
      <3>4. span[1] = top[1] /\ span[2] = IF size < top[2] THEN size ELSE top[2]
        BY <1>2, <2>7
      <3>5. taken => InQueue(last, o)
        BY <1>5, <3>2, <3>3, <3>4 DEF taken
      <3> HIDE DEF top
      <3>6. \A k \in 1 .. Len(queue') :
              /\ k \in 1 .. last
              /\ InQueue(k, o)' <=> InQueue(k, o) /\ ~(k = last /\ taken)
        <4> SUFFICES ASSUME NEW k \in 1 .. Len(queue')
                     PROVE  /\ k \in 1 .. last
                            /\ InQueue(k, o)' <=> InQueue(k, o) /\ ~(k = last /\ taken)
          OBVIOUS
        <4>1. k \in 1 .. last - 1 \/ (k = last /\ Len(queue') = last)
          <5>1. (Len(queue') = last - 1 \/ Len(queue') = last) /\ last \in Nat
            BY <1>5, <3>1
          <5> HIDE DEF last
          <5> QED
            BY <5>1
        <4>2. CASE k \in 1 .. last - 1
          BY <1>5, <3>1, <4>2 DEF InQueue
        <4>3. CASE k = last /\ Len(queue') = last
          <5>1. /\ size < top[2]
                /\ queue'[last] = <<top[1] + size, top[2] - size>>
            BY <1>5, <3>1, <4>3
          <5>2. InQueue(k, o)' <=> top[1] + size <= o /\ o < top[1] + top[2]
            BY SMTT(40), <1>5, <2>1, <3>2, <4>3, <5>1 DEF InQueue, Offsets
          <5> QED
            BY <1>5, <2>1, <3>1, <3>2, <3>3, <3>4, <4>3, <5>1, <5>2 DEF taken
        <4> QED
          BY <4>1, <4>2, <4>3
      <3>7. \A k \in 1 .. last : InQueue(k, o) /\ ~(k = last /\ taken)
              => k \in 1 .. Len(queue')
        BY <1>5, <2>1, <3>1, <3>2, <3>3, <3>4 DEF taken
      <3>8. next' = next
        BY <1>4, <2>7
      <3> HIDE DEF last
      <3>9. CASE taken
        <4>1. /\ \A k \in 1 .. Len(queue) : InQueue(k, o) <=> k = last
              /\ o \notin Bytes(covered) /\ o < next
              /\ \A k \in 1 .. Len(issued) : ~InChunk(k, o)
          BY <2>1, <3>1, <3>5, <3>9 DEF Placed, last
        <4>2. \A k \in 1 .. Len(queue') : ~InQueue(k, o)'
          BY <3>6, <3>9, <4>1 DEF last
        <4>3. n \in 1 .. Len(issued') /\ \A k \in 1 .. Len(issued') :
                Now(k) <=> k = n
          BY <2>2, <2>3, <2>5, <3>9, <4>1
        <4> QED
          BY <2>4, <3>8, <4>1, <4>2, <4>3 DEF Placed, InChunk, Now
      <3>10. CASE ~taken
        <4>1. \A k \in 1 .. Len(issued') :
                Now(k) <=> k \in 1 .. Len(issued) /\ InChunk(k, o)
          BY <2>2, <2>3, <2>5, <3>10
        <4>2. /\ \A k \in 1 .. Len(queue') : /\ k \in 1 .. Len(queue)
                                             /\ InQueue(k, o)' <=> InQueue(k, o)
              /\ \A k \in 1 .. Len(queue) : InQueue(k, o) => k \in 1 .. Len(queue')
          BY <3>6, <3>7, <3>10 DEF last
        <4>3. CASE \E k \in 1 .. Len(queue) : InQueue(k, o)
          <5>1. PICK k \in 1 .. Len(queue) : \A j \in 1 .. Len(queue) :
                  InQueue(j, o) <=> j = k
            BY <2>1, <4>3 DEF Placed
          <5>2. /\ o \notin Bytes(covered) /\ o < next
                /\ \A j \in 1 .. Len(issued) : ~InChunk(j, o)
            BY <2>1, <4>3 DEF Placed
          <5>3. k \in 1 .. Len(queue') /\ \A j \in 1 .. Len(queue') :
                  InQueue(j, o)' <=> j = k
            BY <4>2, <5>1
          <5>4. \A j \in 1 .. Len(issued') : ~Now(j)
            BY <4>1, <5>2
          <5> QED
            BY <2>4, <3>8, <5>2, <5>3, <5>4 DEF Placed, InChunk, Now
        <4>4. CASE \A k \in 1 .. Len(queue) : ~InQueue(k, o)
          <5>1. \A k \in 1 .. Len(queue') : ~InQueue(k, o)'
            BY <4>2, <4>4
          <5>2. CASE \A k \in 1 .. Len(issued) : ~InChunk(k, o)
            <6>1. \A k \in 1 .. Len(issued') : ~Now(k)
              BY <4>1, <5>2
            <6>2. \/ o \in Bytes(covered) /\ o < next
                  \/ o \notin Bytes(covered) /\ o >= next
              BY <2>1, <4>4, <5>2 DEF Placed
            <6> QED
              BY <2>4, <3>8, <5>1, <6>1, <6>2 DEF Placed, InChunk, Now
          <5>3. CASE \E k \in 1 .. Len(issued) : InChunk(k, o)
            <6>1. PICK k \in 1 .. Len(issued) : \A j \in 1 .. Len(issued) :
                    InChunk(j, o) <=> j = k
              BY <2>1, <5>3 DEF Placed
            <6>2. o \notin Bytes(covered) /\ o < next
              BY <2>1, <5>3 DEF Placed
            <6>3. k \in 1 .. Len(issued') /\ \A j \in 1 .. Len(issued') :
                    Now(j) <=> j = k
              BY <2>5, <4>1, <6>1
            <6> QED
              BY <2>4, <3>8, <5>1, <6>2, <6>3 DEF Placed, InChunk, Now
          <5> QED
            BY <5>2, <5>3
        <4> QED
          BY <4>3, <4>4
      <3> QED
        BY <3>9, <3>10
    <2> QED
      BY <2>6, <2>7
  <1> QED
    BY <1>10, <1>12, <1>13, <1>14, <1>15, <1>16, <1>17 DEF Inv
-----------------------------------------------------------------------------
(* The theorems. *)

\* Every step of the call, of the handle, of the actor and of another operation.
LEMMA NextInv == Inv /\ [Next]_vars => Inv'
  <1> SUFFICES ASSUME Inv, [Next]_vars PROVE Inv'
    OBVIOUS
  <1>1. CASE Loop
    BY <1>1, CallInv, BuildInv, PollPendsInv, PollTakesInv DEF Loop
  <1>2. CASE Cancel
    BY <1>2, CancelInv
  <1>3. CASE Handle
    BY <1>3, GuardInv, LeaveInv, SettleChunkInv DEF Handle
  <1>4. CASE \E t \in 1 .. Len(tickets) : Ends(t)
    BY <1>4, TakenInv, NotTakenInv DEF Ends
  <1>5. CASE OtherDowngrades \/ Over \/ UNCHANGED vars
    BY <1>5, CallInv DEF Over
  <1> QED
    BY <1>1, <1>2, <1>3, <1>4, <1>5 DEF Next

\* What the other theorems rest on holds of every write, whatever the length of
\* the buffer, the depth of the pipeline and the two chunk sizes.
THEOREM Invariance == Spec => []Inv
  <1>1. Init => Inv
    BY InitInv
  <1>2. Inv /\ [Next]_vars => Inv'
    BY NextInv
  <1> QED
    BY <1>1, <1>2, PTL DEF Spec

\* The variables of write_span and of its handle keep their types.
THEOREM TypeCorrect == Spec => []TypeOK
  <1>1. Inv => TypeOK
    BY DEF Inv
  <1> QED
    BY <1>1, Invariance, PTL

\* A byte with one place is counted once.
LEMMA CountedOnce ==
    ASSUME Inv, NEW o \in 0 .. Length - 1, Placed(o)
    PROVE  Places(o) = 1
  <1> DEFINE chunks == {i \in 1 .. Len(issued) : o \in Remaining(tickets[issued[i]])}
             spans == {i \in 1 .. Len(queue) : o \in Offsets(queue[i])}
             done == {o} \cap Bytes(covered)
             tail == {o} \cap (next .. Length - 1)
  <1>1. Places(o) = Cardinality(chunks) + Cardinality(spans) + Cardinality(done)
                      + Cardinality(tail)
    BY DEF Places
  <1>2. Cardinality({}) = 0 /\ \A x : Cardinality({x}) = 1
    BY FS_EmptySet, FS_Singleton
  <1>3. tail = IF o >= next THEN {o} ELSE {}
    BY ChunkAssumption DEF Inv, TypeOK
  <1>4. done = IF o \in Bytes(covered) THEN {o} ELSE {}
    OBVIOUS
  <1>5. /\ (\A i \in 1 .. Len(issued) : ~InChunk(i, o)) => chunks = {}
        /\ \A i \in 1 .. Len(issued) :
             (\A k \in 1 .. Len(issued) : InChunk(k, o) <=> k = i) => chunks = {i}
    BY DEF InChunk
  <1>6. /\ (\A i \in 1 .. Len(queue) : ~InQueue(i, o)) => spans = {}
        /\ \A i \in 1 .. Len(queue) :
             (\A k \in 1 .. Len(queue) : InQueue(k, o) <=> k = i) => spans = {i}
    BY DEF InQueue
  <1>7. next \in Nat /\ o \in Nat
    BY ChunkAssumption DEF Inv, TypeOK
  <1> HIDE DEF chunks, spans, done, tail
  <1>8. \/ Cardinality(chunks) = 0 /\ Cardinality(spans) = 0
             /\ Cardinality(done) = 1 /\ Cardinality(tail) = 0
        \/ Cardinality(chunks) = 0 /\ Cardinality(spans) = 0
             /\ Cardinality(done) = 0 /\ Cardinality(tail) = 1
        \/ Cardinality(chunks) = 1 /\ Cardinality(spans) = 0
             /\ Cardinality(done) = 0 /\ Cardinality(tail) = 0
        \/ Cardinality(chunks) = 0 /\ Cardinality(spans) = 1
             /\ Cardinality(done) = 0 /\ Cardinality(tail) = 0
    <2>1. ASSUME o \in Bytes(covered) /\ o < next
                 /\ (\A i \in 1 .. Len(issued) : ~InChunk(i, o))
                 /\ (\A i \in 1 .. Len(queue) : ~InQueue(i, o))
          PROVE  chunks = {} /\ spans = {} /\ done = {o} /\ tail = {}
      BY <1>3, <1>4, <1>5, <1>6, <1>7, <2>1
    <2>2. ASSUME o \notin Bytes(covered) /\ o >= next
                 /\ (\A i \in 1 .. Len(issued) : ~InChunk(i, o))
                 /\ (\A i \in 1 .. Len(queue) : ~InQueue(i, o))
          PROVE  chunks = {} /\ spans = {} /\ done = {} /\ tail = {o}
      BY <1>3, <1>4, <1>5, <1>6, <1>7, <2>2
    <2>3. ASSUME o \notin Bytes(covered) /\ o < next,
                 NEW i \in 1 .. Len(issued),
                 \A k \in 1 .. Len(issued) : InChunk(k, o) <=> k = i,
                 \A k \in 1 .. Len(queue) : ~InQueue(k, o)
          PROVE  chunks = {i} /\ spans = {} /\ done = {} /\ tail = {}
      BY <1>3, <1>4, <1>5, <1>6, <1>7, <2>3
    <2>4. ASSUME o \notin Bytes(covered) /\ o < next,
                 NEW i \in 1 .. Len(queue),
                 \A k \in 1 .. Len(queue) : InQueue(k, o) <=> k = i,
                 \A k \in 1 .. Len(issued) : ~InChunk(k, o)
          PROVE  chunks = {} /\ spans = {i} /\ done = {} /\ tail = {}
      BY <1>3, <1>4, <1>5, <1>6, <1>7, <2>4
    <2>5. \/ chunks = {} /\ spans = {} /\ done = {o} /\ tail = {}
          \/ chunks = {} /\ spans = {} /\ done = {} /\ tail = {o}
          \/ \E i : chunks = {i} /\ spans = {} /\ done = {} /\ tail = {}
          \/ \E i : chunks = {} /\ spans = {i} /\ done = {} /\ tail = {}
      BY <2>1, <2>2, <2>3, <2>4 DEF Placed
    <2> QED
      BY <1>2, <2>5
  <1> QED
    BY <1>1, <1>8

\* While the loop runs and has met no error, every byte of the buffer is in
\* exactly one place: acknowledged, in one chunk awaited, in one span to issue
\* again, or in the tail (file.rs, write_span).
THEOREM OnePlaceEach == Spec => []Partitioned
  <1>1. Inv => Partitioned
    BY CountedOnce DEF Inv, Parts, Looping, Partitioned
  <1> QED
    BY <1>1, Invariance, PTL

-----------------------------------------------------------------------------
(* The write implements its contract. *)

Result == CASE pc \in {"fill", "build", "await"} -> "none" [] OTHER -> pc

\* The result is what the call returned, once it has.
LEMMA ResultIs ==
    Result = IF Looping THEN "none" ELSE pc
  BY DEF Result, Looping

\* Success is every byte acknowledged: nothing is queued, awaited or in the tail.
LEMMA OkIsAll ==
    ASSUME Inv, Return, ~failure
    PROVE  0 .. Length - 1 \subseteq Bytes(covered)
  <1>1. Looping /\ Len(issued) = 0 /\ Len(queue) = 0 /\ ~(next < Length)
    BY ChunkAssumption, Facts DEF Return, Wants, Looping
  <1>2. ASSUME NEW o \in 0 .. Length - 1 PROVE o \in Bytes(covered)
    <2>1. Placed(o)
      BY <1>1 DEF Inv, Parts
    <2>2. o < next
      BY <1>1, ChunkAssumption DEF Inv, TypeOK
    <2>3. 1 .. Len(issued) = {} /\ 1 .. Len(queue) = {} /\ ~(o >= next)
      BY <1>1, <2>2, ChunkAssumption DEF Inv, TypeOK
    <2> QED
      BY <2>1, <2>3 DEF Placed
  <1> QED
    BY <1>2

\* The prefix is the number of bytes recorded without a hole.
LEMMA PrefixCounts ==
    ASSUME Inv
    PROVE  Contract!WrittenFrom(0, Bytes(covered)) = Prefix(covered)
  <1> DEFINE p == Prefix(covered)
             S == {o \in Bytes(covered) : o >= 0 /\ 0 .. o \subseteq Bytes(covered)}
  <1>1. covered \in Ranges /\ Canonical(covered)
    BY Facts DEF Inv, InOrder
  <1>2. /\ p \in Nat /\ 0 .. p - 1 \subseteq Bytes(covered) /\ p \notin Bytes(covered)
    BY <1>1, PrefixIs
  <1>3. Bytes(covered) \subseteq Nat
    BY <1>1, BytesIn
  <1> HIDE DEF p
  <1>4. S = 0 .. p - 1
    <2>1. ASSUME NEW o \in S PROVE o \in 0 .. p - 1
      <3>1. o \in Nat /\ 0 .. o \subseteq Bytes(covered)
        BY <1>3
      <3>2. ~(p <= o)
        BY <1>2, <3>1
      <3> QED
        BY <1>2, <3>1, <3>2
    <2>2. ASSUME NEW o \in 0 .. p - 1 PROVE o \in S
      <3>1. \A x \in 0 .. o : x \in 0 .. p - 1
        BY <1>2
      <3> QED
        BY <1>2, <3>1
    <2> QED
      BY <2>1, <2>2
  <1>5. Cardinality(0 .. p - 1) = p
    BY <1>2, FS_Interval
  <1> QED
    <2>1. Contract!WrittenFrom(0, Bytes(covered)) = Cardinality(S)
      BY Zenon DEF Contract!WrittenFrom, Contract!Cardinality, Cardinality
    <2> QED
      BY <1>4, <1>5, <2>1 DEF p

\* A sent chunk finds its write neither returned nor declared over.
LEMMA SentIsOpen ==
    ASSUME Inv, NEW t \in 1 .. Len(tickets), tickets[t].state = "sent"
    PROVE  Result \in {"none", "dropped"} /\ finalPrefix = NotFinal
  <1>1. t \in Live
    BY DEF Live
  <1>2. pc \notin {"ok", "failed"}
    <2>1. pc \in {"ok", "failed"} => Len(issued) = 0
      BY DEF Inv, Awaited
    <2> QED
      BY <2>1 DEF Inv, Awaited
  <1> QED
    BY <1>1, <1>2, ResultIs DEF Inv, Guarded, TypeOK, Looping

\* Steps that change nothing the caller is promised.
LEMMA Stutters ==
    ASSUME UNCHANGED <<landed, covered, reported>>,
           Looping' <=> Looping, ~Looping => pc' = pc,
           finalPrefix' # NotFinal <=> finalPrefix # NotFinal
    PROVE  UNCHANGED Contract!contractVars
  <1>1. Result' = Result
    BY DEF Result, Looping
  <1>2. Bytes(covered)' = Bytes(covered)
    OBVIOUS
  <1>3. (finalPrefix # NotFinal)' = (finalPrefix # NotFinal)
    BY Zenon DEF NotFinal
  <1> QED
    BY <1>1, <1>2, <1>3 DEF Contract!contractVars, Result

\* A reply is recorded while the write is open, and what it records has landed.
LEMMA Records ==
    ASSUME Inv, Inv', NEW t \in 1 .. Len(tickets), tickets[t].state = "sent",
           UNCHANGED <<pc, reported, finalPrefix>>,
           landed \subseteq landed', Bytes(covered) \subseteq Bytes(covered')
    PROVE  Contract!Record
  <1>1. Result \in {"none", "dropped"} /\ ~(finalPrefix # NotFinal)
    BY SentIsOpen
  <1>2. /\ landed' \subseteq 0 .. Length - 1 /\ Bytes(covered') \subseteq landed'
    BY DEF Inv, TypeOK, InOrder
  <1>3. Contract!SpanBytes = 0 .. Length - 1
    BY DEF Contract!SpanBytes
  <1>4. landed' \in {landed \cup more : more \in SUBSET Contract!SpanBytes}
    <2>1. landed' = landed \cup landed' /\ landed' \in SUBSET Contract!SpanBytes
      BY <1>2, <1>3
    <2> QED
      BY <2>1
  <1>5. Bytes(covered)' \in {Bytes(covered) \cup more :
                               more \in SUBSET (Contract!SpanBytes \cap landed')}
    <2>1. /\ Bytes(covered)' = Bytes(covered) \cup Bytes(covered)'
          /\ Bytes(covered)' \in SUBSET (Contract!SpanBytes \cap landed')
      BY <1>2, <1>3
    <2> QED
      BY <2>1
  <1>6. Result' = Result /\ (finalPrefix # NotFinal)' = (finalPrefix # NotFinal)
    BY DEF Result, NotFinal
  <1> QED
    BY <1>1, <1>4, <1>5, <1>6 DEF Contract!Record, Result

\* The prefix is declared final once, of a call that is over.
LEMMA Completed ==
    ASSUME Inv, Inv', UNCHANGED <<pc, landed, covered, reported>>,
           finalPrefix' = Settle
    PROVE  Contract!Complete \/ UNCHANGED Contract!contractVars
  <1>1. CASE finalPrefix' # NotFinal <=> finalPrefix # NotFinal
    BY <1>1, Stutters DEF Looping
  <1>2. CASE ~(finalPrefix' # NotFinal <=> finalPrefix # NotFinal)
    <2>1. finalPrefix = NotFinal /\ finalPrefix' # NotFinal
      BY <1>2 DEF Settle
    <2>2. issuing # "held" /\ ~Looping
      BY <2>1, SettleIs DEF Inv, Guarded
    <2>3. Result # "none" /\ Result' = Result
      BY <2>2, ResultIs DEF Inv, TypeOK, Looping, Result
    <2>4. ~(finalPrefix # NotFinal) /\ (finalPrefix # NotFinal)' = TRUE
      BY <2>1 DEF NotFinal
    <2>5. Bytes(covered)' = Bytes(covered)
      OBVIOUS
    <2> QED
      BY <2>3, <2>4, <2>5 DEF Contract!Complete, Result
  <1> QED
    BY <1>1, <1>2

\* The call returns.
LEMMA Returns ==
    ASSUME Inv, Return
    PROVE  Contract!ContractNext
  <1>1. /\ UNCHANGED <<landed, covered, finalPrefix>> /\ Result = "none"
        /\ Bytes(covered)' = Bytes(covered)
        /\ (finalPrefix # NotFinal)' = (finalPrefix # NotFinal)
    BY DEF Return, handleVars, Result, NotFinal
  <1>2. CASE failure
    <2>1. finalPrefix = NotFinal
      BY DEF Return, Inv, Guarded, Looping
    <2>2. Result' = "failed" /\ reported' = Prefix(covered)
      BY <1>2, <2>1 DEF Return, Written, Result
    <2>3. reported' = Contract!WrittenFrom(<<0, Length>>[1], Bytes(covered))
      BY <2>2, PrefixCounts
    <2>4. Contract!ReturnError(<<0, Length>>[1])
      BY <1>1, <2>2, <2>3 DEF Contract!ReturnError, Result
    <2> QED
      BY <2>4 DEF Contract!ContractNext
  <1>3. CASE ~failure
    <2>1. Contract!SpanBytes \subseteq Bytes(covered)
      BY <1>3, OkIsAll DEF Contract!SpanBytes
    <2>2. Result' = "ok" /\ reported' = reported
      BY <1>3 DEF Return, Result
    <2>3. Contract!ReturnOk
      BY <1>1, <2>1, <2>2 DEF Contract!ReturnOk, Result
    <2> QED
      BY <2>3 DEF Contract!ContractNext
  <1> QED
    BY <1>2, <1>3

\* The future is dropped.
LEMMA Drops ==
    ASSUME Cancel
    PROVE  Contract!DropWrite
  <1>1. /\ Result = "none" /\ Result' = "dropped" /\ UNCHANGED <<landed, reported>>
        /\ Bytes(covered)' = Bytes(covered)
        /\ (finalPrefix # NotFinal)' = (finalPrefix # NotFinal)
    BY DEF Cancel, handleVars, Result, NotFinal
  <1> QED
    BY <1>1 DEF Contract!DropWrite, Result

\* Every step is a step of the contract, or one it does not see.
LEMMA StepImplements ==
    ASSUME Inv, Inv', [Next]_vars
    PROVE  [Contract!ContractNext]_(Contract!contractVars)
  <1>1. CASE Measure \/ Build \/ Wait
    BY <1>1, Stutters DEF Measure, Build, Wait, handleVars, Looping
  <1>2. CASE Return
    BY <1>2, Returns
  <1>3. CASE PollPends \/ PollTakes
    BY <1>3, Stutters DEF PollPends, PollTakes, callVars, handleVars, Looping
  <1>4. CASE Cancel
    BY <1>4, Drops DEF Contract!ContractNext
  <1>5. CASE ReleaseGuard
    BY <1>5, Stutters DEF ReleaseGuard, callVars, Looping
  <1>6. CASE SettleGuard
    BY <1>6, Completed DEF SettleGuard, callVars, Contract!ContractNext
  <1>7. ASSUME NEW t \in 1 .. Len(tickets), Leave(t)
        PROVE  UNCHANGED Contract!contractVars
    BY <1>7, Stutters DEF Leave, callVars, Looping
  <1>8. ASSUME NEW t \in 1 .. Len(tickets), SettleChunk(t)
        PROVE  [Contract!ContractNext]_(Contract!contractVars)
    BY <1>8, Completed DEF SettleChunk, callVars, Contract!ContractNext
  <1>9. ASSUME NEW t \in 1 .. Len(tickets), Ends(t)
        PROVE  Contract!Record
    <2>1. ASSUME NEW count \in 0 .. Length + 1, Taken(t, count)
          PROVE  Contract!Record
      <3>1. landed \subseteq landed' /\ Bytes(covered) \subseteq Bytes(covered')
        BY <2>1, TakenIs
      <3> QED
        BY <2>1, <3>1, Records DEF Taken, callVars
    <2>2. CASE RefusesSize(t)
      BY <2>2, Records DEF RefusesSize, callVars, handleVars
    <2>3. CASE Errs(t)
      BY <2>3, Records DEF Errs, callVars, handleVars
    <2> QED
      BY <1>9, <2>1, <2>2, <2>3 DEF Ends
  <1>10. CASE OtherDowngrades \/ Over \/ UNCHANGED vars
    BY <1>10, Stutters DEF OtherDowngrades, Over, vars, callVars, handleVars, Looping
  <1> QED
    BY <1>1, <1>2, <1>3, <1>4, <1>5, <1>6, <1>7, <1>8, <1>9, <1>10
       DEF Next, Loop, Handle, Contract!ContractNext

\* write_span, its hooks and its handle implement what File::write_all_at and
\* WriteProgress promise: the prefix never counts a byte that did not reach the
\* server, success is every byte acknowledged, an error carries exactly the prefix
\* recorded, and a prefix declared final stays as it is (progress.rs, file.rs).
THEOREM WriteImplementsContract == Spec => KeepsContract
  <1>1. Init => Contract!ContractInit
    <2> SUFFICES ASSUME Init PROVE Contract!ContractInit
      OBVIOUS
    <2>1. covered \in Ranges /\ Len(covered) = 0
      BY DEF Init, Ranges
    <2>2. Bytes(covered) = {}
      BY <2>1, BytesIn
    <2>3. <<0, Length>> \in Nat \X Nat
      BY ChunkAssumption
    <2> QED
      BY <2>2, <2>3 DEF Init, Contract!ContractInit, NotFinal
  <1>2. Inv /\ Inv' /\ [Next]_vars => [Contract!ContractNext]_(Contract!contractVars)
    BY StepImplements
  <1> QED
    BY <1>1, <1>2, Invariance, PTL DEF Spec, KeepsContract, Contract!ContractSpec

=============================================================================
