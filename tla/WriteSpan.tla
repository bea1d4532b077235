----------------------------- MODULE WriteSpan -----------------------------
(***************************************************************************)
(* One File::write_all_at: the chunk loop write_span                       *)
(* (src/src/resource/file.rs), the WriteProgress handle it records on       *)
(* (src/src/resource/progress.rs), the connection actor that ends each      *)
(* chunk's request and applies the chunk's hook, and the server.           *)
(*                                                                         *)
(* Three threads meet on the handle: the call, which the caller may drop    *)
(* while it waits; the actor, which applies a chunk's hook whether or not   *)
(* the call is still there; and whoever reads written() and completed().    *)
(* The hook takes the handle's lock three times (to record the range, to    *)
(* leave the group, to settle), and so it is three steps here.             *)
(***************************************************************************)
EXTENDS ChunkQueue

CONSTANT Overclaims  \* whether the server acknowledges more than it was sent

ASSUME OverclaimsAssumption == Overclaims \in BOOLEAN

VARIABLES
    \* The call.
    pc,         \* "fill" and "build" in the issuing loop, "await" an answer,
                \* "ok" or "failed" once returned, "dropped" once cancelled
    size,       \* the chunk size as it was read for the chunk being built
    queue,      \* spans to issue again, a stack
    next,       \* where the tail not yet issued starts
    issued,     \* the chunks being awaited, by ticket, in order of issue
    failure,    \* whether the first error has been met
    reported,   \* the prefix carried by WritePartial, -1 before
    \* The chunks and their tickets, in the order they were made.
    tickets,
    \* The handle.
    covered, outstanding, issuing, finalPrefix,
    \* The connection and the server.
    downgraded,
    landed      \* the bytes of the span that reached the file

callVars == <<pc, size, queue, next, issued, failure, reported>>
handleVars == <<covered, outstanding, issuing, finalPrefix>>
vars == <<callVars, tickets, handleVars, downgraded, landed>>

NotFinal == -1

\* A ticket is "built" until the chunk's future is first polled and its request
\* "sent"; "ending" once the range is recorded, "left" once it is out of the
\* group, and "done" once the hook is over and the answer is there to take.
Ticket == [start : 0 .. Length, length : 1 .. Length, large : BOOLEAN,
           state : {"built", "sent", "ending", "left", "done"},
           answer : {"none", "taken", "refused", "error", "abandoned"},
           count : 0 .. Length + 1]

\* register() and the first lines of write_span.
Init ==
    /\ pc = "fill" /\ size = LargeSize
    /\ queue = <<>> /\ next = 0 /\ issued = <<>>
    /\ failure = FALSE /\ reported = NotFinal
    /\ tickets = <<>>
    /\ covered = <<>> /\ outstanding = 0
    /\ issuing = "held" /\ finalPrefix = NotFinal
    /\ downgraded = FALSE
    /\ landed = {}

\* WriteProgress::written.
Written == IF finalPrefix # NotFinal THEN finalPrefix ELSE Prefix(covered)

-----------------------------------------------------------------------------
(* The call. *)

\* The loop still has a chunk to issue, and room for it.
Wants == ~failure /\ Len(issued) < Depth /\ (queue # <<>> \/ next < Length)

\* The chunk size is read ...
Measure ==
    /\ pc = "fill" /\ Wants
    /\ size' = ChunkSize(downgraded)
    /\ pc' = "build"
    /\ UNCHANGED <<queue, next, issued, failure, reported, tickets, handleVars,
                   downgraded, landed>>

\* ... and then, by write_chunk, whether the connection is downgraded; the
\* ticket enters the group.
Build ==
    /\ pc = "build"
    /\ LET span == NextSpan(queue, next, size)
       IN  tickets' = Append(tickets,
                        [start |-> span[1], length |-> span[2],
                         large |-> ~downgraded, state |-> "built",
                         answer |-> "none", count |-> 0])
    /\ issued' = Append(issued, Len(tickets) + 1)
    /\ queue' = QueueAfter(queue, size)
    /\ next' = NextAfter(queue, next, size)
    /\ outstanding' = outstanding + 1
    /\ pc' = "fill"
    /\ UNCHANGED <<size, failure, reported, covered, issuing, finalPrefix,
                   downgraded, landed>>

Wait ==
    /\ pc = "fill" /\ ~Wants /\ issued # <<>>
    /\ pc' = "await"
    /\ UNCHANGED <<size, queue, next, issued, failure, reported, tickets,
                   handleVars, downgraded, landed>>

\* Every chunk has been answered: the error carries the prefix as it stands.
Return ==
    /\ pc = "fill" /\ ~Wants /\ issued = <<>>
    /\ pc' = IF failure THEN "failed" ELSE "ok"
    /\ reported' = IF failure THEN Written ELSE reported
    /\ UNCHANGED <<size, queue, next, issued, failure, tickets, handleVars,
                   downgraded, landed>>

\* The positions in issued whose answer is there.
Answered == {i \in 1 .. Len(issued) : tickets[issued[i]].state = "done"}

\* Polling the chunks of issued up to position n sends those not sent yet.
SentUpTo(n) ==
    [t \in 1 .. Len(tickets) |->
       IF tickets[t].state = "built" /\ \E i \in 1 .. n : issued[i] = t
       THEN [tickets[t] EXCEPT !.state = "sent"] ELSE tickets[t]]

\* first_answered pends: every chunk has been polled.  A request the channel
\* refuses, the actor having gone, is here one sent and then lost.
PollPends ==
    /\ pc = "await" /\ Answered = {}
    /\ \E i \in 1 .. Len(issued) : tickets[issued[i]].state = "built"
    /\ tickets' = SentUpTo(Len(issued))
    /\ UNCHANGED <<callVars, handleVars, downgraded, landed>>

\* acknowledge(): what is left to issue again.
Again(ticket) ==
    IF ticket.answer = "refused" /\ ticket.large
    THEN << <<ticket.start, ticket.length>> >>
    ELSE IF ticket.answer = "taken" /\ ticket.count \in 1 .. ticket.length - 1
    THEN << <<ticket.start + ticket.count, ticket.length - ticket.count>> >>
    ELSE <<>>

\* acknowledge(): whether the answer is an error, an acknowledgement of nothing
\* included.
Fails(ticket) ==
    \/ ticket.answer = "error"
    \/ ticket.answer = "refused" /\ ~ticket.large
    \/ ticket.answer = "taken" /\ ticket.count = 0

\* first_answered stops at the first chunk that is ready, in order of issue; the
\* chunks after it are not polled.
PollTakes ==
    /\ pc = "await" /\ Answered # {}
    /\ LET i == Min(Answered)
           ticket == tickets[issued[i]]
       IN  /\ tickets' = SentUpTo(i - 1)
           /\ issued' = RemoveAt(issued, i)
           /\ queue' = queue \o Again(ticket)
           /\ failure' = (failure \/ Fails(ticket))
           /\ downgraded' = (downgraded \/ ticket.answer = "refused")
    /\ pc' = "fill"
    /\ UNCHANGED <<size, next, reported, handleVars, landed>>

\* A mutant of Cancel: a chunk that never reached the actor stays in the group.
CancelForgets ==
    /\ pc = "await"
    /\ pc' = "dropped"
    /\ UNCHANGED <<size, queue, next, issued, failure, reported, tickets,
                   handleVars, downgraded, landed>>

\* The caller drops the future while it waits.  Each chunk not yet handed to
\* the actor is dropped with it and leaves the group through its own Drop; a
\* chunk that has been handed over stays on the wire.
Cancel ==
    /\ pc = "await"
    /\ pc' = "dropped"
    /\ \E lost \in SUBSET {t \in 1 .. Len(tickets) : tickets[t].state = "sent"} :
         tickets' = [t \in 1 .. Len(tickets) |->
                       IF tickets[t].state = "built" \/ t \in lost
                       THEN [tickets[t] EXCEPT !.state = "ending",
                                               !.answer = "abandoned"]
                       ELSE tickets[t]]
    /\ UNCHANGED <<size, queue, next, issued, failure, reported, handleVars,
                   downgraded, landed>>

-----------------------------------------------------------------------------
(* The handle. *)

\* A mutant of Settle: a group that is empty for the moment is settled.
SettleEmpty == IF outstanding > 0 \/ finalPrefix # NotFinal THEN finalPrefix
               ELSE Prefix(covered)

\* Inner::settle, under the lock; the completion signal follows it.
Settle == IF issuing = "held" \/ outstanding > 0 \/ finalPrefix # NotFinal
          THEN finalPrefix ELSE Prefix(covered)

\* The call is over, its chunks are dropped, and the issuing guard goes.
ReleaseGuard ==
    /\ pc \in {"ok", "failed", "dropped"} /\ issuing = "held"
    /\ \A t \in 1 .. Len(tickets) :
         tickets[t].answer = "abandoned" => tickets[t].state = "done"
    /\ issuing' = "released"
    /\ UNCHANGED <<callVars, tickets, covered, outstanding, finalPrefix,
                   downgraded, landed>>

SettleGuard ==
    /\ issuing = "released"
    /\ finalPrefix' = Settle
    /\ issuing' = "gone"
    /\ UNCHANGED <<callVars, tickets, covered, outstanding, downgraded, landed>>

\* Chunk::leave.
Leave(t) ==
    /\ tickets[t].state = "ending"
    /\ tickets' = [tickets EXCEPT ![t].state = "left"]
    /\ outstanding' = outstanding - 1
    /\ UNCHANGED <<callVars, covered, issuing, finalPrefix, downgraded, landed>>

SettleChunk(t) ==
    /\ tickets[t].state = "left"
    /\ finalPrefix' = Settle
    /\ tickets' = [tickets EXCEPT ![t].state = "done"]
    /\ UNCHANGED <<callVars, covered, outstanding, issuing, downgraded, landed>>

-----------------------------------------------------------------------------
(* The actor ends a request, and Chunk::ended records what the reply says.  *)

\* The count is clamped to what the chunk offered.
Recorded(ticket, count) == Min({count, ticket.length})

\* A SUCCESS reply that acknowledges count bytes.  The server took no more than
\* it was sent.
Taken(t, count) ==
    /\ tickets[t].state = "sent"
    /\ count <= tickets[t].length \/ Overclaims
    /\ LET ticket == tickets[t]
       IN  /\ covered' = IF Overlaps(covered, ticket.start, Recorded(ticket, count))
                         THEN covered
                         ELSE Cover(covered, ticket.start, Recorded(ticket, count))
           /\ landed' = landed \cup Offsets(<<ticket.start,
                                              Min({count, ticket.length})>>)
    /\ tickets' = [tickets EXCEPT ![t].state = "ending", ![t].answer = "taken",
                                  ![t].count = count]
    /\ UNCHANGED <<callVars, outstanding, issuing, finalPrefix, downgraded>>

\* A status that refuses the size.
RefusesSize(t) ==
    /\ tickets[t].state = "sent"
    /\ tickets' = [tickets EXCEPT ![t].state = "ending", ![t].answer = "refused"]
    /\ UNCHANGED <<callVars, handleVars, downgraded, landed>>

\* Any other end: another status, the lapse of the request, the connection
\* failing.  What the server wrote before it, nobody is told.
Errs(t) ==
    /\ tickets[t].state = "sent"
    /\ \E n \in 0 .. tickets[t].length :
         landed' = landed \cup Offsets(<<tickets[t].start, n>>)
    /\ tickets' = [tickets EXCEPT ![t].state = "ending", ![t].answer = "error"]
    /\ UNCHANGED <<callVars, handleVars, downgraded>>

\* Another operation on the same connection meets a refusal.
OtherDowngrades ==
    /\ Others /\ ~downgraded
    /\ downgraded' = TRUE
    /\ UNCHANGED <<callVars, tickets, handleVars, landed>>

-----------------------------------------------------------------------------
Loop == Measure \/ Build \/ Wait \/ Return \/ PollPends \/ PollTakes

Ends(t) == \/ \E count \in 0 .. Length + 1 : Taken(t, count)
           \/ RefusesSize(t) \/ Errs(t)

Handle == \/ ReleaseGuard \/ SettleGuard
          \/ \E t \in 1 .. Len(tickets) : Leave(t) \/ SettleChunk(t)

\* The call and its guard have gone.
Over == issuing = "gone" /\ UNCHANGED vars

Next == \/ Loop \/ Cancel \/ Handle
        \/ \E t \in 1 .. Len(tickets) : Ends(t)
        \/ OtherDowngrades
        \/ Over

Spec == Init /\ [][Next]_vars

\* The runtime polls the call while it is not dropped, the hook runs to its
\* end, and every request on the wire ends: module Connection shows that one
\* does, answered or lapsed or failed.
FairSpec ==
    /\ Spec
    /\ WF_vars(Loop) /\ WF_vars(Handle)
    /\ WF_vars(\E t \in 1 .. Len(tickets) : Ends(t))

-----------------------------------------------------------------------------
(* Properties. *)

\* The type of every variable.
TypeOK ==
    /\ pc \in {"fill", "build", "await", "ok", "failed", "dropped"}
    /\ size \in {LargeSize, SmallSize}
    /\ queue \in Seq(Span)
    /\ next \in 0 .. Length
    /\ issued \in Seq(1 .. Len(tickets)) /\ Len(issued) <= Depth
    /\ failure \in BOOLEAN
    /\ reported \in -1 .. Length
    /\ tickets \in Seq(Ticket)
    /\ covered \in Seq(Nat \X Nat)
    /\ outstanding \in Nat
    /\ issuing \in {"held", "released", "gone"}
    /\ finalPrefix \in -1 .. Length
    /\ downgraded \in BOOLEAN
    /\ landed \in SUBSET (0 .. Length - 1)

\* What the call and the handle amount to.
Contract == INSTANCE WriteContract WITH
    span <- <<0, Length>>,
    recorded <- Bytes(covered),
    result <- CASE pc \in {"fill", "build", "await"} -> "none" [] OTHER -> pc,
    final <- finalPrefix # NotFinal

\* The chunk loop, its hooks and its handle implement the write a caller is
\* promised: a prefix that is never more than what reached the server, whatever
\* the replies claim and in whatever order they come (progress.rs:95); one that is
\* declared final at last and does not grow afterwards (progress.rs:66); success
\* only with every byte acknowledged, and an error whose prefix accounts for every
\* request the call made (file.rs:550).
KeepsContract == Contract!ContractSpec

\* What a chunk still awaited stands for: all of it, less what was taken.
Remaining(ticket) ==
    LET taken == IF ticket.answer = "taken"
                 THEN Min({ticket.count, ticket.length}) ELSE 0
    IN  Offsets(<<ticket.start + taken, ticket.length - taken>>)

\* How many places answer for the byte at offset o.
Places(o) ==
    Cardinality({i \in 1 .. Len(issued) : o \in Remaining(tickets[issued[i]])})
      + Cardinality({i \in 1 .. Len(queue) : o \in Offsets(queue[i])})
      + Cardinality({o} \cap Bytes(covered))
      + Cardinality({o} \cap (next .. Length - 1))

\* The loop gives every byte to exactly one place: acknowledged, in one chunk
\* awaited, in one span to issue again, or in the tail.  A byte in two places
\* would be written twice; a byte in none would never be written.
Partitioned ==
    pc \in {"fill", "build", "await"} /\ ~failure
      => \A o \in 0 .. Length - 1 : Places(o) = 1

\* progress.rs:110: a caller that awaits completed() is not left waiting,
\* whether the write returned, failed or was dropped.
Completes == <>(finalPrefix # NotFinal)
=============================================================================
