----------------------------- MODULE ChunkQueue -----------------------------
(***************************************************************************)
(* What the two chunk loops of src/src/resource/file.rs share: the stack of *)
(* spans to ask for again, the unasked tail that starts at next, and the    *)
(* chunk size of the connection (src/src/connection/mod.rs), which drops    *)
(* for good once a server has refused a large chunk.                       *)
(*                                                                         *)
(* A span is <<start, length>>, measured from the start of the call's own   *)
(* buffer.                                                                 *)
(***************************************************************************)
EXTENDS Coverage

CONSTANTS
    Length,     \* the length of the caller's buffer
    Depth,      \* how deep the loop pipelines
    LargeSize,  \* the chunk size before the downgrade
    SmallSize,  \* the chunk size after it
    Others      \* whether other operations use the same connection

ASSUME ChunkAssumption ==
    /\ Length \in Nat \ {0}
    /\ Depth \in Nat \ {0}
    /\ LargeSize \in Nat \ {0}
    /\ SmallSize \in Nat \ {0}
    /\ Others \in BOOLEAN

Span == (0 .. Length) \X (0 .. Length)

\* The offsets of a span.
Offsets(span) == span[1] .. span[1] + span[2] - 1

\* Connection::chunk_size.
ChunkSize(downgraded) == IF downgraded THEN SmallSize ELSE LargeSize

\* The span the loop asks for next: the top of the queue clamped to the chunk
\* size, or else the start of the tail.
NextSpan(queue, next, size) ==
    IF queue # <<>> THEN <<Last(queue)[1], Min({size, Last(queue)[2]})>>
    ELSE <<next, Min({size, Length - next})>>

\* A mutant of QueueAfter: what a clamped span leaves over is dropped.
QueueAfterDropping(queue, size) == IF queue = <<>> THEN queue ELSE Front(queue)

\* The queue once that span has been taken: what clamping left over goes back.
QueueAfter(queue, size) ==
    IF queue = <<>> THEN queue
    ELSE IF size < Last(queue)[2]
    THEN Append(Front(queue), <<Last(queue)[1] + size, Last(queue)[2] - size>>)
    ELSE Front(queue)

NextAfter(queue, next, size) ==
    IF queue = <<>> THEN next + Min({size, Length - next}) ELSE next
=============================================================================
