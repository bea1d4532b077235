------------------------------ MODULE ReadSpan ------------------------------
(***************************************************************************)
(* One read: the fill loop read_span and the two calls that judge what it   *)
(* brought back, File::read_exact_at and File::read_to_end                 *)
(* (src/src/resource/file.rs), over a file whose length another writer may  *)
(* change between two replies.                                             *)
(***************************************************************************)
EXTENDS ChunkQueue

CONSTANT FileLengths  \* the lengths the file may have while the read runs

ASSUME FileAssumption == FileLengths \subseteq Nat

VARIABLES
    pc,         \* "fill", "build" and "await" as in WriteSpan, then "judge",
                \* "done" or "failed"
    size, queue, next, issued,
    chunks,     \* every chunk made, in order
    covered,    \* the ranges that arrived
    buffer,     \* the offsets of the buffer that hold the server's bytes
    atEnd,      \* whether the far end was reached
    overlapped, \* whether two chunks answered for the same bytes
    downgraded,
    fileLength

callVars == <<pc, size, queue, next, issued, covered, buffer, atEnd, overlapped>>
vars == <<callVars, chunks, downgraded, fileLength>>

Chunk == [start : 0 .. Length, length : 1 .. Length, large : BOOLEAN,
          state : {"built", "sent", "done"},
          answer : {"none", "data", "end", "refused", "error"},
          got : 0 .. Length]

Init ==
    /\ pc = "fill" /\ size = LargeSize
    /\ queue = <<>> /\ next = 0 /\ issued = <<>>
    /\ chunks = <<>>
    /\ covered = <<>> /\ buffer = {}
    /\ atEnd = FALSE /\ overlapped = FALSE
    /\ downgraded = FALSE
    /\ fileLength \in FileLengths

-----------------------------------------------------------------------------
(* The fill loop. *)

\* Once the end has been seen the tail is not asked for; what a short answer
\* left behind still is.
Wants == /\ Len(issued) < Depth
         /\ queue # <<>> \/ (~atEnd /\ next < Length)

Measure ==
    /\ pc = "fill" /\ Wants
    /\ size' = ChunkSize(downgraded)
    /\ pc' = "build"
    /\ UNCHANGED <<queue, next, issued, covered, buffer, atEnd, overlapped,
                   chunks, downgraded, fileLength>>

Build ==
    /\ pc = "build"
    /\ LET span == NextSpan(queue, next, size)
       IN  chunks' = Append(chunks,
                       [start |-> span[1], length |-> span[2],
                        large |-> ~downgraded, state |-> "built",
                        answer |-> "none", got |-> 0])
    /\ issued' = Append(issued, Len(chunks) + 1)
    /\ queue' = QueueAfter(queue, size)
    /\ next' = NextAfter(queue, next, size)
    /\ pc' = "fill"
    /\ UNCHANGED <<size, covered, buffer, atEnd, overlapped, downgraded,
                   fileLength>>

\* A mutant of Wait: the loop waits though nothing has been issued.
WaitAlways ==
    /\ pc = "fill" /\ ~Wants
    /\ pc' = "await"
    /\ UNCHANGED <<size, queue, next, issued, covered, buffer, atEnd,
                   overlapped, chunks, downgraded, fileLength>>

Wait ==
    /\ pc = "fill" /\ ~Wants
    /\ pc' = IF issued # <<>> THEN "await" ELSE "judge"
    /\ UNCHANGED <<size, queue, next, issued, covered, buffer, atEnd,
                   overlapped, chunks, downgraded, fileLength>>

Answered == {i \in 1 .. Len(issued) : chunks[issued[i]].state = "done"}

SentUpTo(n) ==
    [c \in 1 .. Len(chunks) |->
       IF chunks[c].state = "built" /\ \E i \in 1 .. n : issued[i] = c
       THEN [chunks[c] EXCEPT !.state = "sent"] ELSE chunks[c]]

PollPends ==
    /\ pc = "await" /\ Answered = {}
    /\ \E i \in 1 .. Len(issued) : chunks[issued[i]].state = "built"
    /\ chunks' = SentUpTo(Len(issued))
    /\ UNCHANGED <<callVars, downgraded, fileLength>>

\* A mutant of Again: a short answer is taken for the end of its chunk.
AgainRefused(chunk) ==
    IF chunk.answer = "refused" THEN << <<chunk.start, chunk.length>> >> ELSE <<>>

\* What the answer leaves to ask for again: a size refused, a short answer.
Again(chunk) ==
    IF chunk.answer = "refused" THEN << <<chunk.start, chunk.length>> >>
    ELSE IF chunk.answer = "data" /\ chunk.got \in 1 .. chunk.length - 1
    THEN << <<chunk.start + chunk.got, chunk.length - chunk.got>> >>
    ELSE <<>>

\* STATUS_END_OF_FILE, or no bytes: a chunk answered so is never re-issued.
EndSeen(chunk) ==
    chunk.answer = "end" \/ (chunk.answer = "data" /\ chunk.got = 0)

\* An answer the loop goes on from.
GoesOn(chunk) ==
    \/ chunk.answer \in {"data", "end"}
    \/ chunk.answer = "refused" /\ chunk.large

\* Data for bytes the coverage already holds ends the call too.
Repeats(chunk) == chunk.answer = "data"
                    /\ Overlaps(covered, chunk.start, chunk.got)

PollTakes ==
    /\ pc = "await" /\ Answered # {}
    /\ LET i == Min(Answered)
           chunk == chunks[issued[i]]
       IN  /\ chunks' = SentUpTo(i - 1)
           /\ issued' = RemoveAt(issued, i)
           /\ downgraded' = (downgraded \/ chunk.answer = "refused")
           /\ buffer' = buffer \cup Offsets(<<chunk.start, chunk.got>>)
           /\ overlapped' = Repeats(chunk)
           /\ IF GoesOn(chunk) /\ ~Repeats(chunk)
              THEN /\ queue' = queue \o Again(chunk)
                   /\ atEnd' = (atEnd \/ EndSeen(chunk))
                   /\ covered' = Cover(covered, chunk.start, chunk.got)
                   /\ pc' = "fill"
              ELSE /\ pc' = "failed"
                   /\ UNCHANGED <<queue, atEnd, covered>>
    /\ UNCHANGED <<size, next, fileLength>>

-----------------------------------------------------------------------------
(* What the two calls make of a fill. *)

\* A mutant of Filled: the far end is all that is looked at.
FilledFarEnd == Bytes(covered) # {} /\ Max(Bytes(covered)) = Length - 1

\* read_exact_at succeeds.
Filled == Gap(covered, Length) = NoGap

\* read_to_end succeeds: what is missing is the far end, and nothing else.
ShortOnly == Gap(covered, Length) = NoGap \/ Gap(covered, Length)[2] = Length

\* What read_to_end returns when it succeeds.
Returned == Prefix(covered)

Judge ==
    /\ pc = "judge"
    /\ pc' = "done"
    /\ UNCHANGED <<size, queue, next, issued, covered, buffer, atEnd,
                   overlapped, chunks, downgraded, fileLength>>

-----------------------------------------------------------------------------
(* The server, and whoever else uses the file and the connection. *)

\* A reply with n bytes, of those the file holds now.
Serves(c, n) ==
    /\ chunks[c].state = "sent"
    /\ n <= chunks[c].length
    /\ n > 0 => chunks[c].start + n <= fileLength
    /\ chunks' = [chunks EXCEPT ![c].state = "done", ![c].answer = "data",
                                ![c].got = n]
    /\ UNCHANGED <<callVars, downgraded, fileLength>>

\* A status: the end of the file, a size refused, or any other.
Answers(c, answer) ==
    /\ chunks[c].state = "sent"
    /\ answer = "end" => chunks[c].start >= fileLength
    /\ chunks' = [chunks EXCEPT ![c].state = "done", ![c].answer = answer]
    /\ UNCHANGED <<callVars, downgraded, fileLength>>

Resized ==
    /\ pc \notin {"judge", "done", "failed"}
    /\ fileLength' \in FileLengths \ {fileLength}
    /\ UNCHANGED <<callVars, chunks, downgraded>>

OtherDowngrades ==
    /\ Others /\ ~downgraded
    /\ downgraded' = TRUE
    /\ UNCHANGED <<callVars, chunks, fileLength>>

Over == pc \in {"done", "failed"} /\ UNCHANGED vars

-----------------------------------------------------------------------------
Loop == Measure \/ Build \/ Wait \/ PollPends \/ PollTakes \/ Judge

Server == \E c \in 1 .. Len(chunks) :
            \/ \E n \in 0 .. Length : Serves(c, n)
            \/ \E answer \in {"end", "refused", "error"} : Answers(c, answer)

Next == Loop \/ Server \/ Resized \/ OtherDowngrades \/ Over

Spec == Init /\ [][Next]_vars

\* The caller goes on polling, and every request on the wire ends.
FairSpec == Spec /\ WF_vars(Loop) /\ WF_vars(Server)

-----------------------------------------------------------------------------
(* Properties. *)

\* The type of every variable.
TypeOK ==
    /\ pc \in {"fill", "build", "await", "judge", "done", "failed"}
    /\ size \in {LargeSize, SmallSize}
    /\ queue \in Seq(Span)
    /\ next \in 0 .. Length
    /\ issued \in Seq(1 .. Len(chunks)) /\ Len(issued) <= Depth
    /\ chunks \in Seq(Chunk)
    /\ covered \in Seq(Nat \X Nat)
    /\ buffer \in SUBSET (0 .. Length - 1)
    /\ atEnd \in BOOLEAN /\ overlapped \in BOOLEAN
    /\ downgraded \in BOOLEAN
    /\ fileLength \in FileLengths

\* file.rs:5 and :637: read_exact_at returns Ok only with every byte of the buffer
\* read from the server, through short answers, refused sizes and replies out of
\* order, and read_to_end drops nothing it was given: what it returns is
\* everything that arrived.
JudgedRight ==
    pc = "done" => /\ Filled => buffer = 0 .. Length - 1
                   /\ ShortOnly => buffer = 0 .. Returned - 1

\* file.rs:109 and :454: the end a fill reports is one the server reported, at the
\* first offset that is missing and not at some other chunk's; a fill that reports
\* none is full; and no byte is answered for twice.  The reader adapter serves the
\* prefix and takes the flag for the end of the file.
EndIsReal ==
    /\ ~overlapped
    /\ pc = "judge" =>
         IF atEnd THEN \E c \in 1 .. Len(chunks) :
                         chunks[c].start = Prefix(covered) /\ EndSeen(chunks[c])
         ELSE buffer = 0 .. Length - 1

\* file.rs:21: the loop ends, whatever the answers, no chunk answered with
\* nothing being asked again.
FillEnds == <>(pc \in {"done", "failed"})
=============================================================================
