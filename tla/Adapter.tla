------------------------------- MODULE Adapter -------------------------------
(***************************************************************************)
(* A copy through the two adapters of src/src/resource/adapter.rs: a caller *)
(* reads from a FileReader over one file and writes what it got to a        *)
(* FileWriter over another.  Behind the reader is the fill of module         *)
(* ReadSpan, behind the writer the span write of module WriteContract.      *)
(*                                                                         *)
(* An operation is one future of the caller's: it is polled until it is     *)
(* ready, or dropped between two polls.  What an adapter has in flight is   *)
(* the adapter's and stays with it; it advances only once it was polled.    *)
(***************************************************************************)
EXTENDS WriteContract, Sequences, SequencesExt

CONSTANTS
    FillSize,     \* the bytes of a whole read-ahead
    Capacity,     \* the bytes the writer buffers
    SourceLength, \* the bytes of the source, numbered from 0
    Wants,        \* the sizes the caller reads by
    OldLength,    \* the length of the destination when it was opened
    Start,        \* where writes start: 0, or OldLength when appending
    MaxFaults     \* the most fills and spans that fail

ASSUME AdapterAssumption ==
    /\ FillSize \in Nat \ {0} /\ Capacity \in Nat \ {0}
    /\ SourceLength \in Nat /\ Wants \subseteq Nat
    /\ OldLength \in Nat /\ Start \in {0, OldLength} /\ MaxFaults \in Nat

VARIABLES
    \* The caller.
    op,         \* the operation being polled, "gone" once the writer is
    want,       \* how much a read asks for
    told,       \* what the last operation returned
    hand,       \* the bytes read and not yet accepted
    accepted,   \* the bytes accepted by the writer, in order
    sound,      \* how many had been accepted at the last error
    \* The reader.
    place,      \* its cursor
    held,       \* the bytes of the last fill that are not taken yet
    atEnd,
    filling,    \* "none", "running", and then "failed" or "filled"
    filled,     \* what it brought back
    \* The writer.
    cursor,
    buffer,
    flushing,   \* "none", "boxed" until polled, "polled", or "direct" in into_inner
    flushed,    \* the bytes of the span in flight
    pending,    \* pending_length, -1 for None
    len,        \* File::len
    \* The servers.
    length,     \* the length of the source now
    file,       \* what the destination holds, by offset
    faults,
    failures    \* the spans that failed and whose error was not returned yet

caller == <<op, want, told, hand, accepted, sound>>
reader == <<place, held, atEnd, filling, filled>>
writer == <<cursor, buffer, flushing, flushed, pending, len>>
servers == <<length, file, faults, failures>>
vars == <<caller, reader, writer, servers, contractVars>>

None == -1
Larger(a, b) == IF a > b THEN a ELSE b
Smaller(a, b) == IF a < b THEN a ELSE b
Numbers(from, to) == [i \in 1 .. to - from |-> from + i - 1]

Init ==
    /\ op = "idle" /\ want = 0 /\ told = "nothing" /\ hand = <<>>
    /\ accepted = <<>> /\ sound = 0
    /\ place = 0 /\ held = <<>> /\ atEnd = FALSE /\ filling = "none"
    /\ filled = <<>>
    /\ cursor = Start /\ buffer = <<>> /\ flushing = "none" /\ flushed = <<>>
    /\ pending = None /\ len = OldLength
    /\ length = SourceLength
    /\ file = [o \in 0 .. Start + SourceLength - 1 |-> None]
    /\ faults = 0 /\ failures = 0
    /\ span = <<Start, Start>> /\ landed = {} /\ recorded = {}
    /\ result = "ok" /\ reported = -1 /\ final = FALSE

-----------------------------------------------------------------------------
(* The caller. *)

Call(operation, n) ==
    /\ op = "idle"
    /\ op' = operation /\ want' = n
    /\ UNCHANGED <<told, hand, accepted, sound, reader, writer, servers, contractVars>>

CallRead == hand = <<>> /\ \E n \in Wants : Call("read", n)
CallWrite == Call("write", 0)
CallFlush == Call("flush", 0)
CallIntoInner == Call("into_inner", 0)

Returns(answer) == op' = "idle" /\ told' = answer /\ UNCHANGED want

\* The future of a read, a write or a flush is dropped between two polls.
Abandon ==
    /\ op \in {"read", "write", "flush"}
    /\ Returns("nothing")
    /\ UNCHANGED <<hand, accepted, sound, reader, writer, servers, contractVars>>

-----------------------------------------------------------------------------
(* FileReader. *)

\* poll_read hands bytes out of the buffer; none at the end, and no error.
Serve(bytes) ==
    /\ hand' = SubSeq(bytes, 1, Smaller(want, Len(bytes)))
    /\ held' = SubSeq(bytes, Smaller(want, Len(bytes)) + 1, Len(bytes))
    /\ Returns(IF bytes = <<>> THEN "end" ELSE "bytes")
    /\ UNCHANGED <<accepted, sound>>

ReadHeld ==
    /\ op = "read" /\ (held # <<>> \/ atEnd)
    /\ Serve(held)
    /\ UNCHANGED <<place, atEnd, filling, filled, writer, servers, contractVars>>

\* A fill is boxed and polled once it is needed.
StartFill ==
    /\ op = "read" /\ held = <<>> /\ ~atEnd /\ filling = "none"
    /\ filling' = "running"
    /\ UNCHANGED <<caller, place, held, atEnd, filled, writer, servers, contractVars>>

\* What ReadSpan!EndIsReal promises: full, or up to an end the server reported.
FillEnds ==
    /\ filling = "running"
    /\ \/ /\ filling' = "filled"
          /\ filled' = Numbers(place, Larger(place, Smaller(place + FillSize, length)))
          /\ UNCHANGED faults
       \/ /\ faults < MaxFaults /\ faults' = faults + 1
          /\ filling' = "failed" /\ UNCHANGED filled
    /\ UNCHANGED <<caller, place, held, atEnd, writer, length, file, failures, contractVars>>

\* A mutant of TakeFill: the cursor moves though the fill failed.
TakeFillMoving ==
    /\ op = "read" /\ filling \in {"failed", "filled"}
    /\ filling' = "none" /\ filled' = <<>>
    /\ place' = place + (IF filling = "failed" THEN FillSize ELSE Len(filled))
    /\ \/ /\ filling = "failed"
          /\ Returns("error") /\ UNCHANGED <<hand, accepted, sound, held, atEnd>>
       \/ /\ filling = "filled"
          /\ atEnd' = (Len(filled) < FillSize)
          /\ Serve(filled)
    /\ UNCHANGED <<writer, servers, contractVars>>

\* The poll that finds a fill finished.  An error moves nothing, and the next
\* read fills from the same place.
TakeFill ==
    /\ op = "read" /\ filling \in {"failed", "filled"}
    /\ filling' = "none" /\ filled' = <<>>
    /\ \/ /\ filling = "failed"
          /\ Returns("error") /\ UNCHANGED <<hand, accepted, sound, place, held, atEnd>>
       \/ /\ filling = "filled"
          /\ place' = place + Len(filled)
          /\ atEnd' = (Len(filled) < FillSize)
          /\ Serve(filled)
    /\ UNCHANGED <<writer, servers, contractVars>>

-----------------------------------------------------------------------------
(* FileWriter. *)

Finished == flushing \in {"polled", "direct"} /\ result \in {"ok", "failed"}

\* What poll_flushing leaves in the buffer: the one it hands back is cleared.
Kept == IF flushing = "none" THEN buffer ELSE <<>>

\* settle: the length a flush that succeeded earned.
Settled == IF flushing # "none" /\ result = "ok" THEN Larger(len, pending) ELSE len

\* poll_flushing is ready, and not with an error.
FlushReady == flushing = "none" \/ (Finished /\ result = "ok")

\* The first poll of a boxed flush.
PollBoxed ==
    /\ op \in {"write", "flush", "into_inner"} /\ flushing = "boxed"
    /\ flushing' = "polled"
    /\ UNCHANGED <<caller, reader, cursor, buffer, flushed, pending, len, servers, contractVars>>

\* A span write of bytes at the cursor begins.
BeginSpan(bytes) ==
    /\ span' = <<cursor, cursor + Len(bytes)>> /\ flushed' = bytes
    /\ result' = "none" /\ reported' = -1
    /\ UNCHANGED <<landed, recorded, final>>

\* A mutant of StartFlush: the length is claimed when the flush starts.
StartFlushClaiming(bytes, state) ==
    /\ BeginSpan(bytes)
    /\ cursor' = cursor + Len(bytes) /\ pending' = cursor + Len(bytes)
    /\ len' = Larger(len, cursor + Len(bytes))
    /\ buffer' = <<>> /\ flushing' = state

\* start_flush: the cursor advances, the length waits.
StartFlush(bytes, state) ==
    /\ BeginSpan(bytes)
    /\ cursor' = cursor + Len(bytes) /\ pending' = cursor + Len(bytes)
    /\ len' = Settled
    /\ buffer' = <<>> /\ flushing' = state

\* The buffer as it stands, with no flush.
Hold(bytes) ==
    /\ buffer' = bytes /\ flushing' = "none" /\ pending' = None /\ len' = Settled
    /\ UNCHANGED <<cursor, flushed, contractVars>>

\* The error of a flush goes to whichever operation polls it, once, and takes the
\* bytes of the flush with it.
TakeError ==
    /\ op \in {"write", "flush", "into_inner"} /\ flushing = "polled" /\ result = "failed"
    /\ Hold(<<>>)
    /\ op' = IF op = "into_inner" THEN "gone" ELSE "idle"
    /\ told' = "error" /\ sound' = Len(accepted) /\ failures' = failures - 1
    /\ UNCHANGED <<want, hand, accepted, reader, length, file, faults>>

Taking(kept) == Smaller(Capacity - Len(kept), Len(hand))

\* poll_write: behind a flush, as much as there is room for.
PollWrite ==
    /\ op = "write" /\ FlushReady
    /\ \E bytes \in {Kept \o SubSeq(hand, 1, Taking(Kept))} :
         IF hand # <<>> /\ Len(bytes) >= Capacity THEN StartFlush(bytes, "boxed") ELSE Hold(bytes)
    /\ accepted' = accepted \o SubSeq(hand, 1, Taking(Kept))
    /\ hand' = SubSeq(hand, Taking(Kept) + 1, Len(hand))
    /\ Returns(IF hand # <<>> /\ Taking(Kept) = 0 THEN "untaken" ELSE "written")
    /\ UNCHANGED <<sound, reader, servers>>

\* A mutant of PollFlush: an empty buffer is taken for a flushed one.
PollFlushBuffer ==
    /\ op = "flush"
    /\ \/ /\ buffer = <<>>
          /\ Returns("flushed") /\ UNCHANGED <<hand, accepted, sound, writer, contractVars>>
       \/ /\ buffer # <<>> /\ FlushReady /\ Kept # <<>>
          /\ StartFlush(Kept, "polled") /\ UNCHANGED caller
    /\ UNCHANGED <<reader, servers>>

\* poll_flush and poll_shutdown: until nothing is in flight and nothing buffered.
PollFlush ==
    /\ op = "flush" /\ FlushReady
    /\ \/ /\ Kept = <<>>
          /\ Hold(<<>>) /\ Returns("flushed") /\ UNCHANGED <<hand, accepted, sound>>
       \/ /\ Kept # <<>>
          /\ StartFlush(Kept, "polled") /\ UNCHANGED caller
    /\ UNCHANGED <<reader, servers>>

\* flush_buffered, past the flush in flight: a span write of its own, behind
\* which the cursor advances.
IntoInner ==
    /\ op = "into_inner" /\ FlushReady /\ flushing # "direct"
    /\ \/ /\ Kept = <<>>
          /\ Hold(<<>>) /\ op' = "gone" /\ told' = "flushed"
          /\ UNCHANGED <<want, hand, accepted, sound>>
       \/ /\ Kept # <<>>
          /\ BeginSpan(Kept) /\ flushing' = "direct" /\ buffer' = <<>>
          /\ UNCHANGED <<cursor, pending, len, caller>>
    /\ UNCHANGED <<reader, servers>>

IntoInnerEnds ==
    /\ op = "into_inner" /\ flushing = "direct" /\ Finished
    /\ op' = "gone" /\ told' = IF result = "ok" THEN "flushed" ELSE "error"
    /\ cursor' = cursor + Len(flushed) /\ pending' = None
    /\ len' = IF result = "ok" THEN Larger(len, cursor + Len(flushed)) ELSE len
    /\ sound' = IF result = "ok" THEN sound ELSE Len(accepted)
    /\ failures' = 0 /\ flushing' = "none"
    /\ UNCHANGED <<want, hand, accepted, reader, buffer, flushed, length, file, faults,
                   contractVars>>

\* The writer is dropped, or the future of into_inner with the writer in it.  A
\* flush that was never polled has sent nothing and goes with it.
DropWriter ==
    /\ op # "gone"
    /\ op' = "gone" /\ told' = "nothing"
    /\ IF result = "none" THEN DropWrite ELSE UNCHANGED contractVars
    /\ UNCHANGED <<want, hand, accepted, sound, reader, writer, servers>>

-----------------------------------------------------------------------------
(* The span write in flight, and the source. *)

InFlight == flushing \in {"polled", "direct"}

SpanLands ==
    /\ InFlight /\ Record
    /\ file' = [o \in DOMAIN file |->
                  IF o \in landed' \ landed THEN flushed[o - span[1] + 1] ELSE file[o]]
    /\ UNCHANGED <<caller, reader, writer, length, faults, failures>>

SpanOk ==
    /\ InFlight /\ ReturnOk
    /\ UNCHANGED <<caller, reader, writer, servers>>

SpanFails ==
    /\ InFlight /\ faults < MaxFaults /\ ReturnError(Start)
    /\ faults' = faults + 1 /\ failures' = failures + 1
    /\ UNCHANGED <<caller, reader, writer, length, file>>

\* The issuing guard goes with the writer.
SpanCompletes ==
    /\ op = "gone" /\ Complete
    /\ UNCHANGED <<caller, reader, writer, servers>>

\* Another client cuts the source short.
Truncate ==
    /\ \E n \in 0 .. length - 1 : length' = n
    /\ UNCHANGED <<caller, reader, writer, file, faults, failures, contractVars>>

-----------------------------------------------------------------------------
Next ==
    \/ CallRead \/ CallWrite \/ CallFlush \/ CallIntoInner \/ Abandon
    \/ ReadHeld \/ StartFill \/ FillEnds \/ TakeFill
    \/ PollBoxed \/ TakeError \/ PollWrite \/ PollFlush \/ IntoInner \/ IntoInnerEnds
    \/ DropWriter
    \/ SpanLands \/ SpanOk \/ SpanFails \/ SpanCompletes \/ Truncate

Spec == Init /\ [][Next]_vars

-----------------------------------------------------------------------------
(* Properties. *)

\* adapter.rs:133: what has come through the reader is the source's bytes in order,
\* none twice and none left out, through fills that fail, reads that are dropped and
\* reads of any size; and an end is told only where the source ended.
ReadInOrder ==
    /\ accepted \o hand = Numbers(0, Len(accepted) + Len(hand))
    /\ told = "end" => held = <<>> /\ Len(accepted) + Len(hand) >= length

\* adapter.rs:215: a flush, a shutdown or an into_inner that returns Ok has every
\* byte accepted since the last error in its place in the file and acknowledged,
\* however the calls were mixed and dropped; and the error of a span is told once,
\* by whichever call comes upon it, before anything else is accepted.
FlushMeansStored ==
    /\ told = "flushed" =>
         \A k \in sound + 1 .. Len(accepted) :
           /\ file[Start + k - 1] = accepted[k]
           /\ Start + k - 1 \in recorded
           /\ len > Start + k - 1
    /\ failures > 0 => op = "gone" \/ (InFlight /\ result = "failed" /\ failures = 1)
    /\ told # "untaken"

\* adapter.rs:268: File::len never reports a byte the server does not hold, while a
\* flush runs, when it fails and when it is dropped.
LengthHonest == len > OldLength => len - 1 \in landed
=============================================================================
