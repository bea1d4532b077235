--------------------------- MODULE WriteContract ---------------------------
(***************************************************************************)
(* What a span write promises its caller (File::write_all_at and write_span *)
(* in src/src/resource/file.rs, WriteProgress in                           *)
(* src/src/resource/progress.rs), without the chunks, the queue, the        *)
(* downgrade and the locks it is made of.  Offsets are the file's.          *)
(***************************************************************************)
EXTENDS Integers, FiniteSets

VARIABLES
    span,       \* <<from, to>>: the bytes to write, to excluded
    landed,     \* the offsets that reached the file
    recorded,   \* the offsets the handle has recorded as acknowledged
    result,     \* "none", then "ok", "failed" or "dropped"
    reported,   \* the prefix an error carries, -1 before
    final       \* whether completed() has been signalled

contractVars == <<span, landed, recorded, result, reported, final>>

SpanBytes == span[1] .. span[2] - 1

\* written(): the recorded bytes without a hole, from the handle's start on.
WrittenFrom(start, bytes) ==
    Cardinality({o \in bytes : o >= start /\ start .. o \subseteq bytes})

ContractInit ==
    /\ span \in Nat \X Nat /\ landed = {} /\ recorded = {}
    /\ result = "none" /\ reported = -1 /\ final = FALSE

\* Bytes reach the file, and the handle learns of some of them: never of one
\* that did not.  A dropped write goes on as far as its requests had been sent.
Record ==
    /\ result \in {"none", "dropped"} /\ ~final
    /\ landed' \in {landed \cup more : more \in SUBSET SpanBytes}
    /\ recorded' \in {recorded \cup more : more \in SUBSET (SpanBytes \cap landed')}
    /\ UNCHANGED <<span, result, reported, final>>

\* Success is every byte acknowledged.  An error carries the prefix, which no
\* late reply moves any more.
ReturnOk ==
    /\ result = "none" /\ SpanBytes \subseteq recorded
    /\ result' = "ok"
    /\ UNCHANGED <<span, landed, recorded, reported, final>>

ReturnError(start) ==
    /\ result = "none"
    /\ result' = "failed" /\ reported' = WrittenFrom(start, recorded)
    /\ UNCHANGED <<span, landed, recorded, final>>

DropWrite ==
    /\ result = "none"
    /\ result' = "dropped"
    /\ UNCHANGED <<span, landed, recorded, reported, final>>

\* completed(): signalled once, with nothing recorded afterwards.
Complete ==
    /\ result # "none" /\ ~final
    /\ final' = TRUE
    /\ UNCHANGED <<span, landed, recorded, result, reported>>

ContractNext == Record \/ ReturnOk \/ ReturnError(span[1]) \/ DropWrite \/ Complete

ContractSpec == ContractInit /\ [][ContractNext]_contractVars
=============================================================================
