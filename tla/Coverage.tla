------------------------------ MODULE Coverage ------------------------------
(***************************************************************************)
(* Coverage (src/src/connection/reassembly.rs): which bytes of a range have *)
(* arrived, as a list of half-open ranges <<from, to>> kept sorted,        *)
(* disjoint and merged.  Reassembly, the read fill loop and WriteProgress  *)
(* all rest on it.                                                         *)
(***************************************************************************)
EXTENDS Integers, SequencesExt

\* No range: what gap() returns when nothing is missing.
NoGap == <<>>

\* The index of the last range that starts before start, 0 if there is none:
\* what partition_point finds.
Before(ranges, start) == SelectLastInSeq(ranges, LAMBDA r : r[1] < start)

\* A mutant of Overlaps: ranges that only meet overlap.
OverlapsMeeting(ranges, start, length) ==
    LET at == Before(ranges, start)
    IN  /\ length > 0
        /\ \/ at > 0 /\ ranges[at][2] >= start
           \/ at < Len(ranges) /\ ranges[at + 1][1] < start + length

\* cover() returns false.
Overlaps(ranges, start, length) ==
    LET at == Before(ranges, start)
    IN  /\ length > 0
        /\ \/ at > 0 /\ ranges[at][2] > start
           \/ at < Len(ranges) /\ ranges[at + 1][1] < start + length

\* Range i and the one after it become one where they meet.
Joined(ranges, i) ==
    IF i \in 1 .. Len(ranges) - 1 /\ ranges[i][2] = ranges[i + 1][1]
    THEN RemoveAt(ReplaceAt(ranges, i, <<ranges[i][1], ranges[i + 1][2]>>),
                  i + 1)
    ELSE ranges

\* cover() where it returns true.
Cover(ranges, start, length) ==
    LET at == Before(ranges, start)
        inserted == InsertAt(ranges, at + 1, <<start, start + length>>)
    IN  IF length = 0 THEN ranges ELSE Joined(Joined(inserted, at + 1), at)

\* truncate(): on a sorted list retain() keeps the ranges up to the last that
\* starts before the total.
Truncate(ranges, total) ==
    LET n == Before(ranges, total)
        kept == SubSeq(ranges, 1, n)
    IN  IF n = 0 \/ kept[n][2] <= total THEN kept
        ELSE ReplaceAt(kept, n, <<kept[n][1], total>>)

\* gap(): the walk stops at the first range that starts past what the ranges
\* before it reach, or that reaches the total.
Gap(ranges, total) ==
    LET reached(i) == IF i = 0 THEN 0 ELSE ranges[i][2]
        holed(i) == ranges[i][1] > reached(i - 1)
        stops == {i \in 1 .. Len(ranges) : holed(i) \/ reached(i) >= total}
        first == Min(stops)
    IN  CASE stops = {} /\ reached(Len(ranges)) < total
               -> <<reached(Len(ranges)), total>>
          [] stops # {} /\ holed(first)
               -> <<reached(first - 1), Min({ranges[first][1], total})>>
          [] OTHER -> NoGap

\* prefix()
Prefix(ranges) ==
    IF ranges # <<>> /\ ranges[1][1] = 0 THEN ranges[1][2] ELSE 0

\* What covers() would be if the far end were all it looked at.
CoversFarEnd(ranges, total) ==
    IF ranges = <<>> THEN total = 0 ELSE ranges[Len(ranges)][2] = total

\* covers()
Covers(ranges, total) == \/ ranges = <<>> /\ total = 0
                         \/ Len(ranges) = 1 /\ ranges[1] = <<0, total>>

-----------------------------------------------------------------------------
(* What the list stands for. *)

Bytes(ranges) == UNION {r[1] .. r[2] - 1 : r \in Range(ranges)}

\* Sorted, disjoint and merged: between two ranges at least one byte is missing.
Canonical(ranges) ==
    /\ \A i \in 1 .. Len(ranges) : ranges[i][1] < ranges[i][2]
    /\ \A i, j \in 1 .. Len(ranges) : i < j => ranges[i][2] < ranges[j][1]
=============================================================================
