----------------------------- MODULE Reassembly -----------------------------
(***************************************************************************)
(* The reassembly of one transaction reply                                 *)
(* (src/src/connection/reassembly.rs), driven by whatever messages the      *)
(* server sends on the request's id and by the request lapsing, which drops *)
(* the buffer and goes on tracking coverage (src/src/connection/table.rs).  *)
(*                                                                         *)
(* Module Connection sees a message of a transaction as "Part", "Last" or   *)
(* "Bad".  This module says which it is: the message after which outcome is *)
(* still "open", "complete", or one of Errors.                             *)
(***************************************************************************)
EXTENDS Coverage

CONSTANTS
    Asked,           \* for each block, the most the request allowed
    FragmentCap,     \* FRAGMENT_CAP
    EmptyTolerance,  \* EMPTY_TOLERANCE
    Payload          \* bound: the most bytes one message carries in a block

Blocks == {"parameter", "data"}

ASSUME ReassemblyAssumption ==
    /\ Asked \in [Blocks -> Nat]
    /\ FragmentCap \in Nat \ {0}
    /\ EmptyTolerance \in Nat
    /\ Payload \in Nat

VARIABLES
    track,      \* for each block, the total declared, the ranges covered and
                \* the buffer: how often each of its bytes has been written
    fragments,
    empty,
    buffered,   \* whether the buffer is still held
    outcome,    \* "open", "complete" or the error that ended the reassembly
    sent        \* history: the bytes of each block that reached the client, of
                \* those still inside the declared total

vars == <<track, fragments, empty, buffered, outcome, sent>>

Errors == {"TooManyFragments", "RevisedUpward", "MoreThanAsked",
           "OutsideDeclaredRange", "Overlapping", "NoProgress"}

\* One message: for each block a total, a displacement and a count of bytes.
Parts(b) == [total : 0 .. Asked[b] + 1, at : 0 .. Asked[b], length : 0 .. Payload]

Messages == [parameter : Parts("parameter"), data : Parts("data")]

Init ==
    /\ track = [b \in Blocks |-> [total |-> 0, declared |-> FALSE,
                                  covered |-> <<>>, bytes |-> <<>>]]
    /\ fragments = 0
    /\ empty = 0
    /\ buffered = TRUE
    /\ outcome = "open"
    /\ sent = [b \in Blocks |-> {}]

-----------------------------------------------------------------------------
\* A mutant of Declared: bytes past the new total stay covered.
DeclaredUncut(t, total) ==
    [total |-> total, declared |-> TRUE, covered |-> t.covered,
     bytes |-> IF ~buffered THEN <<>>
               ELSE [i \in 1 .. total |->
                       IF i <= Len(t.bytes) THEN t.bytes[i] ELSE 0]]

\* Track::declare where it succeeds: a total revised downward drops what it
\* puts outside, and the buffer is resized with zeros.
Declared(t, total) ==
    [total |-> total, declared |-> TRUE,
     covered |-> IF total < t.total THEN Truncate(t.covered, total)
                 ELSE t.covered,
     bytes |-> IF ~buffered THEN <<>>
               ELSE [i \in 1 .. total |->
                       IF i <= Len(t.bytes) THEN t.bytes[i] ELSE 0]]

\* Track::accept where it succeeds.
Placed(t, at, length) ==
    [t EXCEPT !.covered = Cover(@, at, length),
              !.bytes = [i \in DOMAIN @ |-> IF i \in at + 1 .. at + length
                                            THEN @[i] + 1 ELSE @[i]]]

\* A mutant of Complete: a block is whole once its far end is there.
CompleteFarEnd(t) == t.declared /\ CoversFarEnd(t.covered, t.total)

\* Track::complete.
Complete(t) == t.declared /\ Covers(t.covered, t.total)

\* What declare() refuses of block b.
Upward(b, part) == track[b].declared /\ part.total > track[b].total

TooLarge(b, part) == part.total > Asked[b]

\* What accept() refuses of block b, its total having been declared.
Outside(part) == part.length > 0 /\ part.at + part.length > part.total

Recovers(b, part) ==
    Overlaps(Declared(track[b], part.total).covered, part.at, part.length)

Contributes(m) == \E b \in Blocks : m[b].length > 0

\* The two termination guards, this one and NoProgress, go with the buffer.
TooMany == fragments + 1 > FragmentCap

\* Assembly::accept, in the order it looks: the first check that fails is the
\* error.  What the failing message had already changed is never read again.
Checks(m) ==
    << <<buffered /\ TooMany,                    "TooManyFragments">>,
       <<Upward("parameter", m.parameter),       "RevisedUpward">>,
       <<TooLarge("parameter", m.parameter),     "MoreThanAsked">>,
       <<Upward("data", m.data),                 "RevisedUpward">>,
       <<TooLarge("data", m.data),               "MoreThanAsked">>,
       <<Outside(m.parameter),                   "OutsideDeclaredRange">>,
       <<Recovers("parameter", m.parameter),     "Overlapping">>,
       <<Outside(m.data),                        "OutsideDeclaredRange">>,
       <<Recovers("data", m.data),               "Overlapping">>,
       <<buffered /\ ~Contributes(m) /\ empty + 1 > EmptyTolerance, "NoProgress">> >>

\* The position of the first check the message fails, 0 if it passes them all.
Fails(m) == SelectInSeq(Checks(m), LAMBDA check : check[1])

Refused(m) ==
    /\ outcome = "open" /\ Fails(m) # 0
    /\ outcome' = Checks(m)[Fails(m)][2]
    /\ UNCHANGED <<track, fragments, empty, buffered, sent>>

TrackAfter(b, part) == Placed(Declared(track[b], part.total), part.at, part.length)

Accepted(m) ==
    /\ outcome = "open" /\ Fails(m) = 0
    /\ track' = [b \in Blocks |-> TrackAfter(b, m[b])]
    /\ fragments' = IF buffered THEN fragments + 1 ELSE fragments
    /\ empty' = IF buffered /\ ~Contributes(m) THEN empty + 1 ELSE empty
    /\ outcome' = IF \A b \in Blocks : Complete(track'[b]) THEN "complete"
                  ELSE "open"
    /\ sent' = [b \in Blocks |->
                  (sent[b] \cap 0 .. m[b].total - 1)
                    \cup m[b].at .. m[b].at + m[b].length - 1]
    /\ UNCHANGED buffered

\* Assembly::release, when the request lapses.
Lapses ==
    /\ outcome = "open" /\ buffered
    /\ buffered' = FALSE
    /\ track' = [b \in Blocks |-> [track[b] EXCEPT !.bytes = <<>>]]
    /\ UNCHANGED <<fragments, empty, outcome, sent>>

\* The reassembly is over; finish() has taken the buffers.
Over == outcome # "open" /\ UNCHANGED vars

Arrives == \E m \in Messages : Refused(m) \/ Accepted(m)

Next == Arrives \/ Lapses \/ Over

Spec == Init /\ [][Next]_vars

-----------------------------------------------------------------------------
(* Properties. *)

\* The type of every variable.
TypeOK ==
    /\ track \in [Blocks -> [total : Nat, declared : BOOLEAN,
                             covered : Seq(Nat \X Nat), bytes : Seq(Nat)]]
    /\ fragments \in 0 .. FragmentCap
    /\ empty \in 0 .. EmptyTolerance
    /\ buffered \in BOOLEAN
    /\ outcome \in {"open", "complete"} \cup Errors
    /\ sent \in [Blocks -> SUBSET Nat]

\* reassembly.rs:107, 119, 156 and 176: the ranges stay sorted, disjoint and
\* merged, and are exactly the bytes that arrived inside the total that now governs,
\* through fragments out of order and totals revised downward, lapsed or not; and
\* what the list answers is what the set of bytes would: cover() refuses a fragment
\* for a byte it shares with one that came before and for nothing else, prefix()
\* and gap() give the first byte missing, and gap() the first one there is after it.
CoverageExact ==
    \A b \in Blocks :
      LET covered == track[b].covered
          missing(total) == (0 .. total - 1) \ sent[b]
          far(total) == Min({total} \cup {i \in sent[b] :
                                           i > Min(missing(total))})
      IN  /\ Canonical(covered) /\ Bytes(covered) = sent[b]
          /\ \A at \in 0 .. Asked[b], length \in 0 .. Payload :
               Overlaps(covered, at, length)
                 <=> sent[b] \cap at .. at + length - 1 # {}
          /\ Prefix(covered) = Min((0 .. Asked[b]) \ sent[b])
          /\ \A total \in 1 .. Asked[b] :
               Gap(covered, total) = IF missing(total) = {} THEN NoGap
                                     ELSE <<Min(missing(total)), far(total)>>

\* reassembly.rs:6: a reply is never delivered with a hole zero-filled, or with
\* a byte the server sent twice, and is never longer than what was asked.
WholeReply ==
    outcome = "complete" /\ buffered =>
      \A b \in Blocks :
        /\ Len(track[b].bytes) = track[b].total
        /\ track[b].total <= Asked[b]
        /\ \A i \in 1 .. track[b].total : track[b].bytes[i] = 1

\* table.rs:109: the reassembly completes, and so gives the id back, exactly at
\* the message with which the last byte of both totals has arrived.
CompleteExactly ==
    outcome \in {"open", "complete"} =>
      (outcome = "complete" <=>
         \A b \in Blocks : /\ track[b].declared
                           /\ sent[b] = 0 .. track[b].total - 1)
=============================================================================
