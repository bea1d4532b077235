------------------------------ MODULE FindPage ------------------------------
(***************************************************************************)
(* The data block of a FIND reply and the walk of its entry chain,          *)
(* walk_entries in src/src/wire/find.rs.  A block is its length and the     *)
(* entry that stands at each offset where one does.                        *)
(***************************************************************************)
EXTENDS Integers, Sequences, SequencesExt

CONSTANT MinEntryLen  \* MIN_ENTRY_LEN, 94 in the code

ASSUME MinEntryLenAssumption == MinEntryLen \in Nat \ {0}

\* walk_entries: the names the chain carries, or the error that ends it.  The
\* zero terminator is tested before the minimum.
WalkEntries(data, count) ==
    LET refused(error) == [error |-> error, names |-> <<>>]
        walk[offset \in DOMAIN data.at \cup {data.length}] ==
          IF offset = data.length THEN [error |-> "none", names |-> <<>>]
          ELSE IF data.length - offset < MinEntryLen THEN refused("Truncated")
          ELSE LET entry == data.at[offset]
                   next == IF offset + entry.next > data.length THEN data.length
                           ELSE offset + entry.next
                   rest == IF entry.next = 0 THEN [error |-> "none", names |-> <<>>]
                           ELSE walk[next]
               IN  IF data.length - offset < MinEntryLen + entry.size
                   THEN refused("Truncated")
                   ELSE IF entry.next \in 1 .. MinEntryLen - 1
                   THEN refused("EntryOffsetTooSmall")
                   ELSE IF rest.error # "none" THEN rest
                   ELSE [error |-> "none", names |-> <<entry.name>> \o rest.names]
        walked == walk[0]
    IN  IF walked.error = "none" /\ Len(walked.names) # count
        THEN refused("EntryCountMismatch") ELSE walked

-----------------------------------------------------------------------------
(* What a server writes: the entries in order, each with a name of one unit *)
(* and some padding, the last closed by a zero offset or by the end.        *)

Block(names, pad, ending) ==
    LET stride == MinEntryLen + 1 + pad
        n == Len(names)
        entry(i) == [name |-> names[i], size |-> 1,
                     next |-> IF i = n /\ ending = "zero" THEN 0 ELSE stride]
    IN  [length |-> stride * n,
         at |-> [offset \in {stride * (i - 1) : i \in 1 .. n} |->
                   entry(CHOOSE i \in 1 .. n : offset = stride * (i - 1))]]
=============================================================================
