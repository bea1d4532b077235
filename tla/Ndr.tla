-------------------------------- MODULE Ndr --------------------------------
(***************************************************************************)
(* NDR32 as far as share enumeration uses it (src/src/rpc/ndr.rs), and the  *)
(* two stubs of NetrShareEnum (src/src/rpc/srvsvc.rs).  A stub is a         *)
(* sequence of 16-bit units: a u32 is two of them, low half first, on an    *)
(* even offset, and a character is one.                                    *)
(***************************************************************************)
EXTENDS Integers, Sequences, SequencesExt

\* A count past 16 bits; all of them are past the end of every stub there is.
Huge == 65536

-----------------------------------------------------------------------------
(* Writer. *)

Aligned(n) == n + (n % 2)
Padded(stub) == IF Len(stub) % 2 = 0 THEN stub ELSE Append(stub, 0)
PutU32(stub, low, high) == Padded(stub) \o <<low, high>>

\* The terminator is counted in all three counts.
PutString(stub, text) ==
    LET count == Len(text) + 1
    IN  Padded(Padded(stub) \o <<count, 0, 0, 0, count, 0>> \o text \o <<0>>)

-----------------------------------------------------------------------------
(* Reader: a cursor that keeps its first error, as `?` does, with the last    *)
(* words it read and the strings it has read so far.                        *)

Reader(stub) == [stub |-> stub, at |-> 0, words |-> <<>>, texts |-> <<>>, error |-> "none"]

Fail(r, error) == IF r.error = "none" THEN [r EXCEPT !.error = error] ELSE r

Value(word) == IF word[2] = 0 THEN word[1] ELSE Huge
IsNull(word) == word = <<0, 0>>

U32(r) ==
    IF r.error # "none" \/ Aligned(r.at) + 2 > Len(r.stub) THEN Fail(r, "Truncated")
    ELSE [r EXCEPT !.at = Aligned(@) + 2,
                   !.words = Append(@, SubSeq(r.stub, Aligned(r.at) + 1, Aligned(r.at) + 2))]

\* The next count words, or as many of them as there are.
Words(r, count) ==
    FoldLeft(LAMBDA reader, i : U32(reader), [r EXCEPT !.words = <<>>],
             [i \in 1 .. count |-> i])

\* The terminator is part of the count and not part of the string.
Unterminated(units) == IF units # <<>> /\ Last(units) = 0 THEN Front(units) ELSE units

\* conformant_varying_string, behind its maximum, first and actual counts, which
\* must agree.
StringOf(r) ==
    IF r.error # "none" THEN r
    ELSE IF ~IsNull(r.words[2]) \/ Value(r.words[3]) > Value(r.words[1])
    THEN Fail(r, "InconsistentString")
    ELSE IF r.at + Value(r.words[3]) > Len(r.stub) THEN Fail(r, "Truncated")
    ELSE [r EXCEPT !.at = @ + Value(r.words[3]),
                   !.texts = Append(@, Unterminated(
                               SubSeq(r.stub, r.at + 1, r.at + Value(r.words[3]))))]

ReadString(r) == StringOf(Words(r, 3))

-----------------------------------------------------------------------------
(* What a share is. *)

\* ShareService::from_code and the two flags, from a 16-bit code and the half of
\* the type that holds the flags.
KindOf(code, flags) ==
    [service |-> code, special |-> flags >= 32768, temporary |-> flags % 32768 >= 16384]

FromSrvsvc(word) == KindOf(word[1], word[2])
FromRap(kind) == KindOf(kind % 16384, kind)

-----------------------------------------------------------------------------
(* NetrShareEnum. *)

Level == 1
WerrOk == 0
ErrorMoreData == 234

\* srvsvc::request: the server's name, an empty container, the resume handle.
SrvsvcRequest(server, resume) ==
    FoldLeft(LAMBDA stub, word : PutU32(stub, word[1], word[2]),
             PutString(PutU32(<<>>, 0, 2), server),
             << <<Level, 0>>, <<Level, 0>>, <<4, 2>>, <<0, 0>>, <<0, 0>>,
                <<65535, 65535>>, <<8, 2>>, <<resume, 0>> >>)

\* A reply that is refused, and one's page.
NoPage(error) == [error |-> error, shares |-> <<>>, more |-> FALSE, resume |-> 0]

\* The end of srvsvc::response: the code, behind the resume handle.
Coded(r, list, resume, code) ==
    IF r.error # "none" THEN NoPage(r.error)
    ELSE IF Value(r.words[code]) \notin {WerrOk, ErrorMoreData} THEN NoPage("Failed")
    ELSE [error |-> "none", shares |-> list, resume |-> resume,
          more |-> Value(r.words[code]) = ErrorMoreData]

\* The handle: absent, or a word before the code.
Handled(r, list) ==
    Coded(r, list, IF r.error = "none" THEN Value(r.words[1]) ELSE 0, 2)

\* The total, and the pointer to the resume handle.
Totalled(r, list, entries) ==
    IF r.error # "none" THEN NoPage(r.error)
    ELSE IF Value(r.words[1]) < entries THEN NoPage("TotalBelowEntries")
    ELSE IF IsNull(r.words[2]) THEN Coded(Words(r, 1), list, 0, 1)
    ELSE Handled(Words(r, 2), list)

\* A string where its pointer is not null, which is how an empty one is put too.
ReadPointed(r, pointer) ==
    IF IsNull(pointer) THEN [r EXCEPT !.texts = Append(@, <<>>)] ELSE ReadString(r)

\* share_info_1_array, past the structures: the strings they point at, in order.
\* A structure is a name pointer, a type and a comment pointer.
PointedAt(r, structures) ==
    FoldLeft(LAMBDA reader, i :
               IF i % 3 = 2 THEN reader ELSE ReadPointed(reader, structures[i]),
             r, [i \in 1 .. Len(structures) |-> i])

SharesOf(r, structures) ==
    [i \in 1 .. Len(structures) \div 3 |->
       [name |-> r.texts[2 * i - 1], kind |-> FromSrvsvc(structures[3 * i - 1]),
        comment |-> r.texts[2 * i]]]

Collected(r, structures, entries) ==
    IF r.error # "none" THEN NoPage(r.error)
    ELSE Totalled(Words(r, 2), SharesOf(r, structures), entries)

Structured(r, entries) ==
    IF r.error # "none" THEN NoPage(r.error)
    ELSE Collected(PointedAt(r, r.words), r.words, entries)

\* The array's own count bounds the entries, and the stub bounds both.
ShareInfo1Array(r, entries) ==
    IF r.error # "none" THEN NoPage(r.error)
    ELSE IF entries > Value(r.words[1]) THEN NoPage("ArrayTooSmall")
    ELSE IF 6 * entries > Len(r.stub) THEN NoPage("Truncated")
    ELSE Structured(Words(r, 3 * entries), entries)

\* The container: its count of entries and its buffer.
Contained(r) ==
    IF r.error # "none" THEN NoPage(r.error)
    ELSE IF IsNull(r.words[2]) THEN Totalled(Words(r, 2), <<>>, Value(r.words[1]))
    ELSE ShareInfo1Array(Words(r, 1), Value(r.words[1]))

\* srvsvc::response: one reply's page, or the error that stops it, read from the
\* two levels and the container's pointer on.
Levelled(r) ==
    IF r.error # "none" THEN NoPage(r.error)
    ELSE IF Value(r.words[1]) # Level THEN NoPage("Level")
    ELSE IF Value(r.words[2]) # Level THEN NoPage("LevelMismatch")
    ELSE IF IsNull(r.words[3]) THEN Totalled(Words(r, 2), <<>>, 0)
    ELSE Contained(Words(r, 2))

SrvsvcResponse(stub) == Levelled(Words(Reader(stub), 3))

-----------------------------------------------------------------------------
(* The server's side of NetrShareEnum. *)

PutWords(stub, words) == FoldLeft(LAMBDA s, word : PutU32(s, word[1], word[2]), stub, words)

PutStrings(stub, share) ==
    IF share.comment = <<>> THEN PutString(stub, share.name)
    ELSE PutString(PutString(stub, share.name), share.comment)

PutStructure(stub, share) ==
    PutWords(stub, << <<1, 2>>, <<share.kind.service,
                                  (IF share.kind.special THEN 32768 ELSE 0) +
                                  (IF share.kind.temporary THEN 16384 ELSE 0)>>,
                      <<IF share.comment = <<>> THEN 0 ELSE 2, 0>> >>)

\* The words before the structures; `empty` says how a page of none is put.
PageHead(count, empty) ==
    << <<Level, 0>>, <<Level, 0>> >> \o
    (CASE count > 0 -> << <<4, 2>>, <<count, 0>>, <<8, 2>>, <<count, 0>> >>
       [] count = 0 /\ empty = "null" -> << <<0, 0>> >>
       [] OTHER -> << <<4, 2>>, <<0, 0>>, <<0, 0>> >>)

\* The stub of a page of shares, out of a total, with a resume handle and a code.
PageStub(page, total, resume, code, empty) ==
    PutWords(FoldLeft(PutStrings,
               FoldLeft(PutStructure, PutWords(<<>>, PageHead(Len(page), empty)), page), page),
             << <<total, 0>>, <<12, 2>>, <<resume, 0>>, <<code, 0>> >>)

\* The resume handle a request carries, which is its last word.
ResumeIn(stub) == stub[Len(stub) - 1]
=============================================================================
