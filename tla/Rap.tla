-------------------------------- MODULE Rap --------------------------------
(***************************************************************************)
(* RAP's NetShareEnum (src/src/rpc/rap.rs).  A reply is four parameter      *)
(* words and a data block: its length in bytes, the entry that stands at    *)
(* each place of the array, and the text that stands at each offset.        *)
(***************************************************************************)
EXTENDS Ndr

EntryLen == 20
RapSuccess == 0

\* The offset of a comment: the low half of the pointer less the converter.
CommentAt(pointer, converter) == (pointer - converter) % 65536

\* What the walk refuses an entry for, its comment standing at an offset.
EntryRefusal(i, entry, offset, data) ==
    CASE i * EntryLen > data.length -> "TruncatedEntry"
      [] entry.pointer # 0 /\ (offset > data.length \/ offset \notin DOMAIN data.text) ->
           "CommentOutOfRange"
      [] OTHER -> "none"

RapShare(entry, converter, data) ==
    [name |-> entry.name, kind |-> FromRap(entry.kind),
     comment |-> IF entry.pointer = 0 THEN <<>>
                 ELSE data.text[CommentAt(entry.pointer, converter)]]

\* The walk over the entries: the first refusal is the reply's.
RapWalk(returned, converter, data) ==
    FoldLeft(LAMBDA error, i :
               IF error # "none" THEN error
               ELSE EntryRefusal(i, data.entries[i],
                                 CommentAt(data.entries[i].pointer, converter), data),
             "none", [i \in 1 .. returned |-> i])

RapRefusal(parameters, data) ==
    CASE Len(parameters) < 4 -> "ParametersTooShort"
      [] parameters[1] = ErrorMoreData -> "MoreData"
      [] parameters[1] \notin {RapSuccess, ErrorMoreData} -> "Failed"
      [] parameters[3] < parameters[4] -> "ShortOfAvailable"
      [] OTHER -> RapWalk(parameters[3], parameters[2], data)

RapPage(parameters, data, error) ==
    [error |-> error,
     shares |-> IF error # "none" THEN <<>>
                ELSE [i \in 1 .. parameters[3] |->
                        RapShare(data.entries[i], parameters[2], data)]]

\* A mutant of RapResponse: a reply short of what is available is taken.
RapResponseShort(parameters, data) ==
    RapPage(parameters, data, IF parameters[1] # RapSuccess THEN "Failed" ELSE "none")

\* rap::response: the shares, or the first error the walk meets.
RapResponse(parameters, data) == RapPage(parameters, data, RapRefusal(parameters, data))

-----------------------------------------------------------------------------
(* The server's side: the first shares of its list, as many as it has room    *)
(* for, each with its comment behind the array.                             *)

RapData(page, converter, length) ==
    LET at(i) == EntryLen * Len(page) + 16 * i
    IN  [length |-> length,
         entries |-> [i \in 1 .. Len(page) |->
           [name |-> page[i].name,
            kind |-> page[i].kind.service + (IF page[i].kind.special THEN 32768 ELSE 0)
                       + (IF page[i].kind.temporary THEN 16384 ELSE 0),
            pointer |-> IF page[i].comment = <<>> THEN 0
                        ELSE (at(i) + converter) % 65536]],
         text |-> [o \in {at(i) : i \in 1 .. Len(page)} |->
                     page[(o - EntryLen * Len(page)) \div 16].comment]]
=============================================================================
