------------------------------- MODULE Spnego -------------------------------
(***************************************************************************)
(* The SPNEGO tokens of src/src/auth/spnego.rs: definite DER out, lenient   *)
(* BER in.  A token is a sequence of bytes.  Reading one yields a record    *)
(* with its error, "none" when there is none.                              *)
(***************************************************************************)
EXTENDS Integers, Sequences, SequencesExt

CONSTANT MaxDepth  \* MAX_DEPTH

ASSUME MaxDepthAssumption == MaxDepth \in Nat

Application0 == 96
Oid == 6
OctetString == 4
Sequence == 48
Context == [n \in 0 .. 3 |-> 160 + n]
Indefinite == 128
SpnegoOid == <<43>>   \* the two object identifiers, cut to a byte each
NtlmsspOid == <<44>>

\* The most bytes a long form may spend on a length: a usize is eight.
LengthBytes == 8

NotRead(error) == [error |-> error, tag |-> 0, value |-> <<>>, consumed |-> 0]

TlvError(error) == [error |-> error, from |-> 0, to |-> 0, next |-> 0]

Definite(limit, at, length) ==
    IF at + length - 1 > limit THEN TlvError("Truncated")
    ELSE [error |-> "none", from |-> at, to |-> at + length - 1, next |-> at + length]

BigEndian(bytes) == FoldLeft(LAMBDA sum, byte : 256 * sum + byte, 0, bytes)

\* A long form, its length in count bytes from a position on.
LongForm(bytes, limit, at, count) ==
    IF count > LengthBytes THEN TlvError("LengthTooLarge")
    ELSE IF at + count - 1 > limit THEN TlvError("Truncated")
    ELSE Definite(limit, at + count, BigEndian(SubSeq(bytes, at, at + count - 1)))

\* Where the value at a position lies.  The indefinite form runs to the
\* end-of-contents pair of its own level, past whole values inside it, so the
\* value at a position and the contents from a position are read by turns.
TlvAt(bytes, limit, depth) ==
    LET read[what \in {"value", "contents"}, at \in 1 .. limit + 1,
             level \in 0 .. MaxDepth + 1] ==
          IF what = "contents"
          THEN IF at + 1 > limit THEN TlvError("UnterminatedIndefinite")
               ELSE IF bytes[at] = 0 /\ bytes[at + 1] = 0
               THEN [error |-> "none", from |-> at, to |-> at - 1, next |-> at + 2]
               ELSE LET inner == read["value", at, level + 1]
                    IN  IF inner.error # "none" THEN inner
                        ELSE read["contents", inner.next, level]
          ELSE IF level > MaxDepth THEN TlvError("TooDeep")
          ELSE IF at + 1 > limit THEN TlvError("Truncated")
          ELSE IF bytes[at + 1] = Indefinite
          THEN [read["contents", at + 2, level] EXCEPT !.from = at + 2]
          ELSE IF bytes[at + 1] < Indefinite
          THEN Definite(limit, at + 2, bytes[at + 1])
          ELSE LongForm(bytes, limit, at + 2, bytes[at + 1] - Indefinite)
    IN  read["value", 1, depth]

\* read_tlv: one value at the head of bytes.
TlvTaken(bytes, tlv) ==
    IF tlv.error # "none" THEN NotRead(tlv.error)
    ELSE [error |-> "none", tag |-> bytes[1], value |-> SubSeq(bytes, tlv.from, tlv.to),
          consumed |-> tlv.next - 1]

ReadTlv(bytes, depth) == TlvTaken(bytes, TlvAt(bytes, Len(bytes), depth))

\* expect: a value whose tag the grammar allows here.
Tagged(tlv, tag) ==
    IF tlv.error = "none" /\ tlv.tag # tag THEN NotRead("UnexpectedTag") ELSE tlv

Expect(bytes, tag, depth) == Tagged(ReadTlv(bytes, depth), tag)

\* put_tlv: the shortest definite form.  Lengths of two bytes and more are past
\* every token modelled.
PutTlv(tag, value) ==
    <<tag>> \o (IF Len(value) < Indefinite THEN <<Len(value)>>
                ELSE <<Indefinite + 1, Len(value)>>) \o value

MechList == PutTlv(Sequence, PutTlv(Oid, NtlmsspOid))

\* neg_token_init: wrapped in the GSS-API header that opens an exchange.
NegTokenInit(mechToken) ==
    PutTlv(Application0,
      PutTlv(Oid, SpnegoOid) \o
      PutTlv(Context[0],
        PutTlv(Sequence,
          PutTlv(Context[0], MechList) \o
          PutTlv(Context[2], PutTlv(OctetString, mechToken)))))

\* neg_token_resp: the header is for the first token alone.
NegTokenResp(responseToken, mechListMic) ==
    PutTlv(Context[1],
      PutTlv(Sequence,
        PutTlv(Context[2], PutTlv(OctetString, responseToken)) \o
        PutTlv(Context[3], PutTlv(OctetString, mechListMic))))

-----------------------------------------------------------------------------
(* response_token, a wrapper at a time. *)

\* One step of the walk over the fields: they are read past until the token's.
FieldStep(walk, field) ==
    IF field.error # "none" THEN [rest |-> <<>>, token |-> field]
    ELSE IF field.tag = Context[2]
    THEN [rest |-> <<>>, token |-> Expect(field.value, OctetString, 4)]
    ELSE IF \A n \in 0 .. 3 : field.tag # Context[n]
    THEN [rest |-> <<>>, token |-> NotRead("UnexpectedTag")]
    ELSE [walk EXCEPT !.rest = SubSeq(@, field.consumed + 1, Len(@))]

TokenField(fields) ==
    FoldLeft(LAMBDA walk, i : IF walk.rest = <<>> THEN walk
                              ELSE FieldStep(walk, ReadTlv(walk.rest, 3)),
             [rest |-> fields, token |-> NotRead("NoResponseToken")],
             [i \in 1 .. Len(fields) |-> i]).token

InSequence(sequence) ==
    IF sequence.error # "none" THEN sequence ELSE TokenField(sequence.value)

InNegotiation(negotiation) ==
    IF negotiation.error # "none" THEN negotiation
    ELSE InSequence(Expect(negotiation.value, Sequence, 2))

\* The header of the first token is allowed on this one, and read past.
PastHeader(contents, oid) ==
    IF oid.error # "none" THEN oid
    ELSE InNegotiation(Expect(SubSeq(contents, oid.consumed + 1, Len(contents)),
                              Context[1], 1))

InOuter(token, outer) ==
    IF outer.error # "none" THEN outer
    ELSE IF outer.tag = Application0 THEN PastHeader(outer.value, Expect(outer.value, Oid, 1))
    ELSE InNegotiation(Expect(token, Context[1], 1))

ResponseToken(token) == InOuter(token, ReadTlv(token, 0))
=============================================================================
