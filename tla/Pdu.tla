-------------------------------- MODULE Pdu --------------------------------
(***************************************************************************)
(* DCE/RPC PDUs (src/src/rpc/pdu.rs) as sequences of 16-bit units, and the  *)
(* assembly of a reply out of a stream of them.  A header is eight units:   *)
(* version, type and flags, data representation, fragment length in bytes,  *)
(* authentication length and call id.                                       *)
(***************************************************************************)
EXTENDS Integers, Sequences, SequencesExt

CONSTANTS PduCap,   \* PDU_CAP
          StubCap   \* STUB_CAP, in units

HeaderLen == 8
ResponsePrologue == 4
Version == 5
DataRepresentation == 16

REQUEST == 0
RESPONSE == 2
FAULT == 3
BIND == 11
BIND_ACK == 12
BIND_NAK == 13
FirstFrag == 1
LastFrag == 2
Has(flags, flag) == (flags \div flag) % 2 = 1

\* The header in front of a body, with the flags of a fragment.
Fragment(ptype, flags, call, body) ==
    <<Version, ptype + 256 * flags, DataRepresentation, 0,
      2 * (HeaderLen + Len(body)), 0, call, 0>> \o body

\* The NDR32 syntax, and another that a server may pick.
Ndr32 == 1
Ndr64 == 2

\* bind: one interface on two presentation contexts.  The sizes and the syntax
\* names are a unit each.
BindPdu == Fragment(BIND, FirstFrag + LastFrag, 0, <<Ndr32, Ndr64>>)

\* request: an allocation hint, a context, an operation and the stub.
RequestPdu(call, stub) ==
    Fragment(REQUEST, FirstFrag + LastFrag, call, <<2 * Len(stub), 0, 0, 15>> \o stub)

-----------------------------------------------------------------------------
(* PduStream::next. *)

\* What the pending units give: a PDU, none yet, or an error.
NextPdu(pending) ==
    IF Len(pending) < HeaderLen THEN "none"
    ELSE IF pending[5] < 2 * HeaderLen THEN "error"
    ELSE IF 2 * Len(pending) < pending[5] THEN "none"
    ELSE "pdu"

-----------------------------------------------------------------------------
(* Collector. *)

NoType == 255
Collector(call) == [pending |-> <<>>, call |-> call, ptype |-> NoType, payload |-> <<>>,
                    pdus |-> 0, complete |-> FALSE, error |-> "none"]

\* Header::parse and the checks of Collector::accept, in their order.
PduRefusal(c, pdu, ptype, flags, prologue) ==
    CASE pdu[1] # Version -> "Version"
      [] pdu[3] # DataRepresentation \/ pdu[4] # 0 -> "DataRepresentation"
      [] pdu[7] # c.call \/ pdu[8] # 0 -> "CallId"
      [] ptype = FAULT -> "Fault"
      [] c.ptype = NoType /\ ~Has(flags, FirstFrag) -> "NotFirstFragment"
      [] c.ptype # NoType /\ c.ptype # ptype -> "UnexpectedType"
      [] c.pdus + 1 > PduCap -> "TooManyFragments"
      [] Len(pdu) < HeaderLen + prologue -> "Truncated"
      [] Len(c.payload) + Len(pdu) - HeaderLen - prologue > StubCap -> "StubTooLarge"
      [] OTHER -> "none"

\* Collector::accept.  A PDU past the last fragment is let go.
Accepted(c, pdu, ptype, flags, prologue, error) ==
    IF c.complete THEN c
    ELSE IF error # "none" THEN [c EXCEPT !.error = error]
    ELSE [c EXCEPT !.ptype = ptype, !.pdus = @ + 1,
                   !.payload = @ \o SubSeq(pdu, HeaderLen + prologue + 1, Len(pdu)),
                   !.complete = Has(flags, LastFrag)]

AcceptAs(c, pdu, ptype, flags, prologue) ==
    Accepted(c, pdu, ptype, flags, prologue, PduRefusal(c, pdu, ptype, flags, prologue))

Accept(c, pdu) ==
    AcceptAs(c, pdu, pdu[2] % 256, pdu[2] \div 256,
             IF pdu[2] % 256 = RESPONSE THEN ResponsePrologue ELSE 0)

\* The next whole PDU is taken out of the stream and accepted.
AcceptNext(c, next) ==
    IF c.error # "none" \/ next = "none" THEN c
    ELSE IF next = "error" THEN [c EXCEPT !.error = "FragmentLengthTooSmall"]
    ELSE Accept([c EXCEPT !.pending = SubSeq(@, c.pending[5] \div 2 + 1, Len(@))],
                SubSeq(c.pending, 1, c.pending[5] \div 2))

\* Collector::feed: every whole PDU of what is pending, until one is refused.  No
\* PDU is shorter than a header.
Feed(collector, units) ==
    FoldLeft(LAMBDA c, i : AcceptNext(c, NextPdu(c.pending)),
             [collector EXCEPT !.pending = @ \o units],
             [i \in 1 .. (Len(collector.pending) + Len(units)) \div HeaderLen |-> i])

\* bind_ack: the first context must be accepted, on NDR32.  The body is a
\* result and a syntax.
BindAckRefusal(c) ==
    CASE c.ptype = BIND_NAK -> "BindRejected"
      [] c.ptype # BIND_ACK -> "UnexpectedType"
      [] Len(c.payload) < 2 -> "Truncated"
      [] c.payload[1] # 0 -> "ContextRejected"
      [] c.payload[2] # Ndr32 -> "NotNdr32"
      [] OTHER -> "none"
=============================================================================
