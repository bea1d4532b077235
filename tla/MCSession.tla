----------------------------- MODULE MCSession -----------------------------
EXTENDS Session, TLC

MCCredentials == [user |-> "user", domain |-> "", password |-> "password"]
MCRequired == {"CAP_NT_SMBS", "CAP_EXTENDED_SECURITY"}
MCLarge == {"CAP_LARGE_READX"}

-----------------------------------------------------------------------------
(* The CHALLENGE messages: every list of up to two AV pairs, with and        *)
(* without something past the terminator, and every way to be malformed.    *)

Pair(id, value) == [id |-> id, value |-> value]
Eol == Pair("EOL", Odd)
MCPairs == << Pair("NAME", Odd), Pair("TIMESTAMP", ServerTime), Pair("TIMESTAMP", Odd),
              Pair("FLAGS", {}), Pair("FLAGS", {"other"}), Pair("FLAGS", Odd) >>

AtMostOne(i) == IF i = 0 THEN <<>> ELSE <<MCPairs[i]>>

\* By the digits of n: the first pair, the second, and whether there is more.
Info(n) ==
    [pairs |-> AtMostOne(n \div 14) \o AtMostOne((n \div 2) % 7) \o <<Eol>>
                 \o (IF n % 2 = 1 THEN <<Pair("NAME", Odd), Eol>> ELSE <<>>),
     cut |-> FALSE]

Plain == [signed |-> TRUE, kind |-> "CHALLENGE", whole |-> TRUE, inside |-> TRUE,
          flags |-> {"EXTENDED_SESSIONSECURITY"}, info |-> Info(14 * 2)]

Specials ==
    << [Plain EXCEPT !.signed = FALSE], [Plain EXCEPT !.kind = "AUTHENTICATE"],
       [Plain EXCEPT !.whole = FALSE], [Plain EXCEPT !.inside = FALSE],
       [Plain EXCEPT !.flags = {}],
       [Plain EXCEPT !.info.pairs = <<Pair("NAME", Odd)>>],
       [Plain EXCEPT !.info = [pairs |-> <<Pair("NAME", Odd), Eol>>, cut |-> TRUE]],
       [Plain EXCEPT !.info = [pairs |-> <<Eol, Pair("NAME", Odd)>>, cut |-> TRUE]] >>

\* A nonce tells every challenge from every other.
MCChallenges ==
    [n \in 1 .. 97 + Len(Specials) |->
       [nonce |-> n] @@ (IF n <= 97 THEN [Plain EXCEPT !.info = Info(n)]
                         ELSE Specials[n - 97])]

Readable(challenge) ==
    /\ challenge.signed /\ challenge.kind = "CHALLENGE" /\ challenge.whole
    /\ challenge.inside /\ challenge.flags # {}
    /\ \E i \in 1 .. Len(challenge.info.pairs) :
         /\ challenge.info.pairs[i] = Eol
         /\ challenge.info.cut => i < Len(challenge.info.pairs)

-----------------------------------------------------------------------------
(* The tokens they come in: each wrapper in each form of a length.          *)

Put(form, tag, value) ==
    CASE form = "short" -> <<tag, Len(value)>> \o value
      [] form = "long" -> <<tag, 129, Len(value)>> \o value
      [] form = "open" -> <<tag, 128>> \o value \o <<0, 0>>

\* Each form outside each other one, the open form inside itself.
Forms == {<<"short", "long">>, <<"long", "open">>, <<"open", "short">>, <<"open", "open">>}

\* A message ends in zeroes, which end no indefinite value it lies in.
Message(n) == <<n, 0, 0>>

Field(n, message) ==
    IF n = 2 THEN Put("short", Context[2], Put("long", OctetString, message))
    ELSE IF n < 4 THEN Put("open", Context[n], <<10, 1, 0>>)
    ELSE Put("short", OctetString, <<n>>)

Token(fields, forms, wrapped) ==
    LET resp == Put(forms[1], Context[1], Put(forms[2], Sequence, fields))
    IN  IF wrapped THEN Put(forms[1], Application0, PutTlv(Oid, SpnegoOid) \o resp)
        ELSE resp

Fields(list, message) == FlattenSeq([i \in 1 .. Len(list) |-> Field(list[i], message)])

\* The first field that is no field of the grammar, or is the token's.
Deciding(list) == SelectInSeq(list, LAMBDA n : n \in {2, 4})

Deep(levels) == FoldLeft(LAMBDA inner, level : Put("open", Context[0], inner), <<>>,
                         [i \in 1 .. levels |-> i])

AnyReadable == CHOOSE n \in DOMAIN MCChallenges : Readable(MCChallenges[n])

Whole == Token(Field(2, Message(AnyReadable)), <<"short", "short">>, TRUE)
Open == Token(Field(2, Message(AnyReadable)), <<"open", "open">>, FALSE)

Blob(bytes, carries) == [bytes |-> bytes, carries |-> carries]

MCBlobs ==
    {Blob(Token(Field(2, Message(n)), <<"short", "short">>, FALSE),
          IF Readable(MCChallenges[n]) THEN n ELSE Nothing) : n \in DOMAIN MCChallenges}
    \cup {Blob(Token(Fields(list, Message(AnyReadable)), forms, wrapped),
               IF Deciding(list) # 0 /\ list[Deciding(list)] = 2 THEN AnyReadable
               ELSE Nothing) :
            list \in BoundedSeq(0 .. 4, 2), forms \in Forms,
            wrapped \in BOOLEAN}
    \cup {Blob(SubSeq(token, 1, n), Nothing) :
            token \in {Whole, Open}, n \in 0 .. Len(Open) - 1}
    \cup {Blob(Whole \o <<1>>, AnyReadable),
          Blob(Token(Deep(2) \o Field(2, Message(AnyReadable)), <<"short", "short">>,
                     FALSE), AnyReadable),
          Blob(Token(Deep(MaxDepth) \o Field(2, Message(AnyReadable)),
                     <<"short", "short">>, FALSE), Nothing)}
=============================================================================
