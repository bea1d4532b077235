-------------------------------- MODULE Ntlm --------------------------------
(***************************************************************************)
(* The NTLMv2 exchange of src/src/auth/ntlm.rs.  The digests and the cipher *)
(* are symbolic: a term is known by what it was computed from, so two of    *)
(* them agree exactly when their inputs do.  A CHALLENGE is a record of     *)
(* what Challenge::parse reads of it, its TargetInfo a list of AV pairs.    *)
(***************************************************************************)
EXTENDS Integers, Sequences, FiniteSets, SequencesExt

Md4(text) == <<"MD4", text>>
HmacMd5(key, message) == <<"HMAC", key, message>>
Rc4(key, plain) == <<"RC4", key, plain>>

\* The ids of AV pairs are "EOL", "FLAGS", "TIMESTAMP" and "NAME" for the others.
MicProvided == "MIC"

\* The value of a pair, as a set: the bits of four bytes of flags, the eight
\* bytes of a time, or bytes of another length.
Odd == {"of another length"}
ServerTime == {"server time"}
ClientTime == {"client time"}
NoTime == {}

\* The names of NEGOTIATE_FLAGS, the nine the client sends in both messages.
NegotiateFlags == {"UNICODE", "REQUEST_TARGET", "SIGN", "NTLM", "EXTENDED_SESSIONSECURITY",
                   "TARGET_INFO", "128", "KEY_EXCH", "56"}

NegotiateMessage == [kind |-> "NEGOTIATE", flags |-> NegotiateFlags]

NtHash(password) == Md4(password)

\* ntowf_v2: the user name is folded to upper case, the domain is not.
Ntowf(credentials) ==
    HmacMd5(NtHash(credentials.password),
            << <<"upper", credentials.user>>, credentials.domain>>)

-----------------------------------------------------------------------------
\* Where MsvAvEOL stands, 0 when the list never reaches it.
AvEnd(pairs) == SelectInSeq(pairs, LAMBDA pair : pair.id = "EOL")

\* AvPairs::parse: every pair up to MsvAvEOL lies inside the buffer, which may
\* be cut inside its last pair.  What follows the terminator is not read.
Terminated(info, end) ==
    IF end = 0 \/ (info.cut /\ end = Len(info.pairs))
    THEN [error |-> "MalformedAvPairs", pairs |-> <<>>]
    ELSE [error |-> "none", pairs |-> SubSeq(info.pairs, 1, end - 1)]

AvPairsParse(info) == Terminated(info, AvEnd(info.pairs))

\* AvPairs::get and timestamp: the first pair of that id, and its value where
\* it has the eight bytes of a time.
TimeAt(pairs, at) == IF at = 0 \/ pairs[at].value = Odd THEN NoTime ELSE pairs[at].value

AvTimestamp(pairs) ==
    TimeAt(pairs, SelectInSeq(pairs, LAMBDA pair : pair.id = "TIMESTAMP"))

\* A mutant of WithMicFlag: flags of the server's own are left as they came.
WithMicFlagOnce(pairs) ==
    IF \E i \in 1 .. Len(pairs) : pairs[i].id = "FLAGS" THEN pairs
    ELSE Append(pairs, [id |-> "FLAGS", value |-> {MicProvided}])

\* with_mic_flag: the bit is set in the flags the server sent, and flags are
\* added where it sent none of four bytes.
IsFlags(pair) == pair.id = "FLAGS" /\ pair.value # Odd

WithMicFlag(pairs) ==
    IF \A i \in 1 .. Len(pairs) : ~IsFlags(pairs[i])
    THEN Append(pairs, [id |-> "FLAGS", value |-> {MicProvided}])
    ELSE [i \in 1 .. Len(pairs) |->
            IF IsFlags(pairs[i]) THEN [pairs[i] EXCEPT !.value = @ \cup {MicProvided}]
            ELSE pairs[i]]

\* Challenge::parse.  Both field descriptors must point inside the message.
ChallengeParse(message) ==
    CASE ~message.signed -> "NotNtlm"
      [] message.kind # "CHALLENGE" -> "UnexpectedMessageType"
      [] ~message.whole -> "Truncated"
      [] "EXTENDED_SESSIONSECURITY" \notin message.flags -> "NoExtendedSessionSecurity"
      [] ~message.inside -> "FieldOutOfRange"
      [] OTHER -> AvPairsParse(message.info).error

-----------------------------------------------------------------------------
NoMic == "no MIC"
ZeroMic == "zero MIC"

\* The part of the response that the proof is computed over.
Temp(info, time, values) ==
    IF time = NoTime THEN [time |-> values.time, nonce |-> values.nonce, pairs |-> info]
    ELSE [time |-> time, nonce |-> values.nonce, pairs |-> WithMicFlag(info)]

\* The message, keyed and proved, its MIC still to be computed.
Unsealed(credentials, values, temp, key, proof, mic) ==
    [kind |-> "AUTHENTICATE", flags |-> NegotiateFlags,
     user |-> credentials.user, domain |-> credentials.domain,
     workstation |-> "", lm |-> "zeroes", proof |-> proof, temp |-> temp,
     sessionKey |-> Rc4(HmacMd5(key, proof), values.key), mic |-> mic]

Proved(challenge, credentials, values, temp, key, mic) ==
    Unsealed(credentials, values, temp, key, HmacMd5(key, <<challenge.nonce, temp>>), mic)

Sealed(message, negotiate, challenge, values) ==
    IF message.mic = NoMic THEN message
    ELSE [message EXCEPT !.mic = HmacMd5(values.key, <<negotiate, challenge, message>>)]

\* authenticate: a MIC exactly where the server sent a timestamp, over the three
\* messages with its own bytes still zero.
AnswerTo(negotiate, challenge, credentials, values, info, time) ==
    Sealed(Proved(challenge, credentials, values, Temp(info, time, values),
                  Ntowf(credentials), IF time = NoTime THEN NoMic ELSE ZeroMic),
           negotiate, challenge, values)

Authenticate(negotiate, challenge, credentials, values) ==
    AnswerTo(negotiate, challenge, credentials, values, AvPairsParse(challenge.info).pairs,
             AvTimestamp(AvPairsParse(challenge.info).pairs))

\* magic_key, for signing and for sealing.
MagicKey(key, purpose) == <<"MD5", key, purpose>>

\* mech_list_mic: sequence number zero, the checksum under the sealing key.
MechListMic(key, mechList) ==
    Rc4(MagicKey(key, "sealing"),
        HmacMd5(MagicKey(key, "signing"), <<0, mechList>>))

-----------------------------------------------------------------------------
(* The other side, from [MS-NLMP] 3.2.5.1.2: what a server that knows the   *)
(* user's password checks of an AUTHENTICATE message.                      *)

\* Whether a list of pairs says that a MIC follows.
ClaimsMic(pairs) ==
    \E i \in 1 .. Len(pairs) :
      pairs[i].id = "FLAGS" /\ pairs[i].value # Odd /\ MicProvided \in pairs[i].value

\* The pairs as they were sent, up to the terminator.
Sent(pairs) ==
    SubSeq(pairs, 1, Cardinality({i \in 1 .. Len(pairs) : \A j \in 1 .. i : pairs[j].id # "EOL"}))

Echoes(pairs, sent) ==
    \A i \in 1 .. Len(pairs) :
      IF i > Len(sent) THEN pairs[i] = [id |-> "FLAGS", value |-> {MicProvided}]
      ELSE /\ pairs[i].id = sent[i].id
           /\ sent[i].id # "FLAGS" => pairs[i] = sent[i]

MicVerifies(message, negotiate, challenge) ==
    IF ClaimsMic(message.temp.pairs)
    THEN message.mic = HmacMd5(message.sessionKey[3],
           <<negotiate, challenge, [message EXCEPT !.mic = ZeroMic]>>)
    ELSE message.mic = NoMic

KeyVerifies(message, key, nonce) ==
    /\ message.proof = HmacMd5(key, <<nonce, message.temp>>)
    /\ message.sessionKey[2] = HmacMd5(key, message.proof)

TimeKept(message, time) == time # NoTime => message.temp.time = time /\ message.mic # NoMic

\* negotiate and challenge are the messages as the server saw and sent them.
ServerVerifies(message, mechListMic, mechList, negotiate, challenge, password) ==
    /\ KeyVerifies(message, Ntowf([user |-> message.user, domain |-> message.domain,
                                  password |-> password]), challenge.nonce)
    /\ mechListMic = MechListMic(message.sessionKey[3], mechList)
    /\ Echoes(message.temp.pairs, Sent(challenge.info.pairs))
    /\ MicVerifies(message, negotiate, challenge)
    /\ TimeKept(message, AvTimestamp(Sent(challenge.info.pairs)))
=============================================================================
