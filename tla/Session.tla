------------------------------ MODULE Session ------------------------------
(***************************************************************************)
(* The handshake of src/src/session.rs: negotiate and session setup on a    *)
(* freshly dialled stream, in one connect timeout, and the connection actor *)
(* put on the stream once they are through.  The server may answer anything *)
(* at any point, a keep-alive included, or nothing at all.                 *)
(***************************************************************************)
EXTENDS Spnego, Ntlm

CONSTANTS
    ConnectTimeout,     \* ticks of the clock
    Required,           \* REQUIRED_CAPABILITIES
    Large,              \* CAP_LARGE_READX and CAP_LARGE_WRITEX
    ClientCapabilities, \* CLIENT_CAPABILITIES
    MinMaxBufferSize,
    Credentials,        \* the caller's, a record
    Uids,
    Blobs,              \* the tokens a server sends, each with what it carries
    Challenges          \* the NTLM messages they carry, by the byte that names one

Nothing == 0  \* what a token carries that carries no challenge

ASSUME SessionAssumption ==
    /\ ConnectTimeout \in Nat
    /\ MinMaxBufferSize \in Nat \ {0}
    /\ 0 \in Uids
    /\ ClientCapabilities \cap Large = {}
    /\ \A blob \in Blobs : blob.carries \in DOMAIN Challenges \cup {Nothing}

VARIABLES
    allowGuest, \* the option
    leg,        \* the request being sent or answered: "negotiate", "first", "second"
    phase,      \* "write" and then "read" of that request
    clock,
    wire,       \* the requests sent, in order
    replies,    \* the replies read, in order
    outcome,    \* "none", then "session" or the error
    session,    \* what the caller holds: the uid, guest and buffer size
    actor       \* the buffer size the actor was constructed with, 0 before

sessionVars == <<allowGuest, leg, phase, clock, wire, replies, outcome, session, actor>>

NoSession == [uid |-> 0, guest |-> FALSE, buffer |-> 0]

SessionInit ==
    /\ allowGuest \in BOOLEAN
    /\ leg = "negotiate" /\ phase = "write" /\ clock = 0
    /\ wire = <<>> /\ replies = <<>>
    /\ outcome = "none" /\ session = NoSession /\ actor = 0

-----------------------------------------------------------------------------
(* What the server may send. *)

Statuses == {"SUCCESS", "MORE_PROCESSING_REQUIRED", "LOGON_FAILURE"}

Header == [command : {"NEGOTIATE", "SESSION_SETUP_ANDX"}, parses : BOOLEAN,
           ntStatus : BOOLEAN, status : Statuses, uid : Uids]

\* One requirement at most is missed: a reply that misses two is refused as one
\* that misses the first.
NegotiateReplies ==
    LET good == [header |-> [command |-> "NEGOTIATE", parses |-> TRUE,
                             ntStatus |-> TRUE, status |-> "SUCCESS", uid |-> 0],
                 decodes |-> TRUE, dialect |-> 0, capabilities |-> Required \cup Large,
                 user |-> TRUE, signing |-> FALSE, buffer |-> MinMaxBufferSize]
    IN  {[good EXCEPT !.capabilities = Required \cup large] : large \in SUBSET Large}
          \cup {[good EXCEPT !.capabilities = @ \ {c}] : c \in Required}
          \cup {[good EXCEPT !.header = header] : header \in Header}
          \cup {[good EXCEPT !.dialect = d] : d \in {1, 65535}}
          \cup {[good EXCEPT !.decodes = FALSE], [good EXCEPT !.user = FALSE],
                [good EXCEPT !.signing = TRUE],
                [good EXCEPT !.buffer = MinMaxBufferSize - 1]}

GoodSetup ==
    [header |-> [command |-> "SESSION_SETUP_ANDX", parses |-> TRUE, ntStatus |-> TRUE,
                 status |-> "SUCCESS", uid |-> 0],
     decodes |-> TRUE, guest |-> FALSE, blob |-> <<>>, carries |-> Nothing]

\* Replies to a session setup whose token, if there is one, is not read.
SetupReplies ==
    {[GoodSetup EXCEPT !.header.uid = uid, !.guest = guest] :
       uid \in Uids, guest \in BOOLEAN}
      \cup {[GoodSetup EXCEPT !.header = header] : header \in Header}
      \cup {[GoodSetup EXCEPT !.decodes = FALSE]}

\* Replies that ask for more.
ChallengeReplies ==
    {[GoodSetup EXCEPT !.header.status = "MORE_PROCESSING_REQUIRED",
                       !.header.uid = uid, !.blob = blob.bytes,
                       !.carries = blob.carries] : uid \in Uids, blob \in Blobs}

-----------------------------------------------------------------------------
(* The requests. *)

NegotiateRequest == [command |-> "NEGOTIATE", uid |-> 0, capabilities |-> {},
                     blob |-> <<>>]

\* The large-I/O capabilities are claimed only where the server offered them.
Claimed == ClientCapabilities \cup (replies[1].capabilities \cap Large)

FirstLeg == [command |-> "SESSION_SETUP_ANDX", uid |-> 0, capabilities |-> Claimed,
             blob |-> NegTokenInit(<<NegotiateMessage>>)]

\* ClientValues::fresh.
Fresh == [nonce |-> "client nonce", key |-> "exported key", time |-> ClientTime]

\* Every token the server has, read: its value or what it is refused for.
ReadToken == [bytes \in {blob.bytes : blob \in Blobs} |-> ResponseToken(bytes)]

\* The challenge in the reply to the first leg.
Challenge(reply) == Challenges[ReadToken[reply.blob].value[1]]

SecondLeg ==
    [command |-> "SESSION_SETUP_ANDX", uid |-> replies[2].header.uid,
     capabilities |-> Claimed,
     blob |-> NegTokenResp(
                <<Authenticate(NegotiateMessage, Challenge(replies[2]), Credentials, Fresh)>>,
                <<MechListMic(Fresh.key, MechList)>>)]

\* send(), as far as the flush.  A peer that stops reading leaves it undone.
Send ==
    /\ outcome = "none" /\ phase = "write"
    /\ wire' = Append(wire, CASE leg = "negotiate" -> NegotiateRequest
                              [] leg = "first" -> FirstLeg
                              [] leg = "second" -> SecondLeg)
    /\ phase' = "read"
    /\ UNCHANGED <<allowGuest, leg, clock, replies, outcome, session, actor>>

-----------------------------------------------------------------------------
(* The replies. *)

\* The end of send() and expect_nt_status: what any reply is refused for.
Malformed(reply) ==
    IF ~reply.header.parses THEN "Protocol"
    ELSE IF reply.header.command # wire[Len(wire)].command THEN "UnsupportedServer"
    ELSE IF ~reply.header.ntStatus THEN "UnsupportedServer"
    ELSE "none"

\* NegotiateResponse::decode and accepted_offered_dialect.
DialectRefusal(reply) ==
    IF ~reply.decodes \/ reply.dialect # 0 THEN "Protocol" ELSE "none"

\* A mutant of NegotiateRefusal: the capability floor is not checked.
NegotiateRefusalNoFloor(reply) ==
    IF Malformed(reply) # "none" THEN Malformed(reply)
    ELSE IF reply.header.status # "SUCCESS" THEN "Status"
    ELSE IF DialectRefusal(reply) # "none" THEN DialectRefusal(reply)
    ELSE IF ~reply.user THEN "UnsupportedServer"
    ELSE IF reply.signing THEN "SigningRequired"
    ELSE IF reply.buffer < MinMaxBufferSize THEN "UnsupportedServer"
    ELSE "none"

\* negotiate(), after the reply.
NegotiateRefusal(reply) ==
    IF Malformed(reply) # "none" THEN Malformed(reply)
    ELSE IF reply.header.status # "SUCCESS" THEN "Status"
    ELSE IF DialectRefusal(reply) # "none" THEN DialectRefusal(reply)
    ELSE IF ~(Required \subseteq reply.capabilities) THEN "UnsupportedServer"
    ELSE IF ~reply.user THEN "UnsupportedServer"
    ELSE IF reply.signing THEN "SigningRequired"
    ELSE IF reply.buffer < MinMaxBufferSize THEN "UnsupportedServer"
    ELSE "none"

\* The challenge of a reply that asks for more: its token, and the NTLM message
\* the token carries.
ChallengeRefusal(reply, token) ==
    IF \/ token.error # "none" \/ Len(token.value) = 0
       \/ ChallengeParse(Challenge(reply)) # "none"
    THEN "Protocol" ELSE "none"

\* SessionSetupResponse::decode.
SetupDecodes(reply) == reply.decodes

\* The first leg's reply: SUCCESS needs no challenge to be answered.
FirstRefusal(reply) ==
    IF Malformed(reply) # "none" THEN Malformed(reply)
    ELSE IF reply.header.status = "LOGON_FAILURE" THEN "Status"
    ELSE IF ~SetupDecodes(reply) THEN "Protocol"
    ELSE IF reply.header.status = "MORE_PROCESSING_REQUIRED"
    THEN ChallengeRefusal(reply, ReadToken[reply.blob])
    ELSE "none"

\* A mutant of SecondRefusal: any status of the success class will do.
SecondRefusalLax(reply) ==
    IF Malformed(reply) # "none" THEN Malformed(reply)
    ELSE IF reply.header.status = "LOGON_FAILURE" THEN "Status"
    ELSE IF ~SetupDecodes(reply) THEN "Protocol"
    ELSE "none"

SecondRefusal(reply) ==
    IF Malformed(reply) # "none" THEN Malformed(reply)
    ELSE IF reply.header.status # "SUCCESS" THEN "Status"
    ELSE IF ~SetupDecodes(reply) THEN "Protocol"
    ELSE "none"

\* A reply that is refused ends the handshake, and the stream with it.
Refuse(reply, error) ==
    /\ error # "none"
    /\ outcome' = error
    /\ replies' = Append(replies, reply)
    /\ UNCHANGED <<allowGuest, leg, phase, clock, wire, session, actor>>

GoOn(reply, next) ==
    /\ replies' = Append(replies, reply)
    /\ leg' = next /\ phase' = "write"
    /\ UNCHANGED <<allowGuest, clock, wire, outcome, session, actor>>

\* The rest of run(), and of establish(): the guest check, and the actor over
\* the stream.  No await stands between the two.
Establish(reply) ==
    /\ replies' = Append(replies, reply)
    /\ IF reply.guest /\ ~allowGuest
       THEN outcome' = "GuestLogon" /\ UNCHANGED <<session, actor>>
       ELSE /\ outcome' = "session"
            /\ actor' = replies[1].buffer
            /\ session' = [uid |-> reply.header.uid, guest |-> reply.guest,
                           buffer |-> replies[1].buffer]
    /\ UNCHANGED <<allowGuest, leg, phase, clock, wire>>

Reading(l) == outcome = "none" /\ phase = "read" /\ leg = l

Negotiate(reply) ==
    /\ Reading("negotiate")
    /\ \E refusal \in {NegotiateRefusal(reply)} :
         \/ Refuse(reply, refusal)
         \/ refusal = "none" /\ GoOn(reply, "first")

SetupFirst(reply) ==
    /\ Reading("first")
    /\ \E refusal \in {FirstRefusal(reply)} :
         \/ Refuse(reply, refusal)
         \/ refusal = "none" /\ reply.header.status = "SUCCESS" /\ Establish(reply)
         \/ refusal = "none" /\ reply.header.status # "SUCCESS" /\ GoOn(reply, "second")

SetupSecond(reply) ==
    /\ Reading("second")
    /\ \E refusal \in {SecondRefusal(reply)} :
         \/ Refuse(reply, refusal)
         \/ refusal = "none" /\ Establish(reply)

\* Read past.  It neither answers the request nor restarts the clock.
KeepAlive ==
    /\ outcome = "none" /\ phase = "read"
    /\ UNCHANGED sessionVars

\* The stream fails under a write or a read, or the entropy source does.
IoFails ==
    /\ outcome = "none"
    /\ outcome' = "Io"
    /\ UNCHANGED <<allowGuest, leg, phase, clock, wire, replies, session, actor>>

-----------------------------------------------------------------------------
(* The connect timeout, one over the whole of it. *)

Tick ==
    /\ outcome = "none" /\ clock < ConnectTimeout
    /\ clock' = clock + 1
    /\ UNCHANGED <<allowGuest, leg, phase, wire, replies, outcome, session, actor>>

\* A mutant of Expire: the clock bounds the wait for a reply and no write.
ExpireReading ==
    /\ outcome = "none" /\ clock = ConnectTimeout /\ phase = "read"
    /\ outcome' = "ConnectTimeout"
    /\ UNCHANGED <<allowGuest, leg, phase, clock, wire, replies, session, actor>>

\* The timeout drops the handshake wherever it is, in a write as in a read.
Expire ==
    /\ outcome = "none" /\ clock = ConnectTimeout
    /\ outcome' = "ConnectTimeout"
    /\ UNCHANGED <<allowGuest, leg, phase, clock, wire, replies, session, actor>>

SessionOver == outcome # "none" /\ UNCHANGED sessionVars

SessionNext ==
    \/ Send \/ KeepAlive \/ IoFails \/ Tick \/ Expire \/ SessionOver
    \/ \E reply \in NegotiateReplies : Negotiate(reply)
    \/ \E reply \in SetupReplies \cup ChallengeReplies : SetupFirst(reply)
    \/ \E reply \in SetupReplies : SetupSecond(reply)

SessionSpec == SessionInit /\ [][SessionNext]_sessionVars

\* Only time is fair: the server may stop reading, and it may stop answering.
FairSessionSpec == SessionSpec /\ WF_sessionVars(Tick) /\ WF_sessionVars(Expire)

-----------------------------------------------------------------------------
(* Properties. *)

\* Whether a negotiate reply meets what session.rs:16 requires of a server
\* before a credential may reach it, stated apart from the checks' order.
Acceptable(reply) ==
    /\ Required \subseteq reply.capabilities
    /\ reply.user /\ ~reply.signing
    /\ reply.buffer >= MinMaxBufferSize
    /\ reply.dialect = 0

\* session.rs:18: the credentials reach the wire only when a server that meets
\* every requirement has issued a challenge this client could read, and then
\* under the uid the challenge came with.
CredentialsKept ==
    Len(wire) = 3 =>
      /\ Acceptable(replies[1])
      /\ replies[2].header.status = "MORE_PROCESSING_REQUIRED"
      /\ replies[2].carries # Nothing
      /\ wire[3].uid = replies[2].header.uid
      /\ wire[3].capabilities \cap Large \subseteq replies[1].capabilities

\* The value inside nested tags, and what follows the value of a tag.
Contents(bytes, tags) ==
    FoldLeft(LAMBDA rest, tag : Expect(rest, tag, 0).value, bytes, tags)

Follows(bytes, tag) == SubSeq(bytes, Expect(bytes, tag, 0).consumed + 1, Len(bytes))

\* spnego.rs:48 and ntlm.rs:513: a challenge is answered when its token is one
\* the grammar allows, in whichever form its lengths come, and refused when it
\* is not; and a server that follows the specification and knows the password
\* verifies the answer: the response is computed over what it sent and nothing
\* past it, the MIC covers the messages that went on the wire and is there when
\* the pairs say so, and the mechanism list that is signed is the one the first
\* leg carried.
AnswersTheChallenge ==
  /\ (outcome # "Io" /\ Len(replies) = 2 /\ replies[2].blob # <<>>) =>
       (outcome = "Protocol") = (replies[2].carries = Nothing)
  /\ Len(wire) = 3 =>
       \E init \in {Contents(Follows(Contents(wire[2].blob, <<Application0>>), Oid),
                          <<Context[0], Sequence>>)},
          resp \in {Contents(wire[3].blob, <<Context[1], Sequence>>)} :
         ServerVerifies(
            Contents(resp, <<Context[2], OctetString>>)[1],
            Contents(Follows(resp, Context[2]), <<Context[3], OctetString>>)[1],
            Contents(init, <<Context[0]>>),
            Contents(Follows(init, Context[0]), <<Context[2], OctetString>>)[1],
            Challenges[replies[2].carries], Credentials.password)

\* session.rs:9 and :30: a session is one the server granted with its last
\* word, under the uid that word carried, as a guest only where the caller
\* allowed it, and over an actor whose buffer is no less than the chunk rules
\* subtract from; on every other way out there is no actor.
SessionEarned ==
    IF outcome = "session"
    THEN LET last == replies[Len(replies)]
         IN  /\ last.header.status = "SUCCESS" /\ last.header.ntStatus
             /\ session.uid = last.header.uid
             /\ session.guest = last.guest /\ (last.guest => allowGuest)
             /\ actor = replies[1].buffer /\ actor >= MinMaxBufferSize
             /\ Len(replies) = Len(wire)
    ELSE session = NoSession /\ actor = 0

\* session.rs:8: the handshake is over in one connect timeout, though the peer
\* stops reading, says nothing, or sends keep-alives for ever.
HandshakeEnds == <>(outcome # "none")
=============================================================================
