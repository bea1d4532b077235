-------------------------------- MODULE Rpc --------------------------------
(***************************************************************************)
(* Share enumeration: Ipc::list_shares (src/src/rpc/mod.rs) over RAP, and   *)
(* behind it NetrShareEnum over a named pipe (src/src/rpc/pipe.rs) in two   *)
(* transports.  The server answers honestly, in pages and pieces of its     *)
(* choice, may refuse any request, and a request may lapse.  Other requests  *)
(* on the same connection open files under ids the server reuses.           *)
(***************************************************************************)
EXTENDS Rap, Pdu, Errors, FiniteSets

CONSTANTS
    Shares,     \* the server's share list
    ServerName, \* the name the request carries, \\host in units
    MaxRounds,  \* MAX_ROUNDS
    MaxWrite,   \* the most units one write to the pipe carries
    Cuts,       \* where the server may cut a reply, into PDUs and into reads
    Fids        \* the file ids of the connection

ASSUME RpcAssumption ==
    /\ MaxRounds \in Nat \ {0} /\ MaxWrite \in Nat \ {0} /\ Cuts \subseteq Nat

VARIABLES
    step,       \* where list_shares is
    call,       \* the call id: 0 for the bind, n for the nth round
    fid,        \* the pipe
    transact,   \* whether the transact mode is still worth attempting
    failure,    \* whether it failed before, with an error kept for the report
    collector,  \* the reply being assembled
    written,    \* how much of the request is in the pipe
    shares,     \* what the rounds have returned so far
    resume,     \* the resume handle of the next round
    result,     \* what list_shares returns
    pipes,      \* what the server has open, by file id
    \* History.
    lost,       \* whether a request lapsed, or its future was dropped
    reopenFailed,
    strayed     \* whether a CLOSE closed someone else's file

rpcVars == <<step, call, fid, transact, failure, collector, written, shares, resume,
          result, pipes, lost, reopenFailed, strayed>>
enumVars == <<call, shares, resume>>

NoFid == 0
NoPipe == [owner |-> "nobody", bound |-> FALSE, in |-> <<>>, out |-> <<>>]
Opened == [NoPipe EXCEPT !.owner = "pipe"]

RpcInit ==
    /\ step = "rap" /\ call = 0 /\ fid = NoFid
    /\ transact = TRUE /\ failure = FALSE
    /\ collector = Collector(0) /\ written = 0
    /\ shares = <<>> /\ resume = 0 /\ result = "none"
    /\ pipes = [f \in Fids |-> NoPipe]
    /\ lost = FALSE /\ reopenFailed = FALSE /\ strayed = FALSE

-----------------------------------------------------------------------------
(* The server. *)

AccessDenied == 5

\* The stubs it may answer a round with: some of what is left from the handle
\* on, which may be no entries, and the end of the list or more to come; one of
\* these cut short; and a refusal.
PageStubs(from) ==
    UNION {{stub} \cup {SubSeq(stub, 1, n) : n \in {n \in Cuts : n < Len(stub)}} :
             stub \in {PageStub(SubSeq(Shares, from + 1, to), Len(Shares) - from, to,
                               IF to = Len(Shares) THEN WerrOk ELSE ErrorMoreData, empty) :
                        to \in from .. Len(Shares), empty \in {"null", "none"}}}
      \cup {PageStub(<<>>, 0, 0, AccessDenied, "null")}

\* A reply in one PDU, or cut in two.
Cut(ptype, id, prologue, body) ==
    {Fragment(ptype, FirstFrag + LastFrag, id, prologue \o body)}
      \cup {Fragment(ptype, FirstFrag, id, prologue \o SubSeq(body, 1, n)) \o
            Fragment(ptype, LastFrag, id, prologue \o SubSeq(body, n + 1, Len(body))) :
              n \in {n \in Cuts : n < Len(body)}}

\* The replies there may be to a request PDU on a pipe.  A call on a pipe that
\* no bind has reached is a fault.
Answers(pdu, pipe) ==
    LET ptype == pdu[2] % 256
    IN  IF ptype = BIND
        THEN {Fragment(BIND_ACK, FirstFrag + LastFrag, 0, <<0, Ndr32>>),
              Fragment(BIND_ACK, FirstFrag + LastFrag, 0, <<0, Ndr64>>),
              Fragment(BIND_ACK, FirstFrag + LastFrag, 0, <<2, 0>>),
              Fragment(BIND_NAK, FirstFrag + LastFrag, 0, <<4>>)}
        ELSE IF ~pipe.bound
        THEN {Fragment(FAULT, FirstFrag + LastFrag, pdu[7], <<0, 0, 0, 0, 1, 0>>)}
        ELSE UNION {Cut(RESPONSE, pdu[7], <<0, 0, 0, 0>>, stub) :
                      stub \in PageStubs(ResumeIn(pdu))}

\* A pipe that has answered.
Answered(pipe, answer, left) ==
    [pipe EXCEPT !.bound = @ \/ answer[2] % 256 = BIND_ACK,
                 !.in = <<>>, !.out = left]

Pieces(units) == {SubSeq(units, 1, n) : n \in (Cuts \cap 1 .. Len(units)) \cup {Len(units)}}
After(units, piece) == SubSeq(units, Len(piece) + 1, Len(units))

-----------------------------------------------------------------------------
(* RAP. *)

\* What over_rap may fail with short of a reply to read.
RapErrors == {Refused(status) : status \in {"ACCESS_DENIED", "NETWORK_NAME_DELETED",
                                            "USER_SESSION_DELETED"}}
               \cup {FromConnection(error) : error \in {"Timeout", "Reassembly", "Lost"}}

\* What a server may subtract the pointers from: nothing, or so much that they wrap.
Converters == {0, 65530}

\* over_rap and the fall-through.  A reply that is not the list, for whatever
\* reason, leads to the pipe; a connection or a tree that is gone ends it.
Rap ==
    /\ step = "rap"
    /\ \/ \E error \in RapErrors :
            IF error \in {"ConnectionLost", "TreeDisconnected"}
            THEN step' = "done" /\ result' = error /\ UNCHANGED shares
            ELSE step' = "open" /\ UNCHANGED <<shares, result>>
       \/ \E n \in 0 .. Len(Shares), status \in {RapSuccess, ErrorMoreData},
             converter \in Converters, length \in {19, 200} :
            /\ status = RapSuccess /\ n < Len(Shares) => length = 200
            /\ \E page \in {RapResponse(<<status, converter, n, Len(Shares)>>,
                               RapData(SubSeq(Shares, 1, n), converter, length))} :
                 IF page.error = "none"
                 THEN shares' = page.shares /\ step' = "done" /\ result' = "ok"
                 ELSE step' = "open" /\ UNCHANGED <<shares, result>>
    /\ UNCHANGED <<call, fid, transact, failure, collector, written, resume, pipes, lost,
                   reopenFailed, strayed>>

-----------------------------------------------------------------------------
(* The pipe. *)

\* Every way out of enumerate closes the pipe.
Leave(error) == step' = "close" /\ result' = error /\ UNCHANGED enumVars

\* call: a request goes out on the transport in use.
StartCall(id) ==
    /\ call' = id /\ collector' = Collector(id) /\ written' = 0
    /\ step' = IF transact THEN "transact" ELSE "write"

RequestOf(id) == IF id = 0 THEN BindPdu ELSE RequestPdu(id, SrvsvcRequest(ServerName, resume))

\* Pipe::open.
OpenPipe ==
    /\ step = "open"
    /\ \/ \E f \in {f \in Fids : pipes[f] = NoPipe} :
            /\ fid' = f /\ pipes' = [pipes EXCEPT ![f] = Opened]
            /\ StartCall(0) /\ UNCHANGED <<result, lost>>
       \/ /\ step' = "done" /\ result' = "BothAttemptsFailed"
          /\ UNCHANGED <<fid, pipes, call, collector, written, lost>>
    /\ UNCHANGED <<transact, failure, shares, resume, reopenFailed, strayed>>

\* A mutant of Paged: a page of nothing that says there is more is asked for again.
PagedForever(page) ==
    IF page.error # "none" THEN Leave(page.error) /\ UNCHANGED <<collector, written>>
    ELSE /\ shares' = shares \o page.shares
         /\ IF ~page.more \/ call = MaxRounds
            THEN /\ step' = "close" /\ result' = IF page.more THEN "TooManyRounds" ELSE "ok"
                 /\ UNCHANGED <<call, resume, collector, written>>
            ELSE /\ resume' = page.resume
                 /\ StartCall(IF page.shares = <<>> THEN call ELSE call + 1)
                 /\ UNCHANGED result

\* What a page of the list leads to: the end, another round, or an error, with
\* the no-progress guard before the handle and the bound on the rounds.
Paged(page) ==
    IF page.error # "none" THEN Leave(page.error) /\ UNCHANGED <<collector, written>>
    ELSE /\ shares' = shares \o page.shares
         /\ IF ~page.more
            THEN /\ step' = "close" /\ result' = "ok"
                 /\ UNCHANGED <<call, resume, collector, written>>
            ELSE IF page.shares = <<>>
            THEN /\ step' = "close" /\ result' = "NoProgress"
                 /\ UNCHANGED <<call, resume, collector, written>>
            ELSE /\ resume' = page.resume
                 /\ IF call = MaxRounds
                    THEN /\ step' = "close" /\ result' = "TooManyRounds"
                         /\ UNCHANGED <<call, collector, written>>
                    ELSE StartCall(call + 1) /\ UNCHANGED result

\* A whole reply: bind_ack, or a response and its page.
Finish(c) ==
    CASE ~c.complete -> Leave("NoLastFragment") /\ UNCHANGED <<collector, written>>
      [] c.complete /\ call = 0 ->
           \E refusal \in {BindAckRefusal(c)} :
             IF refusal # "none" THEN Leave(refusal) /\ UNCHANGED <<collector, written>>
             ELSE StartCall(1) /\ UNCHANGED <<result, shares, resume>>
      [] c.complete /\ call # 0 /\ c.ptype # RESPONSE ->
           Leave("UnexpectedType") /\ UNCHANGED <<collector, written>>
      [] OTHER -> \E page \in {SrvsvcResponse(c.payload)} : Paged(page)

\* An error of the transport in use: the transact mode falls through, by way of
\* a fresh pipe, and the other one is the end of the call.
TransportFails ==
    IF transact
    THEN /\ transact' = FALSE /\ failure' = TRUE
         /\ step' = "release" /\ UNCHANGED <<result, enumVars, collector, written>>
    ELSE /\ Leave(IF failure THEN "BothAttemptsFailed" ELSE "Transport")
         /\ failure' = FALSE /\ UNCHANGED <<transact, collector, written>>

\* The collector takes what arrived.
Fed(units) ==
    \E c \in {Feed(collector, units)} :
      IF c.error # "none" THEN TransportFails
      ELSE IF c.complete THEN Finish(c) /\ UNCHANGED <<transact, failure>>
      ELSE /\ collector' = c /\ step' = "read"
           /\ UNCHANGED <<transact, failure, written, result, enumVars>>

\* transact_call: the reply carries all of the answer or its beginning, with the
\* rest left on the pipe (STATUS_BUFFER_OVERFLOW); or it is a refusal.
Transact ==
    /\ step = "transact"
    /\ \/ UNCHANGED pipes /\ TransportFails
       \/ \E answer \in Answers(RequestOf(call), pipes[fid]) : \E piece \in Pieces(answer) :
            /\ pipes' = [pipes EXCEPT ![fid] =
                 Answered(@, answer, After(answer, piece))]
            /\ Fed(piece)
    /\ UNCHANGED <<fid, lost, reopenFailed, strayed>>

\* write_all: the request, a chunk at a time; the server may take less than it
\* was sent, and one that takes nothing ends the call.
WriteAll ==
    /\ step = "write"
    /\ \/ UNCHANGED pipes /\ TransportFails
       \/ \E request \in {RequestOf(call)} :
            \E ack \in {1, Min({MaxWrite, Len(request) - written})} :
              \E sent \in {pipes[fid].in \o SubSeq(request, written + 1, written + ack)} :
                /\ written' = written + ack
                /\ \/ /\ written + ack < Len(request)
                      /\ pipes' = [pipes EXCEPT ![fid].in = sent]
                      /\ UNCHANGED step
                   \/ /\ written + ack = Len(request)
                      /\ \E answer \in Answers(sent, pipes[fid]) :
                           pipes' = [pipes EXCEPT ![fid] = Answered(@, answer, answer)]
                      /\ step' = "read"
                /\ UNCHANGED <<transact, failure, collector, result, enumVars>>
    /\ UNCHANGED <<fid, lost, reopenFailed, strayed>>

\* fill: a pipe read; one that returns nothing is the end of the answer, which
\* then is not whole, and the call fails without another transport being tried.
Read ==
    /\ step = "read"
    /\ \/ UNCHANGED pipes /\ TransportFails
       \/ /\ pipes[fid].out # <<>>
          /\ \E piece \in Pieces(pipes[fid].out) :
               /\ pipes' = [pipes EXCEPT ![fid].out = After(@, piece)]
               /\ Fed(piece)
       \/ /\ pipes[fid].out = <<>> /\ UNCHANGED <<pipes, transact, failure>>
          /\ Finish(collector)
    /\ UNCHANGED <<fid, lost, reopenFailed, strayed>>

-----------------------------------------------------------------------------
(* Releasing. *)

\* The server closes whatever has the id.
Closed ==
    /\ pipes' = [pipes EXCEPT ![fid] = NoPipe]
    /\ strayed' = (strayed \/ pipes[fid].owner = "other")

\* reopen: the pipe is released and opened again before the other transport.
Release ==
    /\ step = "release" /\ Closed /\ step' = "reopen"
    /\ UNCHANGED <<enumVars, fid, transact, failure, collector, written, result, lost,
                   reopenFailed>>

Reopen ==
    /\ step = "reopen"
    /\ \/ \E f \in {f \in Fids : pipes[f] = NoPipe} :
            /\ fid' = f /\ pipes' = [pipes EXCEPT ![f] = Opened]
            /\ StartCall(call) /\ UNCHANGED <<failure, result, reopenFailed>>
       \/ /\ Leave("BothAttemptsFailed") /\ failure' = FALSE /\ reopenFailed' = TRUE
          /\ UNCHANGED <<fid, pipes, collector, written>>
    /\ UNCHANGED <<transact, shares, resume, lost, strayed>>

\* A mutant of ClosePipe: only an enumeration that succeeded closes its pipe.
ClosePipeOnSuccess ==
    /\ step = "close" /\ step' = "done"
    /\ IF result = "ok" THEN Closed ELSE UNCHANGED <<pipes, strayed>>
    /\ result' = IF result = "ok" THEN "ok" ELSE "BothAttemptsFailed"
    /\ UNCHANGED <<enumVars, fid, transact, failure, collector, written, lost, reopenFailed>>

\* over_srvsvc closes the pipe however the enumeration went, and list_shares
\* reports a failure beside RAP's.
ClosePipe ==
    /\ step = "close" /\ Closed /\ step' = "done"
    /\ result' = IF result = "ok" THEN "ok" ELSE "BothAttemptsFailed"
    /\ UNCHANGED <<enumVars, fid, transact, failure, collector, written, lost, reopenFailed>>

\* A request lapses after the server has worked on it, or a close after it has
\* not.  A lapse before the server has seen it is a refusal to the client.
Lapse ==
    /\ lost' = TRUE
    /\ \/ /\ step \in {"open", "reopen"}
          /\ \E f \in {f \in Fids : pipes[f] = NoPipe} : pipes' = [pipes EXCEPT ![f] = Opened]
          /\ result' = "BothAttemptsFailed"
          /\ step' = IF step = "open" THEN "done" ELSE "close"
          /\ reopenFailed' = (reopenFailed \/ step = "reopen")
          /\ UNCHANGED <<enumVars, transact, failure, collector, written>>
       \/ /\ step = "transact"
          /\ \E answer \in Answers(RequestOf(call), pipes[fid]) :
               pipes' = [pipes EXCEPT ![fid] = Answered(@, answer, answer)]
          /\ TransportFails /\ UNCHANGED reopenFailed
       \/ /\ step = "release" /\ step' = "reopen"
          /\ UNCHANGED <<enumVars, transact, failure, collector, written, result, pipes,
                         reopenFailed>>
       \/ /\ step = "close" /\ step' = "done"
          /\ result' = IF result = "ok" THEN "ok" ELSE "BothAttemptsFailed"
          /\ UNCHANGED <<enumVars, transact, failure, collector, written, pipes, reopenFailed>>
    /\ UNCHANGED <<fid, strayed>>

\* The caller drops list_shares.  A Pipe has no Drop of its own.
Cancel ==
    /\ step \notin {"rap", "done"}
    /\ step' = "done" /\ result' = "Cancelled" /\ lost' = TRUE
    /\ UNCHANGED <<enumVars, fid, transact, failure, collector, written, pipes,
                   reopenFailed, strayed>>

\* Another caller of the connection opens a file.
OtherOpens ==
    /\ step # "done" /\ \A f \in Fids : pipes[f].owner # "other"
    /\ \E f \in {f \in Fids : pipes[f] = NoPipe} :
         pipes' = [pipes EXCEPT ![f] = [NoPipe EXCEPT !.owner = "other"]]
    /\ UNCHANGED <<enumVars, step, fid, transact, failure, collector, written, result,
                   lost, reopenFailed, strayed>>

-----------------------------------------------------------------------------
Client == Rap \/ OpenPipe \/ Transact \/ WriteAll \/ Read \/ Release \/ Reopen \/ ClosePipe
RpcNext == Client \/ Lapse \/ Cancel \/ OtherOpens

\* Every request is answered or lapses, by the connection's deadlines.
RpcSpec == RpcInit /\ [][RpcNext]_rpcVars /\ WF_rpcVars(Client)

-----------------------------------------------------------------------------
(* Properties. *)

\* rpc/mod.rs:24 and pdu.rs:10: a list that is returned is the server's list, each
\* share once with its own name, kind and comment, whichever path and transport
\* carried it, however it was cut and however often it was tried.
WholeList == step = "done" /\ result = "ok" => shares = Shares

\* rpc/mod.rs:226: an enumeration that has ended has no pipe open on the server, and
\* closed nobody else's file, unless a request of it lapsed or was dropped, or the
\* pipe could not be opened again after the transact mode failed.
PipesReleased ==
    /\ step = "done" /\ ~lost => \A f \in Fids : pipes[f].owner # "pipe"
    /\ strayed => reopenFailed \/ lost

\* pipe.rs:288 and rpc/mod.rs:55: every enumeration ends, whatever the server takes of a
\* write and however it pages.
EnumerationEnds == <>(step = "done")
=============================================================================
