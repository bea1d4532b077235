----------------------------- MODULE Connection -----------------------------
(***************************************************************************)
(* The connection actor (src/src/connection/actor.rs), the handle callers  *)
(* hold on it (src/src/connection/mod.rs) and the server at the far end of *)
(* the socket.                                                             *)
(*                                                                         *)
(* One turn of the actor's loop is two steps.  Arm is the top of the loop: *)
(* it looks at the two queues and the table and decides which sources the  *)
(* select! polls.  The actor is then parked, callers and the clock move,   *)
(* and exactly one source yields: one of the actions under "events", each  *)
(* of which is the whole of the handler.  What was decided at the top is   *)
(* what the event is chosen by, even where it has since become stale.      *)
(*                                                                         *)
(* A frame is modelled by the call that reads it whole: the bytes the      *)
(* server has sent and the socket has not yielded are not told apart from  *)
(* bytes the server has still to send.                                     *)
(***************************************************************************)
EXTENDS RequestTable, Sequences

CONSTANTS
    Requests,      \* calls of Connection::request, each made at most once
    Closes,        \* handles whose Drop enqueues a close, once each
    Commands,      \* the command bytes
    Command,       \* the command each call carries
    Transactions,  \* the commands whose replies are reassembled
    Hooked,        \* the requests built with Request::outliving
    CloseRun,      \* CLOSE_RUN
    Rogue          \* whether the server also sends what it owes to nobody

ASSUME ConnectionAssumption ==
    /\ Calls = Requests \cup Closes
    /\ Requests \cap Closes = {}
    /\ Command \in [Calls -> Commands]
    /\ Transactions \subseteq Commands
    /\ Hooked \subseteq Requests
    /\ CloseRun \in Nat \ {0}
    /\ Rogue \in BOOLEAN

VARIABLES
    \* The actor.
    pc,                 \* "top" of the loop, "parked" in the select!, "ended"
    armed,              \* take_close and take_request, as decided at the top
    requestsDone,       \* requests_done
    closesDone,         \* closes_done
    consecutiveCloses,  \* consecutive_closes
    writing,            \* the frame going out, with the request it carries
    silentFor,          \* silent_for(now), never told apart above Overall
    waiting,            \* whether waiting_since is set
    \* The two channels and the handles on them.
    requests, closes, dropped, handlesHeld,
    \* The callers, and what the hook of each request has been told.
    caller, result, hooks,
    \* The server: the requests it received whole and has not answered whole.
    owed

actorVars == <<pc, armed, requestsDone, closesDone, consecutiveCloses,
               writing, silentFor, waiting>>
channelVars == <<requests, closes, dropped, handlesHeld>>
callerVars == <<caller, result, hooks>>
vars == <<tableVars, actorVars, channelVars, callerVars, owed>>

Idle == [call |-> Nobody, mid |-> 0, begun |-> FALSE]

\* How a request ends for whoever waits on it.  A reply carries, as history,
\* the call the server was answering.
Outcome == [kind : {"none", "reply", "corrupt", "timeout", "refused",
                    "lost", "unsent"},
            of : Calls \cup {Nobody}]

Ended(kind) == [kind |-> kind, of |-> Nobody]
ReplyTo(c) == [kind |-> "reply", of |-> c]

\* What one message says to the request it reaches: STATUS_PENDING, any
\* complete response, the complete response that ends the session, or a
\* SUCCESS message of a transaction that leaves the reply short of its
\* totals, completes it, or is refused by the decoder or the reassembly.
Kinds == {"Pending", "Whole", "Deleted", "Part", "Last", "Bad"}

Frame == [mid : 0 .. LastMid + 1, command : Commands,
          kind : Kinds, of : Calls \cup {Nobody}]

Init ==
    /\ TableInit
    /\ pc = "top"
    /\ armed = [close |-> FALSE, request |-> FALSE]
    /\ requestsDone = FALSE
    /\ closesDone = FALSE
    /\ consecutiveCloses = 0
    /\ writing = Idle
    /\ silentFor = 0
    /\ waiting = FALSE
    /\ requests = <<>>
    /\ closes = <<>>
    /\ dropped = {}
    /\ handlesHeld = TRUE
    /\ caller = [r \in Requests |-> "idle"]
    /\ result = [r \in Requests |-> Ended("none")]
    /\ hooks = [r \in Requests |-> <<>>]
    /\ owed = {}

-----------------------------------------------------------------------------
(* Ending requests.                                                        *)

\* Entry::deliver and the oneshot behind it.  The calls in DOMAIN told end on
\* the wire: the hook is applied, and the caller told if it still waits.  The
\* calls in cut lose their reply channel and nothing else.
Conclude(told, cut) ==
    /\ caller' = [r \in Requests |->
                    IF caller[r] = "waiting" /\ r \in DOMAIN told \cup cut
                    THEN "ended" ELSE caller[r]]
    /\ result' = [r \in Requests |->
                    IF caller[r] # "waiting" THEN result[r]
                    ELSE IF r \in DOMAIN told THEN told[r]
                    ELSE IF r \in cut THEN Ended("lost")
                    ELSE result[r]]
    /\ hooks' = [r \in Requests |->
                    IF r \in DOMAIN told /\ r \in Hooked
                    THEN Append(hooks[r], told[r]) ELSE hooks[r]]

\* A mutant of Telling: nobody waits any more, so nothing is told.
TellingWaiting(row, outcome) ==
    [c \in (IF Charges(row) /\ (row.owner \in Requests => caller[row.owner] = "waiting")
            THEN {row.owner} ELSE {}) |-> outcome]

\* Only a row on the wire has anybody to tell; a lapsed row told its caller
\* when it lapsed and a late reply applies nothing.
Telling(row, outcome) ==
    [c \in (IF Charges(row) THEN {row.owner} ELSE {}) |-> outcome]

\* The end of run(): fail_all tells every request still charging capacity,
\* unless this same turn told it already, and dropping the actor drops both
\* receivers, the write in progress and every reply channel with them.
Fail(told) ==
    LET live == {table[m].owner : m \in OnWire}
        all == [c \in DOMAIN told \cup live |->
                  IF c \in DOMAIN told THEN told[c] ELSE Ended("lost")]
    IN  /\ pc' = "ended"
        /\ FailAll
        /\ Conclude(all, Requests)
        /\ armed' = [close |-> FALSE, request |-> FALSE]
        /\ writing' = Idle
        /\ requests' = <<>>
        /\ closes' = <<>>
        /\ owed' = {}
        /\ waiting' = FALSE
        /\ UNCHANGED <<requestsDone, closesDone, dropped, handlesHeld,
                       silentFor>>

\* A failure met with the table as it stands.
FailNow ==
    /\ Fail([c \in {} |-> Ended("lost")])
    /\ UNCHANGED <<retired, cursor, consecutiveCloses>>

Continue == pc' = "top" /\ armed' = [close |-> FALSE, request |-> FALSE]

\* A mutant of NoteWaiting: a window once opened stays open.
NoteWaitingOnly == waiting' = (waiting \/ charging' > 0)

\* note_waiting: the silence window runs exactly while a request charges.
NoteWaiting == waiting' = (charging' > 0)

-----------------------------------------------------------------------------
(* The callers.                                                            *)

Call(r) ==
    /\ handlesHeld /\ caller[r] = "idle"
    /\ caller' = [caller EXCEPT ![r] = "sending"]
    /\ UNCHANGED <<tableVars, actorVars, channelVars, result, hooks, owed>>

\* The channel takes the request once it has room; its bound is the limit.
Send(r) ==
    /\ caller[r] = "sending" /\ pc # "ended" /\ Len(requests) < Limit
    /\ requests' = Append(requests, r)
    /\ caller' = [caller EXCEPT ![r] = "waiting"]
    /\ UNCHANGED <<tableVars, actorVars, closes, dropped, handlesHeld, result,
                   hooks, owed>>

SendFails(r) ==
    /\ caller[r] = "sending" /\ pc = "ended"
    /\ caller' = [caller EXCEPT ![r] = "ended"]
    /\ result' = [result EXCEPT ![r] = Ended("unsent")]
    /\ UNCHANGED <<tableVars, actorVars, channelVars, hooks, owed>>

\* The future is dropped.  Nothing is withdrawn.
Leave(r) ==
    /\ caller[r] \in {"sending", "waiting"}
    /\ caller' = [caller EXCEPT ![r] = "gone"]
    /\ UNCHANGED <<tableVars, actorVars, channelVars, result, hooks, owed>>

\* enqueue_close: neither waits nor fails.  Once the actor is gone the close is
\* abandoned; the server released the handle with the socket.
EnqueueClose(c) ==
    /\ handlesHeld /\ c \notin dropped
    /\ dropped' = dropped \cup {c}
    /\ closes' = IF pc = "ended" THEN closes ELSE Append(closes, c)
    /\ UNCHANGED <<tableVars, actorVars, requests, handlesHeld, callerVars,
                   owed>>

\* The last Connection goes.  A caller inside request() holds one.
DropHandles ==
    /\ handlesHeld
    /\ \A r \in Requests : caller[r] \notin {"sending", "waiting"}
    /\ handlesHeld' = FALSE
    /\ UNCHANGED <<tableVars, actorVars, requests, closes, dropped, callerVars,
                   owed>>

-----------------------------------------------------------------------------
(* The top of the loop.                                                    *)

\* A mutant of Finished: the task stays for every id it remembers.
FinishedEmpty ==
    requestsDone /\ closesDone /\ writing = Idle /\ FreeMids = Mids

Finished == requestsDone /\ closesDone /\ writing = Idle /\ charging = 0

\* A mutant of CanAdmit: off by one at the limit.
CanAdmitAtLimit == writing = Idle /\ charging <= Limit

CanAdmit == writing = Idle /\ charging < Limit

\* consecutive_closes as the top of the loop leaves it.
RunSoFar == IF requests = <<>> \/ closes = <<>> THEN 0 ELSE consecutiveCloses

TakeClose == CanAdmit /\ ~closesDone /\ RunSoFar < CloseRun

TakeRequest ==
    CanAdmit /\ ~requestsDone /\ (RunSoFar >= CloseRun \/ closes = <<>>)

Arm ==
    /\ pc = "top" /\ ~Finished
    /\ pc' = "parked"
    /\ armed' = [close |-> TakeClose, request |-> TakeRequest]
    /\ consecutiveCloses' = RunSoFar
    /\ UNCHANGED <<tableVars, requestsDone, closesDone, writing, silentFor,
                   waiting, channelVars, callerVars, owed>>

\* pump() returns Ok: every handle has gone and nothing is outstanding.
Finish ==
    /\ pc = "top" /\ Finished
    /\ FailNow

-----------------------------------------------------------------------------
(* Events: a request or a close is taken.                                  *)

\* The caller went while the request was in the channel: it is not sent.
NotSent(c) ==
    /\ c \in Requests /\ caller[c] = "gone"
    /\ Conclude([r \in {c} |-> Ended("lost")], {})
    /\ Continue
    /\ UNCHANGED <<tableVars, writing, silentFor, waiting, owed>>

\* The frame cannot be built: the id was never used, the request alone fails.
NotEncoded(c) ==
    /\ c \in Requests => caller[c] # "gone"
    /\ \E m \in Mids : Allocates(m) /\ cursor' = CursorAfter(m)
    /\ Conclude([r \in {c} |-> Ended("refused")], {})
    /\ Continue
    /\ UNCHANGED <<table, expiry, charging, retired, writing, silentFor,
                   waiting, owed>>

Begun(c) ==
    /\ c \in Requests => caller[c] # "gone"
    /\ \E m \in Mids :
         /\ Allocates(m)
         /\ cursor' = CursorAfter(m)
         /\ writing' = [call |-> c, mid |-> m, begun |-> FALSE]
    /\ Continue
    /\ UNCHANGED <<table, expiry, charging, retired, silentFor, waiting,
                   callerVars, owed>>

\* begin(), where it leaves the connection up.
Begin(c) == NotSent(c) \/ NotEncoded(c) \/ Begun(c)

\* begin() with every id held: PoolExhausted fails the connection.
PoolExhausted(c) == (c \in Requests => caller[c] # "gone") /\ FreeMids = {}

CloseTaken ==
    /\ pc = "parked" /\ armed.close /\ closes # <<>>
    /\ \/ /\ Begin(Head(closes))
          /\ closes' = Tail(closes)
          /\ consecutiveCloses' = consecutiveCloses + 1
          /\ UNCHANGED <<requestsDone, closesDone, requests, dropped,
                         handlesHeld>>
       \/ /\ PoolExhausted(Head(closes))
          /\ FailNow

RequestTaken ==
    /\ pc = "parked" /\ armed.request /\ requests # <<>>
    /\ \/ /\ Begin(Head(requests))
          /\ requests' = Tail(requests)
          /\ consecutiveCloses' = 0
          /\ UNCHANGED <<requestsDone, closesDone, closes, dropped,
                         handlesHeld>>
       \/ /\ PoolExhausted(Head(requests))
          /\ FailNow

\* A channel that is empty and has no sender left yields None.
ClosesEnd ==
    /\ pc = "parked" /\ armed.close /\ closes = <<>> /\ ~handlesHeld
    /\ closesDone' = TRUE
    /\ Continue
    /\ UNCHANGED <<tableVars, requestsDone, consecutiveCloses, writing,
                   silentFor, waiting, channelVars, callerVars, owed>>

RequestsEnd ==
    /\ pc = "parked" /\ armed.request /\ requests = <<>> /\ ~handlesHeld
    /\ requestsDone' = TRUE
    /\ Continue
    /\ UNCHANGED <<tableVars, closesDone, consecutiveCloses, writing,
                   silentFor, waiting, channelVars, callerVars, owed>>

-----------------------------------------------------------------------------
(* Events: the socket takes bytes.                                         *)

\* wrote(): the first byte dispatches the request; the last one ends the
\* write, and from there the server has the request whole.
Wrote(done) ==
    /\ pc = "parked" /\ writing # Idle
    /\ ~done => ~writing.begun
    /\ IF writing.begun THEN UNCHANGED tableVars
                        ELSE Dispatch(writing.mid, writing.call)
    /\ writing' = IF done THEN Idle ELSE [writing EXCEPT !.begun = TRUE]
    /\ owed' = IF done THEN owed \cup {<<writing.mid, writing.call>>} ELSE owed
    /\ NoteWaiting
    /\ Continue
    /\ UNCHANGED <<requestsDone, closesDone, consecutiveCloses, silentFor,
                   channelVars, callerVars>>

WriteFails == pc = "parked" /\ writing # Idle /\ FailNow

-----------------------------------------------------------------------------
(* Events: the socket yields a frame.                                      *)

\* Answers to what the server owes: any number of interim and partial
\* messages, and one that ends the reply.
Owing == {f \in Frame :
            /\ <<f.mid, f.of>> \in owed
            /\ f.command = Command[f.of]
            /\ f.kind \in {"Part", "Last", "Bad"} => f.command \in Transactions}

\* Anything at all, an oplock break on the reserved id included.
Unasked == {f \in Frame : f.of = Nobody}

Frames == Owing \cup (IF Rogue THEN Unasked ELSE {})

\* RequestTable::accept, before the row is touched: the id matches no row, or
\* a row that sent another command.
Unroutable(f) ==
    \/ f.mid \notin Mids \ FreeMids
    \/ /\ f.mid \in Mids \ FreeMids
       /\ table[f.mid].state # "Retired"
       /\ Command[table[f.mid].owner] # f.command

\* A mutant of StepOf: the first message of a reply gives the id back.
StepOfFirst(row, kind) ==
    IF kind = "Pending" THEN "Continuing"
    ELSE IF kind = "Bad" /\ Command[row.owner] \in Transactions
    THEN "Corrupted" ELSE "Completed"

\* classify() and Entry::accept.
StepOf(row, kind) ==
    IF kind = "Pending" THEN "Continuing"
    ELSE IF Command[row.owner] \notin Transactions THEN "Completed"
    ELSE CASE kind = "Part" -> "Continuing"
           [] kind = "Bad"  -> "Corrupted"
           [] OTHER         -> "Completed"

\* What the message gives whoever waits on the row.
Telltale(f, row) ==
    CASE StepOf(row, f.kind) = "Continuing" -> [c \in {} |-> ReplyTo(f.of)]
      [] StepOf(row, f.kind) = "Completed"  -> Telling(row, ReplyTo(f.of))
      [] StepOf(row, f.kind) = "Corrupted"  -> Telling(row, Ended("corrupt"))

\* A complete response is the last the server sends on that id.  One that is
\* malformed says nothing about whether the server is still sending.
Settles(f) == f.kind \in {"Whole", "Deleted", "Last"}

OwedAfter(f) == IF Settles(f) THEN owed \ {<<f.mid, f.of>>} ELSE owed

\* route(), the message reaching a row that is still a request, and leaving
\* the connection up.
Routed(f) ==
    /\ pc = "parked" /\ ~Unroutable(f) /\ f.kind # "Deleted"
    /\ table[f.mid].state # "Retired"
    /\ ~(StepOf(table[f.mid], f.kind) = "Corrupted" /\ BudgetSpent(1))
    /\ Accept(f.mid, StepOf(table[f.mid], f.kind))
    /\ Conclude(Telltale(f, table[f.mid]), {})
    /\ silentFor' = 0
    /\ NoteWaiting
    /\ owed' = OwedAfter(f)
    /\ Continue
    /\ UNCHANGED <<requestsDone, closesDone, consecutiveCloses, writing,
                   channelVars>>

\* route(), a frame on a retired id: logged and discarded, and an answer all
\* the same as far as the silence window goes.
Discarded(f) ==
    /\ pc = "parked" /\ ~Unroutable(f) /\ f.kind # "Deleted"
    /\ table[f.mid].state = "Retired"
    /\ UNCHANGED tableVars
    /\ silentFor' = 0
    /\ NoteWaiting
    /\ owed' = OwedAfter(f)
    /\ Continue
    /\ UNCHANGED <<requestsDone, closesDone, consecutiveCloses, writing,
                   channelVars, callerVars>>

\* route(), the message delivered first and the connection failed after it:
\* the retirement budget is spent, or the session was deleted.
RoutedLast(f) ==
    /\ pc = "parked" /\ ~Unroutable(f)
    /\ LET row == table[f.mid]
           corrupts == row.state # "Retired" /\ StepOf(row, f.kind) = "Corrupted"
       IN  /\ f.kind = "Deleted" \/ (corrupts /\ BudgetSpent(1))
           /\ Fail(IF row.state = "Retired" THEN [c \in {} |-> ReplyTo(f.of)]
                   ELSE Telltale(f, row))
           /\ retired' = IF corrupts THEN retired + 1 ELSE retired
    /\ UNCHANGED <<cursor, consecutiveCloses>>

UnroutableArrives ==
    /\ pc = "parked" /\ \E f \in Frames : Unroutable(f)
    /\ FailNow

\* The peer closed, a frame that does not decode, a chained response.
InboundFails == pc = "parked" /\ FailNow

\* Part of a frame, or a keep-alive: the loop turns and nothing else.
InboundNothing ==
    /\ pc = "parked"
    /\ Continue
    /\ UNCHANGED <<tableVars, requestsDone, closesDone, consecutiveCloses,
                   writing, silentFor, waiting, channelVars, callerVars, owed>>

-----------------------------------------------------------------------------
(* Events: the timer.                                                      *)

Silent == waiting /\ silentFor >= Overall

\* tick(): the silence rule comes before the deadlines.
GoesSilent == pc = "parked" /\ Silent /\ FailNow

TimedOut == [c \in {table[m].owner : m \in Lapsing} |-> Ended("timeout")]

Ticks ==
    /\ pc = "parked" /\ Due # {} /\ ~Silent
    /\ ~BudgetSpent(Cardinality(GivenUp))
    /\ Expire
    /\ Conclude(TimedOut, {})
    /\ NoteWaiting
    /\ Continue
    /\ UNCHANGED <<requestsDone, closesDone, consecutiveCloses, writing,
                   silentFor, channelVars, owed>>

\* expire() stops at the retirement that spends the budget: the rows it had
\* not reached are failed with the connection.
TicksLast ==
    /\ pc = "parked" /\ Due # {} /\ ~Silent
    /\ BudgetSpent(Cardinality(GivenUp))
    /\ \E reached \in SUBSET Lapsing :
         Fail([c \in {table[m].owner : m \in reached} |-> Ended("timeout")])
    /\ retired' = RetirementBudget
    /\ UNCHANGED <<cursor, consecutiveCloses>>

\* The clock.
TimePasses ==
    /\ pc # "ended"
    /\ Elapse
    /\ silentFor' = IF waiting THEN Earlier(silentFor + 1, Overall)
                    ELSE silentFor
    /\ UNCHANGED <<pc, armed, requestsDone, closesDone, consecutiveCloses,
                   writing, waiting, channelVars, callerVars, owed>>

\* The task is over and nobody is left inside request().
Terminated ==
    /\ pc = "ended"
    /\ \A r \in Requests : caller[r] \notin {"sending", "waiting"}
    /\ UNCHANGED vars

-----------------------------------------------------------------------------
Callers == \/ \E r \in Requests : Call(r) \/ Send(r) \/ SendFails(r) \/ Leave(r)
           \/ \E c \in Closes : EnqueueClose(c)
           \/ DropHandles

Inbound == \/ \E f \in Frames : Routed(f) \/ Discarded(f) \/ RoutedLast(f)
           \/ UnroutableArrives \/ InboundFails \/ InboundNothing

Timer == GoesSilent \/ Ticks \/ TicksLast

Written == Wrote(FALSE) \/ Wrote(TRUE) \/ WriteFails

Next == \/ Callers
        \/ Arm \/ Finish
        \/ CloseTaken \/ RequestTaken \/ ClosesEnd \/ RequestsEnd
        \/ Written \/ Inbound \/ Timer
        \/ TimePasses
        \/ Terminated

Spec == Init /\ [][Next]_vars

-----------------------------------------------------------------------------
(* Fairness.  select! starts polling at a random source, so a source that   *)
(* is ready again and again is taken again and again (strong fairness); the *)
(* runtime polls a woken task (weak fairness on the top of the loop); time  *)
(* passes; a channel serves the senders waiting on it.  Nothing is assumed  *)
(* of the server, which may never answer.                                   *)

ActorFairness ==
    /\ WF_vars(Arm \/ Finish)
    /\ SF_vars(CloseTaken) /\ SF_vars(RequestTaken)
    /\ SF_vars(ClosesEnd) /\ SF_vars(RequestsEnd)
    /\ SF_vars(Timer)
    /\ WF_vars(TimePasses)
    /\ \A r \in Requests : WF_vars(Send(r)) /\ WF_vars(SendFails(r))

\* The peer goes on reading its socket, so a write is not blocked for ever.
PeerReads == SF_vars(Wrote(TRUE))

FairSpec == Spec /\ ActorFairness /\ PeerReads

-----------------------------------------------------------------------------
(* Properties. *)

\* The type of every variable.
TypeOK ==
    /\ TableTypeOK
    /\ pc \in {"top", "parked", "ended"}
    /\ armed \in [close : BOOLEAN, request : BOOLEAN]
    /\ requestsDone \in BOOLEAN
    /\ closesDone \in BOOLEAN
    /\ consecutiveCloses \in Nat
    /\ writing \in [call : Calls \cup {Nobody}, mid : Mids, begun : BOOLEAN]
    /\ silentFor \in 0 .. Overall
    /\ waiting \in BOOLEAN
    /\ requests \in Seq(Requests)
    /\ closes \in Seq(Closes)
    /\ dropped \in SUBSET Closes
    /\ handlesHeld \in BOOLEAN
    /\ caller \in [Requests -> {"idle", "sending", "waiting", "gone", "ended"}]
    /\ result \in [Requests -> Outcome]
    /\ hooks \in [Requests -> Seq(Outcome)]
    /\ owed \in SUBSET (Mids \X Calls)

\* Invariant 3 of connection/mod.rs:22: the requests charging capacity never
\* exceed the admission limit, whatever the callers, the closes and the clock
\* do between the actor's reading of the count and the first byte going out.
Capacity == Cardinality(OnWire) <= Limit

\* The silence window runs exactly while a request charges capacity
\* (actor.rs:205): a lapsed request does not hold it open, a late frame on a
\* dead id does not start it, and a charging request never goes unwatched.
SilenceWindow == waiting <=> OnWire # {}

\* What identity is for (table.rs:109): an id the server may still answer on
\* is held, by the very request it would be answering, through the lapse of
\* that request and past its retirement.
IdsHeld == ~Rogue => \A e \in owed : /\ table[e[1]].state # "Free"
                                     /\ table[e[1]].owner = e[2]

\* No crosstalk: against a server that answers only what it was asked, a
\* caller, or the hook that outlives it, is only ever given the reply to its
\* own request, however late replies are and however often ids are reused.
NoCrosstalk ==
    ~Rogue => \A r \in Requests :
                /\ result[r].kind = "reply" => result[r].of = r
                /\ \A i \in 1 .. Len(hooks[r]) :
                     hooks[r][i].kind = "reply" => hooks[r][i].of = r

\* Where a request may be that has not ended: in the channel,
Queued(r) == \E i \in 1 .. Len(requests) : requests[i] = r

\* in the write slot with none of its bytes gone out,
InSlot(r) == writing # Idle /\ ~writing.begun /\ writing.call = r

\* or on the wire, with a row of its own.
OnTable(r) == \E m \in OnWire : table[m].owner = r

Pending(r) == Queued(r) \/ InSlot(r) \/ OnTable(r)

\* mod.rs:179: the hook is applied exactly once, whichever way the request ends and
\* whether or not anybody waits: not while the request may still end otherwise, and
\* in the very step that ends it, and what it is told is what the caller is told.
\* The one request without is the one the actor's end finds without a row, in the
\* channel or behind a write that has not begun: its hook is dropped.
HooksAgree ==
    [][\A r \in Hooked :
         /\ Len(hooks'[r]) <= 1
         /\ Pending(r)' => hooks'[r] = <<>>
         /\ Pending(r) /\ ~Pending(r)' =>
              hooks'[r] # <<>> \/ (pc' = "ended" /\ ~OnTable(r))
         /\ result'[r].kind \notin {"none", "lost", "unsent"} => hooks'[r] # <<>>
         /\ result'[r].kind # "none" /\ hooks'[r] # <<>> => hooks'[r][1] = result'[r]]_vars

\* mod.rs:518, the wait of request() is bounded: a caller that goes on waiting
\* is answered or failed in the end, though the server answer nothing, or
\* dribble interim and partial messages for ever.
CallersReturn ==
    \A r \in Requests :
      caller[r] \in {"sending", "waiting"} ~> caller[r] \in {"gone", "ended"}

\* actor.rs:293: once every handle has gone the queued closes drain and the
\* task ends; no lapsed or retired row keeps the socket open.
TaskEnds == ~handlesHeld ~> pc = "ended"
=============================================================================
