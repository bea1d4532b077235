------------------------------- MODULE Client -------------------------------
(***************************************************************************)
(* The cache of a Client (src/src/client.rs) for one dial address and one  *)
(* share: the slot, the single-flight dial, the probe, the sweeper, and    *)
(* the two ways a connection is said goodbye to.  The trees on a           *)
(* connection (src/src/tree.rs) are here for who holds them.               *)
(*                                                                         *)
(* Keys share nothing but the lock.  Shares of one connection meet in its  *)
(* handles and tree ids, which two trees of one share already contend for: *)
(* one the server discarded and the one connected after it.  What the lock *)
(* covers is one action; callers, the dial task, the sweeper and close()   *)
(* interleave between them.                                                *)
(*                                                                         *)
(* Rust's reference counts are read off the state: every action ends in    *)
(* Drops, which finds what the step let go of last and runs its Drop.  An  *)
(* id of a connection or of a tree is used again once nothing refers to it.*)
(***************************************************************************)
EXTENDS Integers, FiniteSets

CONSTANTS
    Callers,     \* tasks that use the client
    Conns,       \* bound: connections there may be at once
    Trees,       \* bound: tree connections there may be at once
    ProbeAfter,  \* PROBE_AFTER_DEADLINES
    EvictAfter   \* EVICT_AFTER_DEADLINES

ASSUME ClientAssumption ==
    /\ Conns \subseteq Nat \ {0}
    /\ Trees \subseteq Nat \ {0} /\ IsFiniteSet(Trees)
    /\ ProbeAfter \in Nat \ {0}
    /\ EvictAfter \in Nat
    /\ ProbeAfter < EvictAfter

VARIABLES
    client,   \* "open", "closed", "dropped" with tasks still running, "gone"
    slot,     \* what the cache holds: nothing, a dial, or a connection
    idle,     \* deadlines since the connection in the slot was last handed out
    conn,     \* the connections, each with the trees of its cache entry
    tree,     \* the tree connections
    caller,   \* where each task is, with the entry and the tree it holds
    goodbye   \* the two tasks that may be inside goodbye()

vars == <<client, slot, idle, conn, tree, caller, goodbye>>

None == 0

Empty == [kind |-> "absent", conn |-> None]
Dialing(c) == [kind |-> "dialing", conn |-> c]
Ready(c) == [kind |-> "ready", conn |-> c]

Resting == [pc |-> "idle", conn |-> None, tree |-> None]
Silent == [pc |-> "idle", conn |-> None]

\* phase: "dialing", then "publishing" (the dial task has cached it and not told
\* the waiters) and "up", or "failed".  alive: its actor runs.  released and
\* cached: the two of those names in Cached.  logoffs: history.
FreeConn == [phase |-> "none", alive |-> FALSE, released |-> FALSE,
             cached |-> None, logoffs |-> 0]

\* gone: the server has discarded it.  disconnected: the client was told so.
FreeTree == [open |-> FALSE, conn |-> None, tid |-> None,
             gone |-> FALSE, disconnected |-> FALSE]

Init ==
    /\ client = "open" /\ slot = Empty /\ idle = 0
    /\ conn = [c \in Conns |-> FreeConn]
    /\ tree = [t \in Trees |-> FreeTree]
    /\ caller = [k \in Callers |-> Resting]
    /\ goodbye = [p \in {"sweeper", "close"} |-> Silent]

-----------------------------------------------------------------------------
(* Who holds what. *)

\* The pcs at which a task has an Arc<Cached> of its own.
Inside == {"probing", "ended", "acquired", "connecting", "listing"}

Waiting(c) == \E k \in Callers : caller[k].pc = "waiting" /\ caller[k].conn = c

\* The cache, a caller or a goodbye holds the entry.
Referred(c) ==
    \/ slot = Ready(c)
    \/ \E k \in Callers : caller[k].pc \in Inside /\ caller[k].conn = c
    \/ \E p \in DOMAIN goodbye : goodbye[p].conn = c

\* Anything holds the entry, its dial task and the outcome of the dial included.
Live(c) == \/ Referred(c) \/ conn[c].phase = "publishing"
           \/ conn[c].phase = "up" /\ Waiting(c)

\* A caller holds the tree.
Owned(t) == \E k \in Callers : caller[k].tree = t

\* Connection::handles less the cache entry's own: the trees, and the session
\* that a Tree::connect in flight has cloned.
OtherHandles(c) ==
    \/ \E t \in Trees : tree[t].open /\ tree[t].conn = c
    \/ \E k \in Callers : caller[k].conn = c /\ caller[k].pc = "connecting"

\* Drop for Cached and for TreeInner, where the step lets go of the last holder:
\* the trees disconnect first, and the entry logs off if no goodbye was said and
\* nothing else holds the connection.  A TREE_DISCONNECT ends whatever tree has
\* its id at the server.  conns and trees are the two tables as the step itself
\* leaves them.
Drops(conns, trees) ==
    LET referred == {c \in Conns : Referred(c)'}
        awaited == {c \in Conns : Waiting(c)'}
        owned == {t \in Trees : Owned(t)'}
        held == {c \in Conns : \/ c \in referred \/ conns[c].phase = "publishing"
                               \/ conns[c].phase = "up" /\ c \in awaited}
        open == {t \in Trees : trees[t].open}
        lost == {t \in open \ owned : ~ \E c \in held : conns[c].cached = t}
        struck == {u \in open : /\ ~trees[u].gone
                                /\ \E t \in lost : /\ trees[t].conn = trees[u].conn
                                                   /\ trees[t].tid = trees[u].tid
                                                   /\ conns[trees[t].conn].alive}
        on(c) == {t \in open \ lost : trees[t].conn = c}
        logsOff(c) == /\ Live(c) /\ c \notin held /\ on(c) = {}
                      /\ conns[c].alive /\ ~conns[c].released
        unused(c) == /\ c \notin held \cup awaited /\ on(c) = {}
                     /\ conns[c].phase # "dialing"
        logoffs(c) == conns[c].logoffs + IF logsOff(c) THEN 1 ELSE 0
    IN  /\ conn' = [c \in Conns |->
                      IF unused(c) /\ logoffs(c) <= 1 THEN FreeConn
                      ELSE [conns[c] EXCEPT !.logoffs = logoffs(c)]]
        /\ tree' = [t \in Trees |->
                      IF t \in lost THEN FreeTree
                      ELSE IF t \in struck THEN [trees[t] EXCEPT !.gone = TRUE]
                      ELSE trees[t]]

\* The step leaves the two tables alone, and lets go of nothing.
TablesStay == UNCHANGED <<conn, tree>>

-----------------------------------------------------------------------------
(* acquire(). *)

Becomes(k, pc, c) == caller' = [caller EXCEPT ![k] =
                                  [pc |-> pc, conn |-> c, tree |-> None]]

\* A call of tree() or list_shares(), or another turn of the loop of acquire().
Asks(k) == \/ client = "open" /\ caller[k].pc = "idle"
           \/ caller[k].pc = "look"

\* A mutant of Taken: the entry is not marked used.
TakenUnmarked == idle

\* take_idle, under the cache's lock: the entry is marked used as it is read.
Taken == 0

\* slot() finds a connection: one whose actor has ended is no use, one idle for
\* long enough is probed.
Meet(k) ==
    /\ Asks(k) /\ slot.kind = "ready"
    /\ idle' = Taken
    /\ Becomes(k, IF ~conn[slot.conn].alive THEN "ended"
                  ELSE IF idle >= ProbeAfter THEN "probing" ELSE "acquired",
               slot.conn)
    /\ TablesStay /\ UNCHANGED <<client, slot, goodbye>>

\* slot() finds a dial in flight.
Join(k) ==
    /\ Asks(k) /\ slot.kind = "dialing"
    /\ Becomes(k, "waiting", slot.conn)
    /\ TablesStay /\ UNCHANGED <<client, slot, idle, goodbye>>

\* A mutant of Cold: only a connection keeps a task from dialling.
ColdUnlessReady == slot.kind # "ready"

\* slot() finds nothing.
Cold == slot.kind = "absent"

\* The dial becomes the entry, and its task is spawned.
StartDial(k, c) ==
    /\ Asks(k) /\ Cold
    /\ conn[c].phase = "none" /\ \A d \in Conns : conn[d].phase = "none" => c <= d
    /\ slot' = Dialing(c)
    /\ Becomes(k, "waiting", c)
    /\ conn' = [conn EXCEPT ![c] = [FreeConn EXCEPT !.phase = "dialing"]]
    /\ UNCHANGED <<client, idle, tree, goodbye>>

ProbeAnswered(k) ==
    /\ caller[k].pc = "probing" /\ conn[caller[k].conn].alive
    /\ Becomes(k, "acquired", caller[k].conn)
    /\ TablesStay /\ UNCHANGED <<client, slot, idle, goodbye>>

ProbeFails(k) ==
    /\ caller[k].pc = "probing"
    /\ Becomes(k, "ended", caller[k].conn)
    /\ TablesStay /\ UNCHANGED <<client, slot, idle, goodbye>>

\* A mutant of Forgotten: whatever connection the slot holds goes.
ForgottenAny(c) == IF slot.kind = "ready" THEN Empty ELSE slot

\* forget(): the slot is emptied where it still holds this entry.
Forgotten(c) == IF slot = Ready(c) THEN Empty ELSE slot

Forget(k) ==
    /\ caller[k].pc = "ended"
    /\ slot' = Forgotten(caller[k].conn)
    /\ idle' = IF slot' = slot THEN idle ELSE 0
    /\ Becomes(k, "look", None)
    /\ UNCHANGED <<client, goodbye>>
    /\ Drops(conn, tree)

\* A mutant of Told: a dial that failed tells nobody.
ToldOfSuccess == {"up"}

\* Dial::finish: the phases in which a dial has told how it went.
Told == {"up", "failed"}

\* Dial::wait.
Waited(k) ==
    /\ caller[k].pc = "waiting" /\ conn[caller[k].conn].phase \in Told
    /\ IF conn[caller[k].conn].phase = "up"
       THEN Becomes(k, "acquired", caller[k].conn) ELSE Becomes(k, "idle", None)
    /\ UNCHANGED <<client, slot, idle, goodbye>>
    /\ Drops(conn, tree)

\* The task drops the future it waits in.  A dial goes on without it.
GivesUp(k) ==
    /\ caller[k].pc \in {"waiting", "probing"}
    /\ Becomes(k, "idle", None)
    /\ UNCHANGED <<client, slot, idle, goodbye>>
    /\ Drops(conn, tree)

-----------------------------------------------------------------------------
(* The dial task. *)

SlotAfterDial(c) == IF client = "closed" THEN slot ELSE Ready(c)

Dialled(c) ==
    /\ conn[c].phase = "dialing"
    /\ conn' = [conn EXCEPT ![c].phase = "publishing", ![c].alive = TRUE]
    /\ slot' = SlotAfterDial(c)
    /\ idle' = 0
    /\ UNCHANGED <<client, tree, caller, goodbye>>

\* Dial::finish, once the lock is let go.
Published(c) ==
    /\ conn[c].phase = "publishing"
    /\ UNCHANGED <<client, slot, idle, caller, goodbye>>
    /\ Drops([conn EXCEPT ![c].phase = "up"], tree)

\* A dial that failed is not cached.
Uncached(c) == IF slot = Dialing(c) THEN Empty ELSE slot

DialFails(c) ==
    /\ conn[c].phase = "dialing"
    /\ slot' = Uncached(c)
    /\ UNCHANGED <<client, idle, caller, goodbye>>
    /\ Drops([conn EXCEPT ![c].phase = "failed"], tree)

-----------------------------------------------------------------------------
(* tree_on(), and what tree() and list_shares() do with the tree. *)

\* tree() returns the tree and lets go of the entry; list_shares() keeps both.
HandOut(k, t) ==
    \/ caller' = [caller EXCEPT ![k] = [pc |-> "has", conn |-> None, tree |-> t]]
    \/ caller' = [caller EXCEPT ![k].pc = "listing", ![k].tree = t]

\* Cached::tree, of the entry of c: a tree not known to be discarded.
Healthy(c) == conn[c].cached # None /\ ~tree[conn[c].cached].disconnected

FindsTree(k) ==
    /\ caller[k].pc = "acquired" /\ Healthy(caller[k].conn)
    /\ HandOut(k, conn[caller[k].conn].cached)
    /\ UNCHANGED <<client, slot, idle, goodbye>>
    /\ Drops(conn, tree)

\* A tree the server discarded is dropped, and a fresh one connected.
FindsNoTree(k) ==
    /\ caller[k].pc = "acquired" /\ ~Healthy(caller[k].conn)
    /\ Becomes(k, "connecting", caller[k].conn)
    /\ UNCHANGED <<client, slot, idle, goodbye>>
    /\ Drops([conn EXCEPT ![caller[k].conn].cached = None], tree)

\* The id the server gives a new tree: the first that none of its own has.
TakenTids(c) == {tree[t].tid : t \in {u \in Trees : /\ tree[u].open
                                                    /\ tree[u].conn = c
                                                    /\ ~tree[u].gone}}

NewTid(c) == CHOOSE tid \in Trees \ TakenTids(c) :
               \A other \in Trees \ TakenTids(c) : tid <= other

\* Tree::connect and then Cached::remember: the tree that arrived meanwhile is
\* taken and this one dropped, unless the server has discarded that one.
Connected(k, t) ==
    LET c == caller[k].conn
        kept == IF Healthy(c) THEN conn[c].cached ELSE t
    IN  /\ caller[k].pc = "connecting" /\ conn[c].alive
        /\ ~tree[t].open /\ \A u \in Trees : ~tree[u].open => t <= u
        /\ HandOut(k, kept)
        /\ UNCHANGED <<client, slot, idle, goodbye>>
        /\ Drops([conn EXCEPT ![c].cached = kept],
                 [tree EXCEPT ![t] = [FreeTree EXCEPT !.open = TRUE, !.conn = c,
                                                      !.tid = NewTid(c)]])

ConnectFails(k) ==
    /\ caller[k].pc = "connecting"
    /\ Becomes(k, "idle", None)
    /\ UNCHANGED <<client, slot, idle, goodbye>>
    /\ Drops(conn, tree)

\* TreeInner::refused: a request on the tree meets STATUS_NETWORK_NAME_DELETED.
Learns(k) ==
    /\ caller[k].pc = "has" /\ tree[caller[k].tree].gone
    /\ ~tree[caller[k].tree].disconnected
    /\ tree' = [tree EXCEPT ![caller[k].tree].disconnected = TRUE]
    /\ UNCHANGED <<client, slot, idle, conn, caller, goodbye>>

\* The caller drops the tree, or closes it: either disconnects it if nobody else
\* holds it.
LetsGo(k) ==
    /\ caller[k].pc = "has"
    /\ Becomes(k, "idle", None)
    /\ UNCHANGED <<client, slot, idle, goodbye>>
    /\ Drops(conn, tree)

\* The end of list_shares(), which drops the cache's tree if it met the status.
Listed(k) ==
    LET c == caller[k].conn
    IN  /\ caller[k].pc = "listing"
        /\ Becomes(k, "idle", None)
        /\ UNCHANGED <<client, slot, idle, goodbye>>
        /\ \E met \in {FALSE, tree[caller[k].tree].gone} :
             Drops([conn EXCEPT ![c].cached = IF met THEN None ELSE @], tree)

-----------------------------------------------------------------------------
(* goodbye(), from the sweeper or from close(). *)

\* A mutant of Due: the window is one deadline longer than the clock tells apart.
DueNever == idle > EvictAfter

\* The sweeper's threshold.
Due == idle >= EvictAfter

\* Whoever takes the slot's connection out of the cache to say goodbye to it.
Evicted(p) == [goodbye EXCEPT ![p] = [pc |-> "start", conn |-> slot.conn]]

\* A dial task holds the client's state, whoever has dropped the client.
DialRuns == \E c \in Conns : conn[c].phase \in {"dialing", "publishing"}

Sweeps ==
    /\ client = "open" \/ (client = "dropped" /\ DialRuns)
    /\ goodbye["sweeper"].pc = "idle"
    /\ slot.kind = "ready" /\ Due
    /\ slot' = Empty /\ idle' = 0
    /\ goodbye' = Evicted("sweeper")
    /\ TablesStay /\ UNCHANGED <<client, caller>>

\* A mutant of Marked: the goodbye is not recorded.
MarkedNever == FALSE

\* What goodbye() stores in released.
Marked == TRUE

\* The trees are drained and closed.  Tree::close disconnects a tree held nowhere
\* else, and otherwise only lets go.
Drained(p) ==
    LET c == goodbye[p].conn
    IN  /\ goodbye[p].pc = "start"
        /\ goodbye' = [goodbye EXCEPT ![p].pc = "checking"]
        /\ UNCHANGED <<client, slot, idle, caller>>
        /\ Drops([conn EXCEPT ![c].released = Marked, ![c].cached = None], tree)

MayLogoff(c) == ~OtherHandles(c)

LogsOff(p) ==
    LET c == goodbye[p].conn
    IN  /\ goodbye[p].pc = "checking" /\ MayLogoff(c)
        /\ goodbye' = [goodbye EXCEPT ![p].pc = "loggingOff"]
        /\ conn' = [conn EXCEPT ![c].logoffs = IF conn[c].alive THEN @ + 1 ELSE @]
        /\ UNCHANGED <<client, slot, idle, tree, caller>>

\* The logoff was answered or failed, or a handle still holds the connection.
GoodbyeOver(p) ==
    /\ \/ goodbye[p].pc = "loggingOff"
       \/ goodbye[p].pc = "checking" /\ ~MayLogoff(goodbye[p].conn)
    /\ goodbye' = [goodbye EXCEPT ![p] = Silent]
    /\ UNCHANGED <<client, slot, idle, caller>>
    /\ Drops(conn, tree)

\* No call is in progress: each borrows the client.
Unborrowed == \A k \in Callers : caller[k].pc \in {"idle", "has"}

\* Client::close: the cache is emptied, whatever it holds.
Close ==
    /\ client = "open" /\ Unborrowed
    /\ client' = "closed"
    /\ slot' = Empty /\ idle' = 0
    /\ goodbye' = IF slot.kind = "ready" THEN Evicted("close") ELSE goodbye
    /\ TablesStay /\ UNCHANGED caller

\* The sweeper, aborted by close(), stops where it awaits an answer.
SweeperAborted ==
    /\ client = "closed" /\ goodbye["sweeper"].pc \in {"checking", "loggingOff"}
    /\ goodbye' = [goodbye EXCEPT !["sweeper"] = Silent]
    /\ UNCHANGED <<client, slot, idle, caller>>
    /\ Drops(conn, tree)

DropClient ==
    /\ client = "open" /\ Unborrowed
    /\ client' = "dropped"
    /\ TablesStay /\ UNCHANGED <<slot, idle, caller, goodbye>>

\* The client's own state goes once no dial task and no sweep holds it.
InnerDrops ==
    /\ client = "dropped" /\ goodbye["sweeper"].pc = "idle"
    /\ ~DialRuns
    /\ client' = "gone"
    /\ slot' = Empty /\ idle' = 0
    /\ UNCHANGED <<caller, goodbye>>
    /\ Drops(conn, tree)

-----------------------------------------------------------------------------
(* The server, and time. *)

\* The actor ends: the socket failed, the session was deleted, it went silent.
\* What the server had on the connection goes with it, the ids of its trees too.
Dies(c) ==
    /\ conn[c].alive
    /\ conn' = [conn EXCEPT ![c].alive = FALSE]
    /\ tree' = [t \in Trees |-> IF tree[t].conn # c THEN tree[t] ELSE
                               [tree[t] EXCEPT !.tid = None, !.gone = FALSE]]
    /\ UNCHANGED <<client, slot, idle, caller, goodbye>>

Discards(t) ==
    /\ tree[t].open /\ ~tree[t].gone /\ conn[tree[t].conn].alive
    /\ tree' = [tree EXCEPT ![t].gone = TRUE]
    /\ UNCHANGED <<client, slot, idle, conn, caller, goodbye>>

\* A task that has been given the entry has let go of it, or got as far as
\* Tree::connect, well inside the eviction window: a probe is over within one
\* deadline.
Prompt(c) ==
    \A k \in Callers :
      caller[k].conn = c /\ caller[k].pc # "connecting" => idle + 1 < EvictAfter

\* An overall deadline goes by.
TimePasses ==
    /\ slot.kind = "ready" /\ idle < EvictAfter /\ Prompt(slot.conn)
    /\ idle' = idle + 1
    /\ TablesStay /\ UNCHANGED <<client, slot, caller, goodbye>>

Over ==
    /\ client \in {"closed", "gone"}
    /\ \A k \in Callers : caller[k] = Resting
    /\ \A p \in DOMAIN goodbye : goodbye[p] = Silent
    /\ UNCHANGED vars

-----------------------------------------------------------------------------
Acquire(k) == \/ Meet(k) \/ Join(k) \/ \E c \in Conns : StartDial(k, c)
              \/ ProbeAnswered(k) \/ ProbeFails(k) \/ Forget(k)
              \/ Waited(k) \/ GivesUp(k)

TreeOn(k) == \/ FindsTree(k) \/ FindsNoTree(k) \/ ConnectFails(k)
             \/ \E t \in Trees : Connected(k, t)

Uses(k) == Learns(k) \/ LetsGo(k) \/ Listed(k)

DialTask(c) == Dialled(c) \/ Published(c) \/ DialFails(c)

Teardown(p) == Drained(p) \/ LogsOff(p) \/ GoodbyeOver(p)

Next ==
    \/ \E k \in Callers : Acquire(k) \/ TreeOn(k) \/ Uses(k)
    \/ \E c \in Conns : DialTask(c)
    \/ \E p \in DOMAIN goodbye : Teardown(p)
    \/ Sweeps \/ Close \/ SweeperAborted \/ DropClient \/ InnerDrops
    \/ \E c \in Conns : Dies(c)
    \/ \E t \in Trees : Discards(t)
    \/ TimePasses
    \/ Over

Spec == Init /\ [][Next]_vars

\* The runtime polls a dial, the sweeper and a goodbye; a dial ends within the
\* connect timeout and a request within its deadline; time passes.
FairSpec ==
    /\ Spec
    /\ \A c \in Conns : WF_vars(DialTask(c))
    /\ \A p \in {"sweeper", "close"} : WF_vars(Teardown(p))
    /\ WF_vars(Sweeps) /\ WF_vars(InnerDrops) /\ WF_vars(TimePasses)
    /\ \A k \in Callers : WF_vars(Waited(k))

-----------------------------------------------------------------------------
(* Properties. *)

\* The type of every variable, and the slot holds what it says it holds.
TypeOK ==
    /\ client \in {"open", "closed", "dropped", "gone"}
    /\ slot \in {Empty} \cup {Dialing(c) : c \in Conns} \cup {Ready(c) : c \in Conns}
    /\ idle \in 0 .. EvictAfter
    /\ conn \in [Conns -> [phase : {"none", "dialing", "publishing", "up", "failed"},
                           alive : BOOLEAN, released : BOOLEAN,
                           cached : Trees \cup {None}, logoffs : Nat]]
    /\ tree \in [Trees -> [open : BOOLEAN, conn : Conns \cup {None},
                           tid : Trees \cup {None}, gone : BOOLEAN,
                           disconnected : BOOLEAN]]
    /\ caller \in [Callers -> [pc : {"idle", "look", "waiting", "has"} \cup Inside,
                               conn : Conns \cup {None},
                               tree : Trees \cup {None}]]
    /\ goodbye \in [{"sweeper", "close"} ->
                      [pc : {"idle", "start", "checking", "loggingOff"},
                       conn : Conns \cup {None}]]
    /\ slot.kind = "dialing" => conn[slot.conn].phase = "dialing"
    /\ slot.kind = "ready" => conn[slot.conn].phase \in {"publishing", "up"}

\* client.rs:596 and :255: one dial in flight at a time, and the slot says Dialing
\* exactly while it is: nobody waits on a dial that has ended, or dials beside one.
\* A closed client caches nothing, a dial in flight when it closed included.
SingleFlight ==
    /\ client \in {"closed", "gone"} => slot = Empty
    /\ Cardinality({c \in Conns : conn[c].phase = "dialing"}) <= 1
    /\ client = "open" =>
         \A c \in Conns : slot = Dialing(c) <=> conn[c].phase = "dialing"

\* client.rs:804: no LOGOFF_ANDX goes out on a connection while a caller holds a
\* tree on it, or is inside tree() and about to.
Undisturbed ==
    \A c \in Conns : conn[c].logoffs > 0 =>
      /\ \A k \in Callers : caller[k].conn # c
      /\ \A t \in Trees : ~(tree[t].open /\ tree[t].conn = c)

\* client.rs:278: an awaited teardown and the Drop behind it do not both log off.
OneGoodbye == \A c \in Conns : conn[c].logoffs <= 1

\* client.rs:690: a task that finds its own entry dead never throws away the
\* connection another task has dialled since.
ForgetsOwn ==
    [][\A k \in Callers :
         caller[k].pc = "ended" /\ caller'[k].pc = "look" /\ slot' # slot
           => slot = Ready(caller[k].conn)]_vars

\* client.rs:701: a connection nobody comes back to does not stay cached.
EvictedInTheEnd ==
    <>[](\A k \in Callers : caller[k].pc \in {"idle", "has"})
      => []<>(slot.kind # "ready")

\* client.rs:408: a task that waits on a dial is told how it went, though the
\* connection die meanwhile and another task throw its entry away.
WaitersServed ==
    \A k \in Callers : caller[k].pc = "waiting" ~> caller[k].pc # "waiting"
=============================================================================
