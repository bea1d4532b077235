---------------------------- MODULE ClientProofs ----------------------------
(***************************************************************************)
(* Theorems about the client's cache (Client.tla), for any number of tasks,*)
(* connections and trees:                                                  *)
(*                                                                         *)
(*   TypeCorrect      the types, and the slot holds what it says it holds; *)
(*   OneDial          one dial in flight, and the slot says so;            *)
(*   NobodyDisturbed  no logoff on a connection somebody has a tree on;    *)
(*   LogsOffOnce      a goodbye and the Drop behind it log off once;       *)
(*   ForgetsOnlyOwn   a dead entry's finder never drops another's entry.   *)
(*                                                                         *)
(* They follow from one inductive invariant, Sound.  The parts that carry  *)
(* the argument: an entry is in the slot or in at most one goodbye, never  *)
(* in both (Apart); a task that holds an entry somebody says goodbye to is *)
(* connecting a tree on it or listing over one, and both count as handles  *)
(* of the connection (Spared); a tree a caller holds, or a held entry      *)
(* remembers, is open and on that connection (CallerOK, CachesOK).         *)
(*                                                                         *)
(* The second part is about the handshake a dial performs (Session.tla),   *)
(* for any tokens, challenges, capabilities and timeout:                   *)
(*                                                                         *)
(*   SessionsAreEarned   a session is what the server's last word granted; *)
(*   CredentialsAreKept  the credentials reach only a server that met every*)
(*                       requirement and asked for them with a challenge   *)
(*                       that could be read.                               *)
(*                                                                         *)
(* Its invariant counts requests and replies against the leg: a leg begins *)
(* only once the reply to the one before it has passed its checks, and a   *)
(* handshake that is over has at most one reply more.                      *)
(*                                                                         *)
(* The third is about list_shares, which the client makes on a connection  *)
(* it has (Rpc.tla), for any list of shares, any caps and any file ids:    *)
(*                                                                         *)
(*   PipesAreReleased    an enumeration leaves no pipe of its own open.    *)
(*                                                                         *)
(* Its invariant says that the one pipe that is open is the one the step at*)
(* hand will close.                                                        *)
(***************************************************************************)
EXTENDS Client, Session, Rpc, CoverageProofs

-----------------------------------------------------------------------------
(* The inductive invariant, as a relation between the variables: an action  *)
(* that ends in Drops is split into what the step does to the two tables    *)
(* and what the drops then do, and the invariant is wanted of both.         *)

\* The rows of the four tables.
ConnType == [phase : {"none", "dialing", "publishing", "up", "failed"},
             alive : BOOLEAN, released : BOOLEAN,
             cached : Trees \cup {None}, logoffs : Nat]
TreeType == [open : BOOLEAN, conn : Conns \cup {None}, tid : Trees \cup {None},
             gone : BOOLEAN, disconnected : BOOLEAN]
CallerType == [pc : {"idle", "look", "waiting", "has"} \cup Inside,
               conn : Conns \cup {None}, tree : Trees \cup {None}]
GoodbyeType == [pc : {"idle", "start", "checking", "loggingOff"},
                conn : Conns \cup {None}]

\* The phases of a connection that was dialled.
There == {"publishing", "up"}

\* Only a dialled connection has anything to let go of; a logoff is counted once,
\* and only on a connection released first: the Drop of an entry counts its logoff
\* and frees the row in one step.
ConnOK(r) == /\ r.alive \/ r.released \/ r.logoffs > 0 \/ r.cached # None
                  => r.phase \in There
             /\ r.logoffs > 0 => r.released /\ r.logoffs = 1

\* A tree is on a dialled connection that nobody has logged off.
TreeOK(r, cs) == r.open => /\ r.conn \in Conns /\ cs[r.conn].phase \in There
                           /\ cs[r.conn].logoffs = 0

\* What a task holds, by where it is: an entry not logged off, a tree that is open.
CallerOK(r, cs, ts) ==
    /\ r.pc \in {"idle", "look", "has"} <=> r.conn = None
    /\ r.pc \in {"has", "listing"} <=> r.tree # None
    /\ r.conn # None => cs[r.conn].phase # "none" /\ cs[r.conn].logoffs = 0
    /\ r.pc \in Inside => cs[r.conn].phase \in There
    /\ r.tree # None => ts[r.tree].open
    /\ r.pc = "listing" => ts[r.tree].conn = r.conn

\* What a goodbye holds: the entry is marked before its logoff is considered.
GoodbyeOK(r, cs) ==
    /\ r.pc = "idle" <=> r.conn = None
    /\ r.conn # None => cs[r.conn].phase \in There
    /\ r.pc \in {"checking", "loggingOff"} => cs[r.conn].released
    /\ r.pc \in {"start", "checking"} => cs[r.conn].logoffs = 0

\* Something holds the entry of c, as Live says it, in the tables of a step.
HeldIn(c, s, cs, ks, gs) ==
    \/ s = Ready(c)
    \/ \E k \in Callers : ks[k].pc \in Inside /\ ks[k].conn = c
    \/ \E p \in {"sweeper", "close"} : gs[p].conn = c
    \/ cs[c].phase = "publishing"
    \/ cs[c].phase = "up" /\ \E k \in Callers : ks[k].pc = "waiting" /\ ks[k].conn = c

\* The tree a held entry remembers is open, and on its connection.
CachesOK(s, cs, ts, ks, gs) ==
    \A c \in Conns : HeldIn(c, s, cs, ks, gs) /\ cs[c].cached # None
      => ts[cs[c].cached].open /\ ts[cs[c].cached].conn = c

\* The slot against the phases of the connections and the life of the client.
SlotOK(cl, s, cs, ks) ==
    /\ \A c \in Conns : s = Ready(c) => cs[c].phase \in There /\ cs[c].logoffs = 0
    /\ \A c \in Conns : s = Dialing(c) => cs[c].phase = "dialing"
    /\ cl \in {"closed", "gone"} => s = Empty
    /\ cl # "closed" => \A c \in Conns : cs[c].phase = "dialing" => s = Dialing(c)
    /\ \A c, d \in Conns : cs[c].phase = "dialing" /\ cs[d].phase = "dialing" => c = d
    /\ cl # "open" => \A k \in Callers : ks[k].pc \in {"idle", "has"}

\* An entry is in the slot or in one goodbye, never in two places.
Apart(s, gs) ==
    /\ \A c \in Conns : s = Ready(c) => \A p \in {"sweeper", "close"} : gs[p].conn # c
    /\ gs["sweeper"].conn = gs["close"].conn => gs["close"].conn = None

\* A task whose entry is about to be said goodbye to counts as one of its handles.
Spared(s, i, ks, gs) ==
    \A k \in Callers : ks[k].conn # None =>
      \/ ks[k].pc \in {"connecting", "listing"}
      \/ /\ s = Ready(ks[k].conn) => i < EvictAfter
         /\ \A p \in {"sweeper", "close"} : gs[p].conn # ks[k].conn

\* The inductive invariant, of a state given by its seven parts.
Sound(cl, s, i, cs, ts, ks, gs) ==
    /\ cl \in {"open", "closed", "dropped", "gone"}
    /\ s \in {Empty} \cup {Dialing(c) : c \in Conns} \cup {Ready(c) : c \in Conns}
    /\ i \in 0 .. EvictAfter
    /\ cs \in [Conns -> ConnType] /\ ts \in [Trees -> TreeType]
    /\ ks \in [Callers -> CallerType] /\ gs \in [{"sweeper", "close"} -> GoodbyeType]
    /\ \A c \in Conns : ConnOK(cs[c])
    /\ \A t \in Trees : TreeOK(ts[t], cs)
    /\ \A k \in Callers : CallerOK(ks[k], cs, ts)
    /\ \A p \in {"sweeper", "close"} : GoodbyeOK(gs[p], cs)
    /\ CachesOK(s, cs, ts, ks, gs)
    /\ SlotOK(cl, s, cs, ks) /\ Apart(s, gs) /\ Spared(s, i, ks, gs)

\* ... and of the state of the cache.
Inv == Sound(client, slot, idle, conn, tree, caller, goodbye)
-----------------------------------------------------------------------------
(* What the drops at the end of a step do. *)

\* A connection of the table stays as the step left it, or nobody refers to it
\* and its place is free again; likewise a tree.  In particular the Drop of an
\* entry never leaves a second logoff behind.
LEMMA DropsIs ==
    ASSUME NEW conns, NEW trees, Drops(conns, trees),
           Sound(client', slot', idle', conns, trees, caller', goodbye')
    PROVE  /\ conn' \in [Conns -> ConnType] /\ tree' \in [Trees -> TreeType]
           /\ \A c \in Conns :
                \/ conn'[c] = conns[c]
                \/ /\ conn'[c] = FreeConn /\ conns[c].phase # "dialing"
                   /\ ~HeldIn(c, slot', conns, caller', goodbye')
                   /\ \A k \in Callers : caller'[k].conn # c
                   /\ \A t \in Trees : trees[t].open /\ trees[t].conn = c
                                         => ~tree'[t].open
           /\ \A t \in Trees :
                \/ /\ tree'[t] = FreeTree
                   /\ \A k \in Callers : caller'[k].tree # t
                   /\ \A c \in Conns : HeldIn(c, slot', conns, caller', goodbye')
                                         => conns[c].cached # t
                \/ /\ tree'[t] \in TreeType
                   /\ tree'[t].open = trees[t].open /\ tree'[t].conn = trees[t].conn
  <1> DEFINE referred == {c \in Conns : Referred(c)'}
             awaited == {c \in Conns : Waiting(c)'}
             owned == {t \in Trees : Owned(t)'}
             held == {c \in Conns : \/ c \in referred \/ conns[c].phase = "publishing"
                                    \/ conns[c].phase = "up" /\ c \in awaited}
             open == {t \in Trees : trees[t].open}
             left == {t \in open \ owned : ~ \E c \in held : conns[c].cached = t}
             struck == {u \in open : /\ ~trees[u].gone
                                     /\ \E t \in left : /\ trees[t].conn = trees[u].conn
                                                        /\ trees[t].tid = trees[u].tid
                                                        /\ conns[trees[t].conn].alive}
             on(c) == {t \in open \ left : trees[t].conn = c}
             logsOff(c) == /\ Live(c) /\ c \notin held /\ on(c) = {}
                           /\ conns[c].alive /\ ~conns[c].released
             unused(c) == /\ c \notin held \cup awaited /\ on(c) = {}
                          /\ conns[c].phase # "dialing"
             logoffs(c) == conns[c].logoffs + IF logsOff(c) THEN 1 ELSE 0
  <1>1. /\ conn' = [c \in Conns |-> IF unused(c) /\ logoffs(c) <= 1 THEN FreeConn
                                    ELSE [conns[c] EXCEPT !.logoffs = logoffs(c)]]
        /\ tree' = [t \in Trees |-> IF t \in left THEN FreeTree
                                    ELSE IF t \in struck
                                    THEN [trees[t] EXCEPT !.gone = TRUE] ELSE trees[t]]
    BY DEF Drops
  <1>2. /\ conns \in [Conns -> ConnType] /\ trees \in [Trees -> TreeType]
        /\ caller' \in [Callers -> CallerType]
        /\ goodbye' \in [{"sweeper", "close"} -> GoodbyeType]
        /\ \A c \in Conns : ConnOK(conns[c])
        /\ \A k \in Callers : CallerOK(caller'[k], conns, trees)
    BY DEF Sound
  <1>3. \A c \in Conns : c \in held <=> HeldIn(c, slot', conns, caller', goodbye')
    BY <1>2 DEF HeldIn, Referred, Waiting
  <1>4. \A c \in Conns : (\E k \in Callers : caller'[k].conn = c) => c \in held \cup awaited
    <2> SUFFICES ASSUME NEW c \in Conns, NEW k \in Callers, caller'[k].conn = c
                 PROVE  c \in referred \cup awaited
      OBVIOUS
    <2>1. c # None
      BY ClientAssumption DEF None
    <2>2. caller'[k].pc \in Inside \cup {"waiting"}
      BY <1>2, <2>1 DEF CallerOK, CallerType
    <2> QED
      BY <2>2 DEF Referred, Waiting
  <1> HIDE DEF held
  <1>5. ASSUME NEW c \in Conns, logsOff(c) PROVE c \notin awaited
    BY <1>2, <1>5 DEF ConnOK, There, held
  <1>6. ASSUME NEW c \in Conns, logsOff(c) PROVE unused(c) /\ logoffs(c) <= 1
    <2>1. conns[c].phase # "dialing" /\ conns[c].logoffs = 0
      BY <1>2, <1>6 DEF ConnOK, There, ConnType
    <2>2. c \notin held \cup awaited
      BY <1>5, <1>6
    <2> QED
      BY <1>6, <2>1, <2>2
  <1>7. ASSUME NEW c \in Conns
        PROVE  /\ conn'[c] \in ConnType
               /\ \/ conn'[c] = conns[c]
                  \/ conn'[c] = FreeConn /\ unused(c)
    <2>1. CASE unused(c) /\ logoffs(c) <= 1
      BY <1>1, <2>1 DEF FreeConn, ConnType
    <2>2. CASE ~(unused(c) /\ logoffs(c) <= 1)
      <3>1. ~logsOff(c)
        BY <1>6, <2>2
      <3>2. conn'[c] = [conns[c] EXCEPT !.logoffs = conns[c].logoffs + 0]
        BY <1>1, <2>2, <3>1
      <3>3. conns[c] \in ConnType /\ conns[c].logoffs + 0 = conns[c].logoffs
        BY <1>2 DEF ConnType
      <3> QED
        BY <3>2, <3>3 DEF ConnType
    <2> QED
      BY <2>1, <2>2
  <1>8. ASSUME NEW t \in Trees
        PROVE  /\ tree'[t] \in TreeType
               /\ t \in left => tree'[t] = FreeTree
               /\ t \notin left => /\ tree'[t].open = trees[t].open
                                   /\ tree'[t].conn = trees[t].conn
    <2> HIDE DEF left, struck
    <2>1. trees[t] \in TreeType
      BY <1>2
    <2>2. CASE t \in left
      BY <1>1, <2>2 DEF FreeTree, TreeType
    <2>3. CASE t \notin left
      <3>1. tree'[t] = [trees[t] EXCEPT !.gone = TRUE] \/ tree'[t] = trees[t]
        BY <1>1, <2>3
      <3> QED
        BY <2>1, <2>3, <3>1 DEF TreeType
    <2> QED
      BY <2>2, <2>3
  <1>9. conn' \in [Conns -> ConnType] /\ tree' \in [Trees -> TreeType]
    <2> HIDE DEF unused, logoffs, left, struck
    <2> QED
      BY <1>1, <1>7, <1>8
  <1>10. ASSUME NEW c \in Conns, unused(c)
         PROVE  /\ ~HeldIn(c, slot', conns, caller', goodbye')
                /\ \A k \in Callers : caller'[k].conn # c
                /\ \A t \in Trees : trees[t].open /\ trees[t].conn = c => ~tree'[t].open
    <2>1. c \notin held \cup awaited /\ on(c) = {}
      BY <1>10
    <2>2. ASSUME NEW t \in Trees, trees[t].open, trees[t].conn = c PROVE ~tree'[t].open
      <3>1. t \in left
        BY <2>1, <2>2
      <3> QED
        BY <1>8, <3>1 DEF FreeTree
    <2> QED
      BY <1>3, <1>4, <2>1, <2>2
  <1>11. ASSUME NEW t \in left
         PROVE  /\ \A k \in Callers : caller'[k].tree # t
                /\ \A c \in Conns : HeldIn(c, slot', conns, caller', goodbye')
                                      => conns[c].cached # t
    BY <1>3, <1>11 DEF Owned
  <1>12. \A c \in Conns : unused(c) => conns[c].phase # "dialing"
    OBVIOUS
  <1> HIDE DEF unused, left
  <1> QED
    BY <1>7, <1>8, <1>9, <1>10, <1>11, <1>12

\* The invariant, its parts in the order they are proved.
LEMMA SoundIntro ==
    ASSUME NEW cl, NEW s, NEW i, NEW cs, NEW ts, NEW ks, NEW gs,
           cl \in {"open", "closed", "dropped", "gone"},
           s \in {Empty} \cup {Dialing(c) : c \in Conns} \cup {Ready(c) : c \in Conns},
           i \in 0 .. EvictAfter,
           cs \in [Conns -> ConnType], ts \in [Trees -> TreeType],
           ks \in [Callers -> CallerType], gs \in [{"sweeper", "close"} -> GoodbyeType],
           \A c \in Conns : ConnOK(cs[c]),
           \A t \in Trees : TreeOK(ts[t], cs),
           \A k \in Callers : CallerOK(ks[k], cs, ts),
           \A p \in {"sweeper", "close"} : GoodbyeOK(gs[p], cs),
           CachesOK(s, cs, ts, ks, gs), SlotOK(cl, s, cs, ks), Apart(s, gs),
           Spared(s, i, ks, gs)
    PROVE  Sound(cl, s, i, cs, ts, ks, gs)
  BY DEF Sound

\* What the drops leave is sound if what the step left was.
LEMMA DropsKeeps ==
    ASSUME NEW conns, NEW trees, Drops(conns, trees),
           Sound(client', slot', idle', conns, trees, caller', goodbye')
    PROVE  Inv'
  <1> DEFINE Held(c) == HeldIn(c, slot', conns, caller', goodbye')
             Freed(c) == /\ conn'[c] = FreeConn /\ conns[c].phase # "dialing" /\ ~Held(c)
                         /\ \A k \in Callers : caller'[k].conn # c
                         /\ \A t \in Trees : trees[t].open /\ trees[t].conn = c
                                              => ~tree'[t].open
             Lost(t) == /\ tree'[t] = FreeTree
                        /\ \A k \in Callers : caller'[k].tree # t
                        /\ \A c \in Conns : Held(c) => conns[c].cached # t
  <1>1. /\ conn' \in [Conns -> ConnType] /\ tree' \in [Trees -> TreeType]
        /\ \A c \in Conns : conn'[c] = conns[c] \/ Freed(c)
        /\ \A t \in Trees : \/ Lost(t)
                             \/ /\ tree'[t].open = trees[t].open
                                /\ tree'[t].conn = trees[t].conn
    BY DropsIs
  <1>2. /\ client' \in {"open", "closed", "dropped", "gone"}
        /\ slot' \in {Empty} \cup {Dialing(c) : c \in Conns} \cup {Ready(c) : c \in Conns}
        /\ idle' \in 0 .. EvictAfter
        /\ conns \in [Conns -> ConnType] /\ trees \in [Trees -> TreeType]
        /\ caller' \in [Callers -> CallerType]
        /\ goodbye' \in [{"sweeper", "close"} -> GoodbyeType]
        /\ \A c \in Conns : ConnOK(conns[c])
        /\ \A t \in Trees : TreeOK(trees[t], conns)
        /\ \A k \in Callers : CallerOK(caller'[k], conns, trees)
        /\ \A p \in {"sweeper", "close"} : GoodbyeOK(goodbye'[p], conns)
        /\ CachesOK(slot', conns, trees, caller', goodbye')
        /\ SlotOK(client', slot', conns, caller') /\ Apart(slot', goodbye')
        /\ Spared(slot', idle', caller', goodbye')
    BY DEF Sound
  <1>3. \A c \in Conns : ConnOK(conn'[c])
    BY <1>1, <1>2 DEF ConnOK, FreeConn
  <1>4. \A t \in Trees : TreeOK(tree'[t], conn')
    <2> SUFFICES ASSUME NEW t \in Trees, tree'[t].open
                 PROVE  /\ tree'[t].conn \in Conns
                        /\ conn'[tree'[t].conn].phase \in There
                        /\ conn'[tree'[t].conn].logoffs = 0
      BY DEF TreeOK
    <2>1. trees[t].open /\ trees[t].conn = tree'[t].conn
      BY <1>1 DEF FreeTree
    <2>2. /\ tree'[t].conn \in Conns /\ conns[tree'[t].conn].phase \in There
          /\ conns[tree'[t].conn].logoffs = 0
      BY <1>2, <2>1 DEF TreeOK
    <2>3. ~Freed(tree'[t].conn)
      BY <2>1
    <2> QED
      BY <1>1, <2>2, <2>3
  <1>5. \A k \in Callers : caller'[k].conn # None => conn'[caller'[k].conn] = conns[caller'[k].conn]
    BY <1>1, <1>2 DEF CallerType
  <1>6. \A k \in Callers : caller'[k].tree # None =>
          /\ tree'[caller'[k].tree].open = trees[caller'[k].tree].open
          /\ tree'[caller'[k].tree].conn = trees[caller'[k].tree].conn
    BY <1>1, <1>2 DEF CallerType
  <1>7. \A k \in Callers : CallerOK(caller'[k], conn', tree')
    <2> SUFFICES ASSUME NEW k \in Callers PROVE CallerOK(caller'[k], conn', tree')
      OBVIOUS
    <2>1. /\ CallerOK(caller'[k], conns, trees) /\ None \notin Conns
          /\ caller'[k].pc \in Inside => caller'[k].conn # None
          /\ caller'[k].pc = "listing" => caller'[k].tree # None
      BY <1>2, ClientAssumption DEF CallerOK, Inside, None
    <2> QED
      BY <1>5, <1>6, <2>1 DEF CallerOK
  <1>8. ASSUME NEW c \in Conns, HeldIn(c, slot', conn', caller', goodbye')
        PROVE  conn'[c] = conns[c] /\ Held(c)
    <2>1. CASE conn'[c] = conns[c]
      BY <1>8, <2>1 DEF HeldIn
    <2>2. CASE Freed(c)
      BY <1>8, <2>2 DEF HeldIn, FreeConn
    <2> QED
      BY <1>1, <2>1, <2>2
  <1>9. \A p \in {"sweeper", "close"} : GoodbyeOK(goodbye'[p], conn')
    <2> SUFFICES ASSUME NEW p \in {"sweeper", "close"} PROVE GoodbyeOK(goodbye'[p], conn')
      OBVIOUS
    <2>1. goodbye'[p].conn # None =>
            goodbye'[p].conn \in Conns /\ HeldIn(goodbye'[p].conn, slot', conn', caller', goodbye')
      BY <1>2 DEF GoodbyeType, HeldIn
    <2>2. goodbye'[p].conn # None => conn'[goodbye'[p].conn] = conns[goodbye'[p].conn]
      BY <1>8, <2>1
    <2> QED
      BY <1>2, <2>2 DEF GoodbyeOK
  <1>10. CachesOK(slot', conn', tree', caller', goodbye')
    <2> SUFFICES ASSUME NEW c \in Conns, HeldIn(c, slot', conn', caller', goodbye'),
                        conn'[c].cached # None
                 PROVE  tree'[conn'[c].cached].open /\ tree'[conn'[c].cached].conn = c
      BY DEF CachesOK
    <2>1. conn'[c] = conns[c] /\ Held(c)
      BY <1>8
    <2>2. conns[c].cached \in Trees /\ ~Lost(conns[c].cached)
      BY <1>2, <2>1 DEF ConnType
    <2>3. trees[conns[c].cached].open /\ trees[conns[c].cached].conn = c
      BY <1>2, <2>1 DEF CachesOK
    <2> QED
      BY <1>1, <2>1, <2>2, <2>3
  <1>11. SlotOK(client', slot', conn', caller')
    <2>1. \A c \in Conns : conn'[c].phase = "dialing" <=> conns[c].phase = "dialing"
      BY <1>1 DEF FreeConn
    <2>2. \A c \in Conns : slot' = Ready(c) => conn'[c] = conns[c]
      BY <1>8 DEF HeldIn
    <2> QED
      BY <1>2, <2>1, <2>2 DEF SlotOK
  <1> QED
    BY <1>1, <1>2, <1>3, <1>4, <1>7, <1>9, <1>10, <1>11, SoundIntro DEF Inv

-----------------------------------------------------------------------------
(* The steps of a task. *)

\* The invariant, part by part.
LEMMA Facts ==
    ASSUME Inv
    PROVE  /\ client \in {"open", "closed", "dropped", "gone"}
           /\ slot \in {Empty} \cup {Dialing(c) : c \in Conns} \cup {Ready(c) : c \in Conns}
           /\ idle \in 0 .. EvictAfter
           /\ conn \in [Conns -> ConnType] /\ tree \in [Trees -> TreeType]
           /\ caller \in [Callers -> CallerType]
           /\ goodbye \in [{"sweeper", "close"} -> GoodbyeType]
           /\ \A c \in Conns : ConnOK(conn[c])
           /\ \A t \in Trees : TreeOK(tree[t], conn)
           /\ \A k \in Callers : CallerOK(caller[k], conn, tree)
           /\ \A p \in {"sweeper", "close"} : GoodbyeOK(goodbye[p], conn)
           /\ CachesOK(slot, conn, tree, caller, goodbye)
           /\ SlotOK(client, slot, conn, caller) /\ Apart(slot, goodbye)
           /\ Spared(slot, idle, caller, goodbye)
           /\ None \notin Conns /\ None \notin Trees
           /\ EvictAfter \in Nat \ {0} /\ ProbeAfter \in Nat \ {0}
  BY ClientAssumption DEF Inv, Sound, None

\* Shorthand for the invariant of the state before the step.
Holder(c) == HeldIn(c, slot, conn, caller, goodbye)

\* A step that moves one task, and may empty the slot of a connection and drop the
\* tree an entry remembers.
LEMMA TaskMoves ==
    ASSUME Inv, NEW k \in Callers, NEW r \in CallerType, NEW conns,
           \/ conns = conn
           \/ \E c \in Conns : conns = [conn EXCEPT ![c].cached = None],
           caller' = [caller EXCEPT ![k] = r], UNCHANGED <<client, goodbye>>,
           slot' = slot \/ (slot' = Empty /\ slot.kind = "ready"),
           idle' = idle \/ idle' = 0,
           CallerOK(r, conn, tree),
           client # "open" => r.pc \in {"idle", "has"},
           r.pc \in Inside => Holder(r.conn),
           r.pc = "waiting" => conn[r.conn].phase = "dialing",
           r.conn # None =>
             \/ r.pc \in {"connecting", "listing"}
             \/ /\ slot' = Ready(r.conn) => idle' < EvictAfter
                /\ \A p \in {"sweeper", "close"} : goodbye[p].conn # r.conn
    PROVE  Sound(client', slot', idle', conns, tree, caller', goodbye')
  <1>1. /\ caller' \in [Callers -> CallerType] /\ caller'[k] = r
        /\ \A j \in Callers : j # k => caller'[j] = caller[j]
    BY Facts
  <1>2. /\ conns \in [Conns -> ConnType]
        /\ \A c \in Conns : /\ conns[c].phase = conn[c].phase
                            /\ conns[c].alive = conn[c].alive
                            /\ conns[c].released = conn[c].released
                            /\ conns[c].logoffs = conn[c].logoffs
                            /\ conns[c].cached = conn[c].cached \/ conns[c].cached = None
    <2>1. CASE conns = conn
      BY <2>1, Facts
    <2>2. ASSUME NEW c \in Conns, conns = [conn EXCEPT ![c].cached = None]
          PROVE  /\ conns \in [Conns -> ConnType]
                 /\ \A d \in Conns :
                      /\ conns[d].phase = conn[d].phase
                      /\ conns[d].alive = conn[d].alive
                      /\ conns[d].released = conn[d].released
                      /\ conns[d].logoffs = conn[d].logoffs
                      /\ conns[d].cached = conn[d].cached \/ conns[d].cached = None
      <3>1. [conn[c] EXCEPT !.cached = None] \in ConnType /\ \A d \in Conns : conn[d] \in ConnType
        BY Facts DEF ConnType
      <3> QED
        BY <2>2, <3>1, Facts DEF ConnType
    <2> QED
      BY <2>1, <2>2
  <1>3. /\ slot' \in {Empty} \cup {Dialing(c) : c \in Conns} \cup {Ready(c) : c \in Conns}
        /\ idle' \in 0 .. EvictAfter
        /\ \A c : slot' = Ready(c) => slot = Ready(c)
        /\ \A c : slot' = Dialing(c) <=> slot = Dialing(c)
        /\ slot = Empty => slot' = Empty
    BY Facts DEF Empty, Ready, Dialing
  <1>4. \A c \in Conns : ConnOK(conns[c])
    BY <1>2, Facts DEF ConnOK
  <1>5. \A t \in Trees : TreeOK(tree[t], conns)
    BY <1>2, Facts DEF TreeOK
  <1>6. \A j \in Callers : CallerOK(caller'[j], conns, tree)
    <2> SUFFICES ASSUME NEW j \in Callers PROVE CallerOK(caller'[j], conns, tree)
      OBVIOUS
    <2>1. CallerOK(caller'[j], conn, tree) /\ caller'[j] \in CallerType
      BY <1>1, Facts
    <2>2. caller'[j].pc \in Inside => caller'[j].conn # None
      BY <2>1 DEF CallerOK, Inside
    <2> QED
      BY <1>2, <2>1, <2>2 DEF CallerOK, CallerType
  <1>7. \A p \in {"sweeper", "close"} : GoodbyeOK(goodbye'[p], conns)
    <2> SUFFICES ASSUME NEW p \in {"sweeper", "close"} PROVE GoodbyeOK(goodbye[p], conns)
      OBVIOUS
    <2>1. GoodbyeOK(goodbye[p], conn) /\ goodbye[p] \in GoodbyeType
      BY Facts
    <2> QED
      BY <1>2, <2>1 DEF GoodbyeOK, GoodbyeType
  <1>8. \A c \in Conns : HeldIn(c, slot', conns, caller', goodbye') => Holder(c)
    <2> SUFFICES ASSUME NEW c \in Conns, HeldIn(c, slot', conns, caller', goodbye')
                 PROVE  Holder(c)
      OBVIOUS
    <2>1. CASE \E j \in Callers : caller'[j].pc \in Inside /\ caller'[j].conn = c
      BY <1>1, <2>1 DEF Holder, HeldIn
    <2>2. CASE \E j \in Callers : /\ conns[c].phase = "up" /\ caller'[j].pc = "waiting"
                                  /\ caller'[j].conn = c
      BY <1>1, <1>2, <2>2 DEF Holder, HeldIn
    <2>3. CASE \/ slot' = Ready(c) \/ \E p \in {"sweeper", "close"} : goodbye[p].conn = c
               \/ conns[c].phase = "publishing"
      BY <1>2, <1>3, <2>3 DEF Holder, HeldIn
    <2> QED
      BY <2>1, <2>2, <2>3 DEF HeldIn
  <1>9. CachesOK(slot', conns, tree, caller', goodbye')
    BY <1>2, <1>8, Facts DEF CachesOK, Holder
  <1>10. SlotOK(client', slot', conns, caller')
    <2>1. /\ \A c \in Conns : slot' = Ready(c) => conns[c].phase \in There /\ conns[c].logoffs = 0
          /\ \A c \in Conns : slot' = Dialing(c) => conns[c].phase = "dialing"
          /\ client \in {"closed", "gone"} => slot' = Empty
          /\ client # "closed" => \A c \in Conns : conns[c].phase = "dialing" => slot' = Dialing(c)
          /\ \A c, d \in Conns : conns[c].phase = "dialing" /\ conns[d].phase = "dialing" => c = d
      BY <1>2, <1>3, Facts DEF SlotOK
    <2>2. client # "open" => \A j \in Callers : caller'[j].pc \in {"idle", "has"}
      BY <1>1, Facts DEF SlotOK
    <2> QED
      BY <2>1, <2>2 DEF SlotOK
  <1>11. Apart(slot', goodbye')
    BY <1>3, Facts DEF Apart
  <1>12. Spared(slot', idle', caller', goodbye')
    <2> SUFFICES ASSUME NEW j \in Callers, caller'[j].conn # None
                 PROVE  \/ caller'[j].pc \in {"connecting", "listing"}
                        \/ /\ slot' = Ready(caller'[j].conn) => idle' < EvictAfter
                           /\ \A p \in {"sweeper", "close"} : goodbye'[p].conn # caller'[j].conn
      BY DEF Spared
    <2>1. CASE j = k
      BY <1>1, <2>1
    <2>2. CASE j # k
      BY <1>1, <1>3, <2>2, Facts DEF Spared
    <2> QED
      BY <2>1, <2>2
  <1> QED
    <2>1. /\ client' \in {"open", "closed", "dropped", "gone"}
          /\ tree \in [Trees -> TreeType]
          /\ goodbye' \in [{"sweeper", "close"} -> GoodbyeType]
      BY Facts
    <2> QED
      BY <1>1, <1>2, <1>3, <1>4, <1>5, <1>6, <1>7, <1>9, <1>10, <1>11, <1>12, <2>1
         DEF Sound

\* A step after which the tables are as they were.
LEMMA Stays ==
    ASSUME Sound(client', slot', idle', conn, tree, caller', goodbye'), TablesStay
    PROVE  Inv'
  BY DEF TablesStay, Inv

\* What a task may be, by where it is.
LEMMA TaskIs ==
    ASSUME Inv, NEW k \in Callers
    PROVE  /\ caller[k] \in CallerType /\ CallerOK(caller[k], conn, tree)
           /\ caller[k].pc \in Inside =>
                /\ caller[k].conn \in Conns /\ Holder(caller[k].conn)
                /\ conn[caller[k].conn].phase \in There
                /\ conn[caller[k].conn].logoffs = 0 /\ client = "open"
           /\ caller[k].pc \in Inside \ {"connecting", "listing"} =>
                /\ slot = Ready(caller[k].conn) => idle < EvictAfter
                /\ \A p \in {"sweeper", "close"} : goodbye[p].conn # caller[k].conn
           /\ caller[k].pc = "waiting" =>
                /\ caller[k].conn \in Conns /\ client = "open"
                /\ conn[caller[k].conn].phase \in {"dialing", "publishing", "up", "failed"}
                /\ conn[caller[k].conn].logoffs = 0
                /\ conn[caller[k].conn].phase = "up" => Holder(caller[k].conn)
                /\ slot = Ready(caller[k].conn) => idle < EvictAfter
                /\ \A p \in {"sweeper", "close"} : goodbye[p].conn # caller[k].conn
           /\ caller[k].pc = "look" => client = "open"
  <1>1. /\ caller[k] \in CallerType /\ CallerOK(caller[k], conn, tree)
        /\ \A c \in Conns : conn[c] \in ConnType
    BY Facts
  <1>2. caller[k].pc \notin {"idle", "has"} => client = "open"
    BY Facts DEF SlotOK
  <1>3. caller[k].pc \in Inside \cup {"waiting"} => caller[k].conn \in Conns
    BY <1>1 DEF CallerOK, CallerType, Inside
  <1>4. caller[k].pc \in Inside => Holder(caller[k].conn)
    BY DEF Holder, HeldIn
  <1>5. caller[k].pc = "waiting" /\ conn[caller[k].conn].phase = "up" => Holder(caller[k].conn)
    BY DEF Holder, HeldIn
  <1>6. caller[k].pc \in (Inside \ {"connecting", "listing"}) \cup {"waiting"} =>
          /\ slot = Ready(caller[k].conn) => idle < EvictAfter
          /\ \A p \in {"sweeper", "close"} : goodbye[p].conn # caller[k].conn
    BY <1>3, Facts DEF Spared, Inside
  <1>7. caller[k].pc \in Inside =>
          conn[caller[k].conn].phase \in There /\ conn[caller[k].conn].logoffs = 0
    BY <1>1, <1>3, Facts DEF CallerOK
  <1>8. caller[k].pc = "waiting" =>
          /\ conn[caller[k].conn].phase \in {"dialing", "publishing", "up", "failed"}
          /\ conn[caller[k].conn].logoffs = 0
    BY <1>1, <1>3, Facts DEF CallerOK, ConnType
  <1> QED
    BY <1>1, <1>2, <1>3, <1>4, <1>5, <1>6, <1>7, <1>8 DEF Inside

\* A task with nothing of the client's in its hands.
LEMMA RestingIs ==
    ASSUME NEW pc \in {"idle", "look"}
    PROVE  LET r == [pc |-> pc, conn |-> None, tree |-> None]
           IN  /\ r \in CallerType /\ r.conn = None /\ r.pc = pc
               /\ CallerOK(r, conn, tree) /\ r.pc \notin Inside /\ r.pc # "waiting"
  BY DEF CallerType, CallerOK, Inside

\* A task goes to rest: it gave up, was told, failed, or let go.
LEMMA RestsInv ==
    ASSUME Inv, NEW k \in Callers, Becomes(k, "idle", None),
           UNCHANGED <<client, slot, idle, goodbye>>,
           NEW conns, \/ conns = conn
                      \/ \E c \in Conns : conns = [conn EXCEPT ![c].cached = None],
           Drops(conns, tree)
    PROVE  Inv'
  <1> DEFINE r == [pc |-> "idle", conn |-> None, tree |-> None]
  <1>1. /\ r \in CallerType /\ r.conn = None /\ r.pc = "idle"
        /\ CallerOK(r, conn, tree) /\ r.pc \notin Inside
    BY RestingIs
  <1>2. caller' = [caller EXCEPT ![k] = r]
    BY DEF Becomes
  <1> HIDE DEF r
  <1>3. Sound(client', slot', idle', conns, tree, caller', goodbye')
    BY <1>1, <1>2, TaskMoves
  <1> QED
    BY <1>3, DropsKeeps

\* A task at rest, or back in the loop of acquire(), that takes up an entry.
LEMMA TakesUp ==
    ASSUME Inv, NEW k \in Callers,
           NEW pc \in {"probing", "ended", "acquired", "connecting"},
           NEW c \in Conns, Becomes(k, pc, c), client = "open",
           UNCHANGED <<client, slot, goodbye>>, idle' = idle \/ idle' = 0,
           conn[c].phase \in There, conn[c].logoffs = 0, Holder(c),
           \/ pc = "connecting"
           \/ /\ slot' = Ready(c) => idle' < EvictAfter
              /\ \A p \in {"sweeper", "close"} : goodbye[p].conn # c,
           NEW conns, \/ conns = conn
                      \/ \E d \in Conns : conns = [conn EXCEPT ![d].cached = None]
    PROVE  Sound(client', slot', idle', conns, tree, caller', goodbye')
  <1> DEFINE r == [pc |-> pc, conn |-> c, tree |-> None]
  <1>1. r \in CallerType /\ r.conn = c /\ r.pc = pc /\ r.tree = None
    BY DEF CallerType, Inside
  <1>2. caller' = [caller EXCEPT ![k] = r]
    BY DEF Becomes
  <1> HIDE DEF r
  <1>3. CallerOK(r, conn, tree)
    BY <1>1, Facts DEF CallerOK, There, Inside
  <1> QED
    BY <1>1, <1>2, <1>3, TaskMoves

\* slot() finds a connection.
LEMMA MeetInv ==
    ASSUME Inv, NEW k \in Callers, Meet(k)
    PROVE  Inv'
  <1>1. PICK c \in Conns : slot = Ready(c)
    BY Facts DEF Meet, Empty, Dialing
  <1>2. slot.conn = c
    BY <1>1 DEF Ready
  <1>3. client = "open"
    BY TaskIs DEF Meet, Asks
  <1>4. PICK pc \in {"probing", "ended", "acquired"} : Becomes(k, pc, c)
    BY <1>2 DEF Meet
  <1>5. /\ conn[c].phase \in There /\ conn[c].logoffs = 0 /\ Holder(c)
        /\ \A p \in {"sweeper", "close"} : goodbye[p].conn # c
    BY <1>1, Facts DEF SlotOK, Apart, Holder, HeldIn
  <1>6. /\ idle' = 0 /\ idle' < EvictAfter /\ TablesStay
        /\ UNCHANGED <<client, slot, goodbye>>
    BY Facts DEF Meet, Taken
  <1>7. Sound(client', slot', idle', conn, tree, caller', goodbye')
    BY <1>3, <1>4, <1>5, <1>6, TakesUp
  <1> QED
    BY <1>6, <1>7, Stays

\* slot() finds a dial in flight.
LEMMA JoinInv ==
    ASSUME Inv, NEW k \in Callers, Join(k)
    PROVE  Inv'
  <1>1. PICK c \in Conns : slot = Dialing(c)
    BY Facts DEF Join, Empty, Ready
  <1> DEFINE r == [pc |-> "waiting", conn |-> c, tree |-> None]
  <1>2. /\ caller' = [caller EXCEPT ![k] = r] /\ TablesStay
        /\ UNCHANGED <<client, slot, idle, goodbye>>
    BY <1>1 DEF Join, Becomes, Dialing
  <1>3. r \in CallerType /\ r.conn = c /\ r.pc = "waiting" /\ r.tree = None
    BY DEF CallerType, Inside
  <1> HIDE DEF r
  <1>4. client = "open"
    BY TaskIs DEF Join, Asks
  <1>5. conn[c].phase = "dialing" /\ conn[c] \in ConnType /\ ConnOK(conn[c])
    BY <1>1, Facts DEF SlotOK
  <1>6. conn[c].logoffs = 0
    BY <1>5 DEF ConnOK, There, ConnType
  <1>7. CallerOK(r, conn, tree) /\ r.pc \notin Inside
    BY <1>3, <1>5, <1>6, Facts DEF CallerOK, Inside
  <1>8. /\ slot' # Ready(r.conn)
        /\ \A p \in {"sweeper", "close"} : goodbye[p].conn # r.conn
    BY <1>1, <1>2, <1>3, <1>5, Facts DEF Ready, Dialing, GoodbyeOK, There
  <1>9. Sound(client', slot', idle', conn, tree, caller', goodbye')
    BY <1>2, <1>3, <1>4, <1>5, <1>7, <1>8, TaskMoves
  <1> QED
    BY <1>2, <1>9, Stays

\* The probe ends, with an answer or without.
LEMMA ProbeInv ==
    ASSUME Inv, NEW k \in Callers, ProbeAnswered(k) \/ ProbeFails(k)
    PROVE  Inv'
  <1>1. PICK pc \in {"acquired", "ended"} : Becomes(k, pc, caller[k].conn)
    BY DEF ProbeAnswered, ProbeFails
  <1>2. /\ caller[k].pc = "probing" /\ TablesStay
        /\ UNCHANGED <<client, slot, idle, goodbye>>
    BY DEF ProbeAnswered, ProbeFails
  <1>3. Sound(client', slot', idle', conn, tree, caller', goodbye')
    BY <1>1, <1>2, TaskIs, TakesUp DEF Inside
  <1> QED
    BY <1>2, <1>3, Stays

\* forget(): the entry that ended is let go of.
LEMMA ForgetInv ==
    ASSUME Inv, NEW k \in Callers, Forget(k)
    PROVE  Inv'
  <1> DEFINE r == [pc |-> "look", conn |-> None, tree |-> None]
  <1>1. /\ caller[k].pc = "ended" /\ caller' = [caller EXCEPT ![k] = r]
        /\ slot' = Forgotten(caller[k].conn)
        /\ idle' = idle \/ idle' = 0
        /\ UNCHANGED <<client, goodbye>> /\ Drops(conn, tree)
    BY DEF Forget, Becomes
  <1>2. /\ r \in CallerType /\ r.conn = None /\ r.pc = "look"
        /\ CallerOK(r, conn, tree) /\ r.pc \notin Inside
    BY RestingIs
  <1> HIDE DEF r
  <1>3. slot' = slot \/ (slot' = Empty /\ slot.kind = "ready")
    BY <1>1 DEF Forgotten, Ready
  <1>4. client = "open"
    BY <1>1, TaskIs DEF Inside
  <1>5. Sound(client', slot', idle', conn, tree, caller', goodbye')
    BY <1>1, <1>2, <1>3, <1>4, TaskMoves
  <1> QED
    BY <1>1, <1>5, DropsKeeps

\* Dial::wait returns.
LEMMA WaitedInv ==
    ASSUME Inv, NEW k \in Callers, Waited(k)
    PROVE  Inv'
  <1>1. /\ caller[k].pc = "waiting" /\ UNCHANGED <<client, slot, idle, goodbye>>
        /\ Drops(conn, tree)
    BY DEF Waited
  <1>2. CASE conn[caller[k].conn].phase = "up"
    <2>1. Becomes(k, "acquired", caller[k].conn)
      BY <1>2 DEF Waited
    <2>2. Sound(client', slot', idle', conn, tree, caller', goodbye')
      BY <1>1, <1>2, <2>1, TaskIs, TakesUp DEF There
    <2> QED
      BY <1>1, <2>2, DropsKeeps
  <1>3. CASE conn[caller[k].conn].phase # "up"
    <2>1. Becomes(k, "idle", None)
      BY <1>3 DEF Waited
    <2> QED
      BY <1>1, <2>1, RestsInv
  <1> QED
    BY <1>2, <1>3

\* A task gives up, fails to connect, lets go of its tree or ends a listing.
LEMMA LeavesInv ==
    ASSUME Inv, NEW k \in Callers,
           GivesUp(k) \/ ConnectFails(k) \/ LetsGo(k) \/ Listed(k)
    PROVE  Inv'
  <1>1. /\ Becomes(k, "idle", None) /\ UNCHANGED <<client, slot, idle, goodbye>>
    BY DEF GivesUp, ConnectFails, LetsGo, Listed
  <1>2. CASE Drops(conn, tree)
    BY <1>1, <1>2, RestsInv
  <1>3. CASE Listed(k)
    <2>1. caller[k].conn \in Conns
      BY <1>3, TaskIs DEF Listed, Inside
    <2>2. PICK met \in {FALSE, tree[caller[k].tree].gone} :
            Drops([conn EXCEPT ![caller[k].conn].cached = IF met THEN None ELSE @], tree)
      BY <1>3 DEF Listed
    <2> DEFINE conns == [conn EXCEPT ![caller[k].conn].cached = IF met THEN None ELSE @]
    <2>3. conns = conn \/ conns = [conn EXCEPT ![caller[k].conn].cached = None]
      <3>1. conn \in [Conns -> ConnType] /\ conn[caller[k].conn] \in ConnType
        BY <2>1, Facts
      <3> QED
        BY <2>1, <3>1 DEF ConnType
    <2> HIDE DEF conns
    <2> QED
      BY <1>1, <2>1, <2>2, <2>3, RestsInv DEF conns
  <1> QED
    BY <1>2, <1>3 DEF GivesUp, ConnectFails, LetsGo

\* The tree a task is handed.
LEMMA HandOutIs ==
    ASSUME Inv, NEW k \in Callers, NEW t \in Trees, HandOut(k, t),
           caller[k].pc \in {"acquired", "connecting"}
    PROVE  \E r \in CallerType :
             /\ caller' = [caller EXCEPT ![k] = r] /\ r.tree = t
             /\ \/ r.pc = "has" /\ r.conn = None
                \/ r.pc = "listing" /\ r.conn = caller[k].conn
  <1>1. /\ caller[k] \in CallerType /\ caller \in [Callers -> CallerType]
        /\ caller[k].conn \in Conns
    BY Facts, TaskIs DEF Inside
  <1>2. CASE caller' = [caller EXCEPT ![k] = [pc |-> "has", conn |-> None, tree |-> t]]
    <2>1. [pc |-> "has", conn |-> None, tree |-> t] \in CallerType
      BY DEF CallerType
    <2> QED
      BY <1>2, <2>1
  <1>3. CASE caller' = [caller EXCEPT ![k].pc = "listing", ![k].tree = t]
    <2> DEFINE r == [caller[k] EXCEPT !.pc = "listing", !.tree = t]
    <2>1. r \in CallerType /\ r.pc = "listing" /\ r.tree = t /\ r.conn = caller[k].conn
      BY <1>1 DEF CallerType, Inside
    <2>2. caller' = [caller EXCEPT ![k] = r]
      BY <1>1, <1>3 DEF CallerType
    <2> QED
      BY <2>1, <2>2
  <1> QED
    BY <1>2, <1>3 DEF HandOut

\* tree_on() finds the entry's tree, or none it may use.
LEMMA FindsInv ==
    ASSUME Inv, NEW k \in Callers, FindsTree(k) \/ FindsNoTree(k)
    PROVE  Inv'
  <1> DEFINE c == caller[k].conn
  <1>1. /\ caller[k].pc = "acquired" /\ UNCHANGED <<client, slot, idle, goodbye>>
        /\ c \in Conns /\ Holder(c) /\ conn[c].phase \in There /\ conn[c].logoffs = 0
        /\ client = "open"
    BY TaskIs DEF FindsTree, FindsNoTree, Inside
  <1>2. CASE FindsTree(k)
    <2>1. /\ Healthy(c) /\ HandOut(k, conn[c].cached) /\ Drops(conn, tree)
      BY <1>2 DEF FindsTree
    <2>2. /\ conn[c].cached \in Trees /\ conn[c].cached # None
          /\ tree[conn[c].cached].open /\ tree[conn[c].cached].conn = c
      BY <1>1, <2>1, Facts DEF Healthy, CachesOK, Holder, ConnType
    <2>3. PICK r \in CallerType :
             /\ caller' = [caller EXCEPT ![k] = r] /\ r.tree = conn[c].cached
             /\ \/ r.pc = "has" /\ r.conn = None
                \/ r.pc = "listing" /\ r.conn = c
      BY <1>1, <2>1, <2>2, HandOutIs
    <2> HIDE DEF c
    <2>4. CallerOK(r, conn, tree)
      BY <1>1, <2>2, <2>3, Facts DEF CallerOK, Inside, There
    <2>5. Sound(client', slot', idle', conn, tree, caller', goodbye')
      BY <1>1, <2>3, <2>4, TaskMoves DEF Inside
    <2> QED
      BY <2>1, <2>5, DropsKeeps
  <1>3. CASE FindsNoTree(k)
    <2> DEFINE conns == [conn EXCEPT ![c].cached = None]
    <2>1. Becomes(k, "connecting", c) /\ Drops(conns, tree)
      BY <1>3 DEF FindsNoTree
    <2>2. \E d \in Conns : conns = [conn EXCEPT ![d].cached = None]
      BY <1>1
    <2> HIDE DEF conns, c
    <2>3. Sound(client', slot', idle', conns, tree, caller', goodbye')
      BY <1>1, <2>1, <2>2, TakesUp
    <2> QED
      BY <2>1, <2>3, DropsKeeps
  <1> QED
    BY <1>2, <1>3

\* A task dials.
LEMMA StartDialInv ==
    ASSUME Inv, NEW k \in Callers, NEW c \in Conns, StartDial(k, c)
    PROVE  Inv'
  <1> DEFINE r == [pc |-> "waiting", conn |-> c, tree |-> None]
             n == [FreeConn EXCEPT !.phase = "dialing"]
  <1>1. /\ slot' = Dialing(c) /\ caller' = [caller EXCEPT ![k] = r]
        /\ conn' = [conn EXCEPT ![c] = n] /\ conn[c].phase = "none"
        /\ UNCHANGED <<client, idle, tree, goodbye>>
    BY DEF StartDial, Becomes
  <1>2. /\ r \in CallerType /\ r.pc = "waiting" /\ r.conn = c /\ r.tree = None
        /\ n \in ConnType /\ n.phase = "dialing" /\ n.logoffs = 0 /\ n.cached = None
        /\ ~n.alive /\ ~n.released
    BY DEF CallerType, Inside, ConnType, FreeConn
  <1> HIDE DEF r, n
  <1>3. client = "open" /\ slot = Empty
    BY TaskIs, Facts DEF StartDial, Asks, Cold, Dialing, Ready
  <1>4. /\ conn' \in [Conns -> ConnType] /\ conn'[c] = n
        /\ \A d \in Conns : d # c => conn'[d] = conn[d]
        /\ caller' \in [Callers -> CallerType] /\ caller'[k] = r
        /\ \A j \in Callers : j # k => caller'[j] = caller[j]
    BY <1>1, <1>2, Facts
  <1>5. /\ \A j \in Callers : caller[j].conn # c
        /\ \A p \in {"sweeper", "close"} : goodbye[p].conn # c
        /\ \A t \in Trees : tree[t].open => tree[t].conn # c
    BY <1>1, Facts DEF CallerOK, GoodbyeOK, TreeOK, There
  <1>6. \A d \in Conns : ConnOK(conn'[d])
    BY <1>2, <1>4, Facts DEF ConnOK
  <1>7. \A t \in Trees : TreeOK(tree'[t], conn')
    BY <1>1, <1>4, <1>5, Facts DEF TreeOK
  <1>8. \A j \in Callers : CallerOK(caller'[j], conn', tree')
    <2> SUFFICES ASSUME NEW j \in Callers PROVE CallerOK(caller'[j], conn', tree)
      BY <1>1
    <2>1. CASE j = k
      BY <1>2, <1>4, <2>1, Facts DEF CallerOK, Inside
    <2>2. CASE j # k
      <3>1. caller[j].conn # None => conn'[caller[j].conn] = conn[caller[j].conn]
        BY <1>4, <1>5, Facts DEF CallerType
      <3>2. CallerOK(caller[j], conn, tree) /\ (caller[j].pc \in Inside => caller[j].conn # None)
        BY Facts DEF CallerOK, Inside
      <3> QED
        BY <1>4, <2>2, <3>1, <3>2 DEF CallerOK
    <2> QED
      BY <2>1, <2>2
  <1>9. \A p \in {"sweeper", "close"} : GoodbyeOK(goodbye'[p], conn')
    <2> SUFFICES ASSUME NEW p \in {"sweeper", "close"} PROVE GoodbyeOK(goodbye[p], conn')
      BY <1>1
    <2>1. goodbye[p].conn # None => conn'[goodbye[p].conn] = conn[goodbye[p].conn]
      BY <1>4, <1>5, Facts DEF GoodbyeType
    <2> QED
      BY <2>1, Facts DEF GoodbyeOK
  <1>10. CachesOK(slot', conn', tree', caller', goodbye')
    <2> SUFFICES ASSUME NEW d \in Conns, HeldIn(d, slot', conn', caller', goodbye'),
                        conn'[d].cached # None
                 PROVE  tree[conn'[d].cached].open /\ tree[conn'[d].cached].conn = d
      BY <1>1 DEF CachesOK
    <2>1. d # c
      BY <1>2, <1>4
    <2>2. Holder(d)
      BY <1>1, <1>2, <1>4, <2>1 DEF HeldIn, Holder, Ready, Dialing, Inside
    <2> QED
      BY <1>4, <2>1, <2>2, Facts DEF CachesOK, Holder
  <1>11. SlotOK(client', slot', conn', caller')
    <2>1. \A d \in Conns : conn[d].phase # "dialing"
      BY <1>3, Facts DEF SlotOK, Empty, Dialing
    <2>2. \A d \in Conns : conn'[d].phase = "dialing" <=> d = c
      BY <1>2, <1>4, <2>1
    <2>3. \A d \in Conns : slot' # Ready(d) /\ (slot' = Dialing(d) <=> d = c)
      BY <1>1 DEF Ready, Dialing
    <2> QED
      BY <1>1, <1>3, <2>2, <2>3 DEF SlotOK
  <1>12. Apart(slot', goodbye')
    BY <1>1, Facts DEF Apart, Ready, Dialing
  <1>13. Spared(slot', idle', caller', goodbye')
    BY <1>1, <1>2, <1>4, <1>5, Facts DEF Spared, Ready, Dialing
  <1>14. /\ client' \in {"open", "closed", "dropped", "gone"}
         /\ slot' \in {Empty} \cup {Dialing(d) : d \in Conns} \cup {Ready(d) : d \in Conns}
         /\ idle' \in 0 .. EvictAfter /\ tree' \in [Trees -> TreeType]
         /\ goodbye' \in [{"sweeper", "close"} -> GoodbyeType]
    BY <1>1, Facts
  <1> QED
    BY <1>4, <1>6, <1>7, <1>8, <1>9, <1>10, <1>11, <1>12, <1>13, <1>14 DEF Inv, Sound

\* The server has an id to give: one for each tree it has, and one more.
LEMMA NewTidIs ==
    ASSUME Inv, NEW c \in Conns, NEW t \in Trees, ~tree[t].open
    PROVE  NewTid(c) \in Trees
  <1> DEFINE O == {u \in Trees : tree[u].open /\ tree[u].conn = c /\ ~tree[u].gone}
             f == [u \in O |-> tree[u].tid]
             free == Trees \ TakenTids(c)
  <1>1. IsFiniteSet(Trees) /\ Trees \subseteq Nat
    BY ClientAssumption
  <1>2. O \in SUBSET (Trees \ {t})
    OBVIOUS
  <1>3. IsFiniteSet(Trees \ {t}) /\ Cardinality(Trees \ {t}) = Cardinality(Trees) - 1
    BY <1>1, FS_RemoveElement
  <1>4. IsFiniteSet(O) /\ Cardinality(O) <= Cardinality(Trees) - 1
    BY <1>2, <1>3, FS_Subset
  <1>5. TakenTids(c) = {f[u] : u \in O}
    BY DEF TakenTids
  <1>6. f \in Surjection(O, TakenTids(c))
    BY <1>5 DEF Surjection
  <1>7. IsFiniteSet(TakenTids(c)) /\ Cardinality(TakenTids(c)) <= Cardinality(O)
    BY <1>4, <1>6, FS_Surjection
  <1>8. free # {}
    <2> SUFFICES ASSUME Trees \in SUBSET TakenTids(c) PROVE FALSE
      OBVIOUS
    <2>1. Cardinality(Trees) <= Cardinality(TakenTids(c))
      BY <1>7, FS_Subset
    <2>2. Cardinality(Trees) \in Nat /\ Cardinality(O) \in Nat /\ Cardinality(TakenTids(c)) \in Nat
      BY <1>1, <1>4, <1>7, FS_CardinalityType
    <2> QED
      BY <1>4, <1>7, <2>1, <2>2
  <1>9. \E x \in free : \A y \in free : x <= y
    BY <1>1, <1>8, Least
  <1> QED
    BY <1>9 DEF NewTid

\* Tree::connect succeeds: the new tree is remembered and handed out, unless a
\* healthy one was remembered meanwhile, and then the new one goes.
LEMMA ConnectedInv ==
    ASSUME Inv, NEW k \in Callers, NEW t \in Trees, Connected(k, t)
    PROVE  Inv'
  <1> DEFINE c == caller[k].conn
             kept == IF Healthy(c) THEN conn[c].cached ELSE t
             new == [FreeTree EXCEPT !.open = TRUE, !.conn = c, !.tid = NewTid(c)]
             conns == [conn EXCEPT ![c].cached = kept]
             trees == [tree EXCEPT ![t] = new]
  <1>1. /\ caller[k].pc = "connecting" /\ ~tree[t].open /\ HandOut(k, kept)
        /\ UNCHANGED <<client, slot, idle, goodbye>> /\ Drops(conns, trees)
    BY DEF Connected
  <1>2. /\ c \in Conns /\ Holder(c) /\ conn[c].phase \in There /\ conn[c].logoffs = 0
        /\ client = "open"
    BY <1>1, TaskIs DEF Inside
  <1>3. NewTid(c) \in Trees
    BY <1>1, <1>2, NewTidIs
  <1>4. new \in TreeType /\ new.open /\ new.conn = c
    BY <1>2, <1>3 DEF TreeType, FreeTree
  <1> HIDE DEF new
  <1>5. /\ trees \in [Trees -> TreeType] /\ trees[t] = new
        /\ \A u \in Trees : u # t => trees[u] = tree[u]
    BY <1>4, Facts
  <1>6. \A u \in Trees : tree[u].open => u # t /\ trees[u] = tree[u]
    BY <1>1, <1>5
  <1>7. /\ kept \in Trees /\ trees[kept].open /\ trees[kept].conn = c
    <2>1. CASE Healthy(c)
      <3>1. /\ conn[c].cached \in Trees /\ tree[conn[c].cached].open
            /\ tree[conn[c].cached].conn = c
        BY <1>2, <2>1, Facts DEF Healthy, CachesOK, Holder, ConnType
      <3> QED
        BY <1>6, <2>1, <3>1
    <2>2. CASE ~Healthy(c)
      BY <1>4, <1>5, <2>2
    <2> QED
      BY <2>1, <2>2
  <1> HIDE DEF kept, trees
  <1>8. PICK r \in CallerType :
          /\ caller' = [caller EXCEPT ![k] = r] /\ r.tree = kept
          /\ \/ r.pc = "has" /\ r.conn = None
             \/ r.pc = "listing" /\ r.conn = c
    BY <1>1, <1>7, HandOutIs
  <1>9. /\ conns \in [Conns -> ConnType]
        /\ \A d \in Conns : d # c => conns[d] = conn[d]
        /\ conns[c].phase = conn[c].phase /\ conns[c].alive = conn[c].alive
        /\ conns[c].released = conn[c].released /\ conns[c].logoffs = conn[c].logoffs
        /\ conns[c].cached = kept
    <2>1. conn \in [Conns -> ConnType] /\ conn[c] \in ConnType
      BY <1>2, Facts
    <2>2. [conn[c] EXCEPT !.cached = kept] \in ConnType
      BY <1>7, <2>1 DEF ConnType
    <2> HIDE DEF c
    <2> QED
      BY <1>2, <2>1, <2>2 DEF ConnType
  <1> HIDE DEF conns
  <1>10. /\ caller' \in [Callers -> CallerType] /\ caller'[k] = r
         /\ \A j \in Callers : j # k => caller'[j] = caller[j]
    BY <1>8, Facts
  <1> HIDE DEF c
  <1>11. \A d \in Conns : /\ conns[d].phase = conn[d].phase
                          /\ conns[d].logoffs = conn[d].logoffs
    BY <1>9
  <1>12. \A d \in Conns : ConnOK(conns[d])
    <2> SUFFICES ASSUME NEW d \in Conns PROVE ConnOK(conns[d])
      OBVIOUS
    <2>1. CASE d = c
      BY <1>2, <1>9, <2>1, Facts DEF ConnOK
    <2>2. CASE d # c
      BY <1>9, <2>2, Facts
    <2> QED
      BY <2>1, <2>2
  <1>13. \A u \in Trees : TreeOK(trees[u], conns)
    <2> SUFFICES ASSUME NEW u \in Trees PROVE TreeOK(trees[u], conns)
      OBVIOUS
    <2>1. CASE u = t
      BY <1>2, <1>4, <1>5, <1>11, <2>1 DEF TreeOK
    <2>2. CASE u # t
      BY <1>5, <1>11, <2>2, Facts DEF TreeOK
    <2> QED
      BY <2>1, <2>2
  <1>14. \A j \in Callers : CallerOK(caller'[j], conns, trees)
    <2> SUFFICES ASSUME NEW j \in Callers PROVE CallerOK(caller'[j], conns, trees)
      OBVIOUS
    <2>1. CASE j = k
      BY <1>2, <1>7, <1>8, <1>10, <1>11, <2>1, Facts DEF CallerOK, Inside, There
    <2>2. CASE j # k
      <3>1. /\ CallerOK(caller[j], conn, tree) /\ caller[j] \in CallerType
            /\ caller[j].pc \in Inside => caller[j].conn # None
            /\ caller[j].pc = "listing" => caller[j].tree # None
        BY Facts DEF CallerOK, Inside
      <3>2. caller[j].tree # None => trees[caller[j].tree] = tree[caller[j].tree]
        BY <1>6, <3>1 DEF CallerOK, CallerType
      <3> QED
        BY <1>10, <1>11, <2>2, <3>1, <3>2 DEF CallerOK, CallerType
    <2> QED
      BY <2>1, <2>2
  <1>15. \A p \in {"sweeper", "close"} : GoodbyeOK(goodbye'[p], conns)
    <2> SUFFICES ASSUME NEW p \in {"sweeper", "close"} PROVE GoodbyeOK(goodbye[p], conns)
      BY <1>1
    <2>1. GoodbyeOK(goodbye[p], conn) /\ goodbye[p] \in GoodbyeType
      BY Facts
    <2>2. \A d \in Conns : conns[d].released = conn[d].released
      BY <1>9
    <2> QED
      BY <1>11, <2>1, <2>2 DEF GoodbyeOK, GoodbyeType
  <1>16. CachesOK(slot', conns, trees, caller', goodbye')
    <2> SUFFICES ASSUME NEW d \in Conns, HeldIn(d, slot', conns, caller', goodbye'),
                        conns[d].cached # None
                 PROVE  trees[conns[d].cached].open /\ trees[conns[d].cached].conn = d
      BY DEF CachesOK
    <2>1. CASE d = c
      BY <1>7, <1>9, <2>1
    <2>2. CASE d # c
      <3>1. Holder(d)
        BY <1>1, <1>8, <1>10, <1>11, <2>2 DEF HeldIn, Holder, Inside
      <3>2. /\ conn[d].cached # None /\ conn[d].cached \in Trees
            /\ tree[conn[d].cached].open /\ tree[conn[d].cached].conn = d
        BY <1>9, <2>2, <3>1, Facts DEF CachesOK, Holder, ConnType
      <3> QED
        BY <1>6, <1>9, <2>2, <3>2
    <2> QED
      BY <2>1, <2>2
  <1>17. SlotOK(client', slot', conns, caller')
    BY <1>1, <1>2, <1>11, Facts DEF SlotOK
  <1>18. Apart(slot', goodbye')
    BY <1>1, Facts DEF Apart
  <1>19. Spared(slot', idle', caller', goodbye')
    BY <1>1, <1>8, <1>10, Facts DEF Spared
  <1>20. /\ client' \in {"open", "closed", "dropped", "gone"}
         /\ slot' \in {Empty} \cup {Dialing(d) : d \in Conns} \cup {Ready(d) : d \in Conns}
         /\ idle' \in 0 .. EvictAfter
         /\ goodbye' \in [{"sweeper", "close"} -> GoodbyeType]
    BY <1>1, Facts
  <1>21. Sound(client', slot', idle', conns, trees, caller', goodbye')
    BY <1>5, <1>9, <1>10, <1>12, <1>13, <1>14, <1>15, <1>16, <1>17, <1>18, <1>19,
       <1>20 DEF Sound
  <1> QED
    BY <1>1, <1>21, DropsKeeps DEF conns, trees, c

-----------------------------------------------------------------------------
(* Steps of the server. *)

\* A step that touches neither who holds what nor what has been said.
LEMMA TouchesInv ==
    ASSUME Inv, UNCHANGED <<client, slot, idle, caller, goodbye>>,
           conn' \in [Conns -> ConnType], tree' \in [Trees -> TreeType],
           \A c \in Conns : /\ conn'[c].phase = conn[c].phase
                            /\ conn'[c].alive => conn[c].alive
                            /\ conn'[c].released = conn[c].released
                            /\ conn'[c].logoffs = conn[c].logoffs
                            /\ conn'[c].cached = conn[c].cached,
           \A t \in Trees : tree'[t].open = tree[t].open /\ tree'[t].conn = tree[t].conn
    PROVE  Inv'
  <1>1. \A c \in Conns : ConnOK(conn'[c])
    BY Facts DEF ConnOK
  <1>2. \A t \in Trees : TreeOK(tree'[t], conn')
    BY Facts DEF TreeOK
  <1>3. \A k \in Callers : CallerOK(caller'[k], conn', tree')
    <2> SUFFICES ASSUME NEW k \in Callers PROVE CallerOK(caller[k], conn', tree')
      OBVIOUS
    <2>1. /\ CallerOK(caller[k], conn, tree) /\ caller[k] \in CallerType
          /\ caller[k].pc \in Inside => caller[k].conn # None
          /\ caller[k].pc = "listing" => caller[k].tree # None
      BY Facts DEF CallerOK, Inside
    <2> QED
      BY <2>1 DEF CallerOK, CallerType
  <1>4. \A p \in {"sweeper", "close"} : GoodbyeOK(goodbye'[p], conn')
    <2> SUFFICES ASSUME NEW p \in {"sweeper", "close"} PROVE GoodbyeOK(goodbye[p], conn')
      OBVIOUS
    <2>1. GoodbyeOK(goodbye[p], conn) /\ goodbye[p] \in GoodbyeType
      BY Facts
    <2> QED
      BY <2>1 DEF GoodbyeOK, GoodbyeType
  <1>5. CachesOK(slot', conn', tree', caller', goodbye')
    BY Facts DEF CachesOK, HeldIn, ConnType
  <1>6. SlotOK(client', slot', conn', caller')
    BY Facts DEF SlotOK
  <1> QED
    BY <1>1, <1>2, <1>3, <1>4, <1>5, <1>6, Facts DEF Inv, Sound

\* The actor ends, the server discards a tree, or a task learns that it did.
LEMMA ServerInv ==
    ASSUME Inv,
           \/ \E c \in Conns : Dies(c)
           \/ \E t \in Trees : Discards(t)
           \/ \E k \in Callers : Learns(k)
    PROVE  Inv'
  <1>1. /\ conn \in [Conns -> ConnType] /\ tree \in [Trees -> TreeType]
        /\ \A c \in Conns : conn[c] \in ConnType
        /\ \A t \in Trees : tree[t] \in TreeType
    BY Facts
  <1>2. ASSUME NEW c \in Conns, Dies(c) PROVE Inv'
    <2>1. /\ conn' \in [Conns -> ConnType]
          /\ \A d \in Conns : /\ conn'[d].phase = conn[d].phase
                              /\ conn'[d].alive => conn[d].alive
                              /\ conn'[d].released = conn[d].released
                              /\ conn'[d].logoffs = conn[d].logoffs
                              /\ conn'[d].cached = conn[d].cached
      <3>1. [conn[c] EXCEPT !.alive = FALSE] \in ConnType
        BY <1>1 DEF ConnType
      <3>2. conn' = [conn EXCEPT ![c] = [conn[c] EXCEPT !.alive = FALSE]]
        BY <1>2 DEF Dies
      <3> QED
        BY <1>1, <3>1, <3>2 DEF ConnType
    <2>2. /\ tree' \in [Trees -> TreeType]
          /\ \A t \in Trees : tree'[t].open = tree[t].open /\ tree'[t].conn = tree[t].conn
      BY <1>1, <1>2 DEF Dies, TreeType
    <2> QED
      BY <1>2, <2>1, <2>2, TouchesInv DEF Dies
  <1>3. ASSUME NEW t \in Trees, NEW r \in TreeType, r.open = tree[t].open,
               r.conn = tree[t].conn, tree' = [tree EXCEPT ![t] = r],
               UNCHANGED <<client, slot, idle, conn, caller, goodbye>>
        PROVE  Inv'
    BY <1>1, <1>3, TouchesInv
  <1>4. ASSUME NEW t \in Trees, Discards(t) PROVE Inv'
    <2> DEFINE r == [tree[t] EXCEPT !.gone = TRUE]
    <2>1. r \in TreeType /\ r.open = tree[t].open /\ r.conn = tree[t].conn
      BY <1>1 DEF TreeType
    <2> QED
      BY <1>3, <1>4, <2>1 DEF Discards
  <1>5. ASSUME NEW k \in Callers, Learns(k) PROVE Inv'
    <2> DEFINE t == caller[k].tree
               r == [tree[t] EXCEPT !.disconnected = TRUE]
    <2>1. t \in Trees
      BY <1>5, TaskIs DEF Learns, CallerOK, CallerType
    <2>2. r \in TreeType /\ r.open = tree[t].open /\ r.conn = tree[t].conn
      BY <1>1, <2>1 DEF TreeType
    <2> QED
      BY <1>3, <1>5, <2>1, <2>2 DEF Learns
  <1> QED
    BY <1>2, <1>4, <1>5

-----------------------------------------------------------------------------
(* The dial task. *)

\* One connection of the table changes where the step leaves the tasks alone.
LEMMA OneConn ==
    ASSUME Inv, NEW c \in Conns, NEW n \in ConnType, NEW conns,
           conns = [conn EXCEPT ![c] = n], UNCHANGED <<caller, goodbye, client>>,
           slot' \in {Empty} \cup {Dialing(d) : d \in Conns} \cup {Ready(d) : d \in Conns},
           idle' \in 0 .. EvictAfter, ConnOK(n), n.logoffs = conn[c].logoffs,
           n.released = conn[c].released, n.phase # "none",
           conn[c].phase \in There => n.phase \in There,
           n.cached # None => Holder(c) /\ n.cached = conn[c].cached,
           \A d \in Conns : d # c /\ slot' = Ready(d) => slot = Ready(d),
           SlotOK(client', slot', conns, caller'), Apart(slot', goodbye'),
           Spared(slot', idle', caller', goodbye')
    PROVE  Sound(client', slot', idle', conns, tree, caller', goodbye')
  <1>1. /\ conns \in [Conns -> ConnType] /\ conns[c] = n
        /\ \A d \in Conns : d # c => conns[d] = conn[d]
        /\ \A d \in Conns : conn[d] \in ConnType
    BY Facts
  <1>2. \A d \in Conns : ConnOK(conns[d])
    BY <1>1, Facts
  <1>3. \A d \in Conns : /\ conns[d].logoffs = conn[d].logoffs
                         /\ conns[d].released = conn[d].released
                         /\ conn[d].phase # "none" => conns[d].phase # "none"
                         /\ conn[d].phase \in There => conns[d].phase \in There
    BY <1>1
  <1>4. \A t \in Trees : TreeOK(tree[t], conns)
    BY <1>3, Facts DEF TreeOK
  <1>5. \A k \in Callers : CallerOK(caller'[k], conns, tree)
    <2> SUFFICES ASSUME NEW k \in Callers PROVE CallerOK(caller[k], conns, tree)
      OBVIOUS
    <2>1. /\ CallerOK(caller[k], conn, tree) /\ caller[k] \in CallerType
          /\ caller[k].pc \in Inside => caller[k].conn # None
      BY Facts DEF CallerOK, Inside
    <2> QED
      BY <1>3, <2>1 DEF CallerOK, CallerType
  <1>6. \A p \in {"sweeper", "close"} : GoodbyeOK(goodbye'[p], conns)
    <2> SUFFICES ASSUME NEW p \in {"sweeper", "close"} PROVE GoodbyeOK(goodbye[p], conns)
      OBVIOUS
    <2>1. GoodbyeOK(goodbye[p], conn) /\ goodbye[p] \in GoodbyeType
      BY Facts
    <2> QED
      BY <1>3, <2>1 DEF GoodbyeOK, GoodbyeType
  <1>7. CachesOK(slot', conns, tree, caller', goodbye')
    <2> SUFFICES ASSUME NEW d \in Conns, HeldIn(d, slot', conns, caller, goodbye),
                        conns[d].cached # None
                 PROVE  tree[conns[d].cached].open /\ tree[conns[d].cached].conn = d
      BY DEF CachesOK
    <2>1. conns[d].cached = conn[d].cached /\ Holder(d)
      <3>1. CASE d = c
        BY <1>1, <3>1
      <3>2. CASE d # c
        BY <1>1, <3>2 DEF HeldIn, Holder
      <3> QED
        BY <3>1, <3>2
    <2> QED
      BY <2>1, Facts DEF CachesOK, Holder
  <1> QED
    BY <1>1, <1>2, <1>4, <1>5, <1>6, <1>7, Facts DEF Sound

\* Whom a connection being dialled is known to.
LEMMA DialIs ==
    ASSUME Inv, NEW c \in Conns, conn[c].phase = "dialing"
    PROVE  /\ conn[c] \in ConnType /\ conn[c].cached = None /\ conn[c].logoffs = 0
           /\ ~conn[c].released /\ ~conn[c].alive
           /\ client # "gone"
           /\ client # "closed" => slot = Dialing(c)
           /\ client = "closed" => slot = Empty
           /\ \A d \in Conns : conn[d].phase = "dialing" => d = c
           /\ \A p \in {"sweeper", "close"} : goodbye[p].conn # c
           /\ \A k \in Callers : caller[k].conn = c => caller[k].pc = "waiting"
  <1>1. conn[c] \in ConnType /\ ConnOK(conn[c])
    BY Facts
  <1>2. conn[c].cached = None /\ conn[c].logoffs = 0 /\ ~conn[c].released /\ ~conn[c].alive
    BY <1>1 DEF ConnOK, ConnType, There
  <1>3. /\ client # "gone"
        /\ client # "closed" => slot = Dialing(c)
        /\ client = "closed" => slot = Empty
        /\ \A d \in Conns : conn[d].phase = "dialing" => d = c
    BY Facts DEF SlotOK, Empty, Dialing
  <1>4. \A p \in {"sweeper", "close"} : goodbye[p].conn # c
    BY Facts DEF GoodbyeOK, There
  <1>5. ASSUME NEW k \in Callers, caller[k].conn = c PROVE caller[k].pc = "waiting"
    BY <1>5, Facts DEF CallerOK, CallerType, There
  <1> QED
    BY <1>1, <1>2, <1>3, <1>4, <1>5

\* A dial succeeds: it is cached, unless the client was closed meanwhile.
LEMMA DialledInv ==
    ASSUME Inv, NEW c \in Conns, Dialled(c)
    PROVE  Inv'
  <1> DEFINE n == [conn[c] EXCEPT !.phase = "publishing", !.alive = TRUE]
  <1>1. /\ conn[c].phase = "dialing" /\ slot' = SlotAfterDial(c) /\ idle' = 0
        /\ UNCHANGED <<client, tree, caller, goodbye>>
        /\ conn' = [conn EXCEPT ![c] = n]
    BY Facts DEF Dialled, ConnType
  <1>a. conn[c] \in ConnType
    BY Facts
  <1>2. /\ n \in ConnType /\ n.phase = "publishing" /\ n.released = conn[c].released
        /\ n.logoffs = conn[c].logoffs /\ n.cached = conn[c].cached
    BY <1>a DEF ConnType
  <1> HIDE DEF n
  <1>3. n.cached = None /\ n.logoffs = 0 /\ ConnOK(n)
    BY <1>1, <1>2, DialIs DEF ConnOK, There
  <1>4. /\ conn'[c] = n /\ \A d \in Conns : d # c => conn'[d] = conn[d]
    BY <1>1, Facts
  <1>5. /\ client = "closed" => slot' = Empty
        /\ client # "closed" => slot' = Ready(c)
    BY <1>1, DialIs DEF SlotAfterDial
  <1>6. \A d \in Conns : conn'[d].phase # "dialing"
    BY <1>1, <1>2, <1>4, DialIs
  <1>7. SlotOK(client', slot', conn', caller')
    <2>1. \A d \in Conns : slot' # Dialing(d) /\ (slot' = Ready(d) => d = c)
      BY <1>1, <1>5, DialIs DEF Ready, Dialing, Empty
    <2>2. client # "open" => \A k \in Callers : caller[k].pc \in {"idle", "has"}
      BY Facts DEF SlotOK
    <2>3. client \in {"closed", "gone"} => slot' = Empty
      BY <1>1, <1>5, DialIs
    <2> QED
      BY <1>1, <1>2, <1>3, <1>4, <1>6, <2>1, <2>2, <2>3 DEF SlotOK, There
  <1>8. Apart(slot', goodbye')
    BY <1>1, <1>5, DialIs, Facts DEF Apart, Ready, Empty
  <1>9. Spared(slot', idle', caller', goodbye')
    BY <1>1, Facts DEF Spared
  <1>10. /\ slot' \in {Empty} \cup {Dialing(d) : d \in Conns} \cup {Ready(d) : d \in Conns}
         /\ idle' \in 0 .. EvictAfter
         /\ \A d \in Conns : d # c /\ slot' = Ready(d) => slot = Ready(d)
    BY <1>1, <1>5, Facts DEF Ready, Empty
  <1>11. Sound(client', slot', idle', conn', tree, caller', goodbye')
    BY <1>1, <1>2, <1>3, <1>7, <1>8, <1>9, <1>10, OneConn DEF There
  <1> QED
    BY <1>1, <1>11 DEF Inv

\* The waiters are told of the dial.
LEMMA PublishedInv ==
    ASSUME Inv, NEW c \in Conns, Published(c)
    PROVE  Inv'
  <1> DEFINE n == [conn[c] EXCEPT !.phase = "up"]
             conns == [conn EXCEPT ![c] = n]
  <1>1. /\ conn[c].phase = "publishing"
        /\ UNCHANGED <<client, slot, idle, caller, goodbye>> /\ Drops(conns, tree)
    BY Facts DEF Published, ConnType
  <1>2. /\ n \in ConnType /\ n.phase = "up" /\ n.alive = conn[c].alive
        /\ n.released = conn[c].released
        /\ n.logoffs = conn[c].logoffs /\ n.cached = conn[c].cached
    BY Facts DEF ConnType
  <1> HIDE DEF n
  <1>3. ConnOK(n) /\ Holder(c)
    BY <1>1, <1>2, Facts DEF ConnOK, There, Holder, HeldIn
  <1>4. conns[c] = n /\ \A d \in Conns : d # c => conns[d] = conn[d]
    BY Facts
  <1>5. \A d \in Conns : /\ conns[d].phase = "dialing" <=> conn[d].phase = "dialing"
                         /\ conn[d].phase \in There => conns[d].phase \in There
                         /\ conns[d].logoffs = conn[d].logoffs
    BY <1>1, <1>2, <1>4 DEF There
  <1>6. conns = [conn EXCEPT ![c] = n]
    OBVIOUS
  <1> HIDE DEF conns
  <1>7. SlotOK(client', slot', conns, caller')
    BY <1>1, <1>5, Facts DEF SlotOK
  <1>8. Apart(slot', goodbye') /\ Spared(slot', idle', caller', goodbye')
    BY <1>1, Facts DEF Apart, Spared
  <1>9. Sound(client', slot', idle', conns, tree, caller', goodbye')
    BY <1>1, <1>2, <1>3, <1>6, <1>7, <1>8, Facts, OneConn DEF There
  <1> QED
    BY <1>1, <1>9, DropsKeeps

\* A dial fails, and is not cached.
LEMMA DialFailsInv ==
    ASSUME Inv, NEW c \in Conns, DialFails(c)
    PROVE  Inv'
  <1> DEFINE n == [conn[c] EXCEPT !.phase = "failed"]
             conns == [conn EXCEPT ![c] = n]
  <1>1. /\ conn[c].phase = "dialing" /\ slot' = Uncached(c)
        /\ UNCHANGED <<client, idle, caller, goodbye>> /\ Drops(conns, tree)
    BY Facts DEF DialFails, ConnType
  <1>2. /\ n \in ConnType /\ n.phase = "failed" /\ n.alive = conn[c].alive
        /\ n.released = conn[c].released
        /\ n.logoffs = conn[c].logoffs /\ n.cached = conn[c].cached
    BY Facts DEF ConnType
  <1> HIDE DEF n
  <1>3. ConnOK(n) /\ n.cached = None
    BY <1>1, <1>2, DialIs DEF ConnOK
  <1>4. conns[c] = n /\ \A d \in Conns : d # c => conns[d] = conn[d]
    BY Facts
  <1>5. conns = [conn EXCEPT ![c] = n]
    OBVIOUS
  <1> HIDE DEF conns
  <1>6. slot' = Empty
    BY <1>1, DialIs DEF Uncached
  <1>7. \A d \in Conns : slot' # Ready(d) /\ slot' # Dialing(d)
    BY <1>6 DEF Empty, Ready, Dialing
  <1>8. \A d \in Conns : conns[d].phase # "dialing"
    BY <1>1, <1>2, <1>4, DialIs
  <1>9. SlotOK(client', slot', conns, caller')
    BY <1>1, <1>6, <1>7, <1>8, Facts DEF SlotOK
  <1>10. Apart(slot', goodbye')
    BY <1>1, <1>7, Facts DEF Apart
  <1>11. Spared(slot', idle', caller', goodbye')
    BY <1>1, <1>6, Facts DEF Spared, Ready, Empty
  <1>12. Sound(client', slot', idle', conns, tree, caller', goodbye')
    BY <1>1, <1>2, <1>3, <1>5, <1>6, <1>7, <1>9, <1>10, <1>11, Facts, OneConn DEF There
  <1> QED
    BY <1>1, <1>12, DropsKeeps

-----------------------------------------------------------------------------
(* The goodbyes, the end of the client, and time. *)

\* A step that leaves the tasks alone, may mark a connection released or logged
\* off, and may move a goodbye to an entry that something held.
LEMMA Farewell ==
    ASSUME Inv, UNCHANGED caller, NEW conns, conns \in [Conns -> ConnType],
           goodbye' \in [{"sweeper", "close"} -> GoodbyeType],
           client' \in {"open", "closed", "dropped", "gone"},
           slot' = slot \/ slot' = Empty, idle' \in 0 .. EvictAfter,
           \A c \in Conns :
             /\ conns[c].phase = conn[c].phase /\ ConnOK(conns[c])
             /\ conns[c].cached = conn[c].cached \/ conns[c].cached = None
             /\ conns[c].logoffs = conn[c].logoffs
                \/ (/\ \A k \in Callers : caller[k].conn # c
                    /\ \A t \in Trees : ~(tree[t].open /\ tree[t].conn = c)),
           \A p \in {"sweeper", "close"} :
             /\ GoodbyeOK(goodbye'[p], conns)
             /\ goodbye'[p].conn # None => Holder(goodbye'[p].conn),
           SlotOK(client', slot', conns, caller'), Apart(slot', goodbye'),
           Spared(slot', idle', caller', goodbye')
    PROVE  Sound(client', slot', idle', conns, tree, caller', goodbye')
  <1>1. \A t \in Trees : TreeOK(tree[t], conns)
    BY Facts DEF TreeOK
  <1>2. \A k \in Callers : CallerOK(caller'[k], conns, tree)
    <2> SUFFICES ASSUME NEW k \in Callers PROVE CallerOK(caller[k], conns, tree)
      OBVIOUS
    <2>1. /\ CallerOK(caller[k], conn, tree) /\ caller[k] \in CallerType
          /\ caller[k].pc \in Inside => caller[k].conn # None
      BY Facts DEF CallerOK, Inside
    <2>2. caller[k].conn # None =>
            /\ caller[k].conn \in Conns
            /\ conns[caller[k].conn].phase = conn[caller[k].conn].phase
            /\ conns[caller[k].conn].logoffs = conn[caller[k].conn].logoffs
      BY <2>1 DEF CallerType
    <2> QED
      BY <2>1, <2>2 DEF CallerOK
  <1>3. CachesOK(slot', conns, tree, caller', goodbye')
    <2> SUFFICES ASSUME NEW c \in Conns, HeldIn(c, slot', conns, caller, goodbye'),
                        conns[c].cached # None
                 PROVE  tree[conns[c].cached].open /\ tree[conns[c].cached].conn = c
      BY DEF CachesOK
    <2>1. conns[c].cached = conn[c].cached /\ conns[c].phase = conn[c].phase
      OBVIOUS
    <2>2. slot' = Ready(c) => slot = Ready(c)
      BY DEF Ready, Empty
    <2>3. \A p \in {"sweeper", "close"} : goodbye'[p].conn = c => Holder(c)
      BY Facts
    <2>4. Holder(c)
      BY <2>1, <2>2, <2>3 DEF HeldIn, Holder
    <2> QED
      BY <2>1, <2>4, Facts DEF CachesOK, Holder
  <1>4. slot' \in {Empty} \cup {Dialing(c) : c \in Conns} \cup {Ready(c) : c \in Conns}
    BY Facts
  <1> QED
    BY <1>1, <1>2, <1>3, <1>4, Facts DEF Sound

\* The connection the slot holds, and the goodbye that takes it out.
LEMMA EvictedIs ==
    ASSUME Inv, slot.kind = "ready", NEW p \in {"sweeper", "close"}
    PROVE  LET g == Evicted(p)
           IN  /\ slot.conn \in Conns /\ slot = Ready(slot.conn)
               /\ g \in [{"sweeper", "close"} -> GoodbyeType]
               /\ g[p] = [pc |-> "start", conn |-> slot.conn]
               /\ \A q \in {"sweeper", "close"} \ {p} : g[q] = goodbye[q]
               /\ \A q \in {"sweeper", "close"} :
                    /\ GoodbyeOK(g[q], conn)
                    /\ g[q].conn # None => Holder(g[q].conn)
               /\ Apart(Empty, g)
               /\ \A c \in Conns : conn[c].phase # "dialing"
  <1>1. /\ slot.conn \in Conns /\ slot = Ready(slot.conn)
        /\ \A c \in Conns : slot # Dialing(c)
    BY Facts DEF Empty, Ready, Dialing
  <1>2. /\ conn[slot.conn].phase \in There /\ conn[slot.conn].logoffs = 0
        /\ client # "closed"
        /\ \A c \in Conns : conn[c].phase # "dialing"
    BY <1>1, Facts DEF SlotOK, Empty, Ready
  <1> DEFINE r == [pc |-> "start", conn |-> slot.conn]
             g == Evicted(p)
  <1>3. r \in GoodbyeType /\ GoodbyeOK(r, conn) /\ r.conn = slot.conn
    BY <1>1, <1>2, Facts DEF GoodbyeType, GoodbyeOK
  <1>4. /\ g \in [{"sweeper", "close"} -> GoodbyeType] /\ g[p] = r
        /\ \A q \in {"sweeper", "close"} \ {p} : g[q] = goodbye[q]
    BY <1>3, Facts DEF Evicted
  <1> HIDE DEF r, g
  <1>5. \A q \in {"sweeper", "close"} : goodbye[q].conn # slot.conn
    BY <1>1, Facts DEF Apart
  <1>6. Apart(Empty, g)
    BY <1>3, <1>4, <1>5, Facts DEF Apart, Empty, Ready
  <1>7. ASSUME NEW q \in {"sweeper", "close"}
        PROVE  /\ GoodbyeOK(g[q], conn)
               /\ g[q].conn # None => Holder(g[q].conn)
    <2>1. CASE q = p
      BY <1>1, <1>3, <1>4, <2>1 DEF Holder, HeldIn
    <2>2. CASE q # p
      BY <1>4, <2>2, Facts DEF Holder, HeldIn
    <2> QED
      BY <2>1, <2>2
  <1> QED
    BY <1>1, <1>2, <1>4, <1>6, <1>7 DEF r, g

\* The sweeper takes an idle connection out of the cache.
LEMMA SweepsInv ==
    ASSUME Inv, Sweeps
    PROVE  Inv'
  <1>1. /\ slot.kind = "ready" /\ idle >= EvictAfter /\ slot' = Empty /\ idle' = 0
        /\ goodbye' = Evicted("sweeper") /\ TablesStay /\ UNCHANGED <<client, caller>>
        /\ client # "closed" /\ client # "gone"
    BY DEF Sweeps, Due
  <1>2. /\ slot.conn \in Conns /\ slot = Ready(slot.conn)
        /\ goodbye' \in [{"sweeper", "close"} -> GoodbyeType]
        /\ goodbye'["sweeper"] = [pc |-> "start", conn |-> slot.conn]
        /\ goodbye'["close"] = goodbye["close"]
        /\ \A q \in {"sweeper", "close"} :
             /\ GoodbyeOK(goodbye'[q], conn)
             /\ goodbye'[q].conn # None => Holder(goodbye'[q].conn)
        /\ Apart(slot', goodbye')
        /\ \A c \in Conns : conn[c].phase # "dialing"
    BY <1>1, EvictedIs
  <1>3. SlotOK(client', slot', conn, caller')
    BY <1>1, <1>2, Facts DEF SlotOK, Empty, Ready, Dialing
  <1>4. Spared(slot', idle', caller', goodbye')
    <2> SUFFICES ASSUME NEW k \in Callers, caller[k].conn # None,
                        caller[k].pc \notin {"connecting", "listing"}
                 PROVE  /\ slot' # Ready(caller[k].conn)
                        /\ \A p \in {"sweeper", "close"} : goodbye'[p].conn # caller[k].conn
      BY <1>1 DEF Spared
    <2>1. slot' # Ready(caller[k].conn)
      BY <1>1 DEF Empty, Ready
    <2>2. /\ slot = Ready(caller[k].conn) => idle < EvictAfter
          /\ goodbye["close"].conn # caller[k].conn
      BY Facts DEF Spared
    <2>3. slot.conn # caller[k].conn
      <3>1. ~(idle < EvictAfter)
        BY <1>1, Facts
      <3> QED
        BY <1>2, <2>2, <3>1
    <2> QED
      BY <1>2, <2>1, <2>2, <2>3
  <1>5. idle' \in 0 .. EvictAfter
    BY <1>1, Facts
  <1>6. Sound(client', slot', idle', conn, tree, caller', goodbye')
    BY <1>1, <1>2, <1>3, <1>4, <1>5, Facts, Farewell
  <1> QED
    BY <1>1, <1>6, Stays

\* Nobody is inside the client: no task holds an entry.
LEMMA UnborrowedIs ==
    ASSUME Inv, Unborrowed
    PROVE  \A k \in Callers : caller[k].conn = None
  BY Facts DEF Unborrowed, CallerOK

\* The client is closed: whatever the cache held is out of it.
LEMMA CloseInv ==
    ASSUME Inv, Close
    PROVE  Inv'
  <1>1. /\ Unborrowed /\ client' = "closed" /\ slot' = Empty /\ idle' = 0
        /\ goodbye' = IF slot.kind = "ready" THEN Evicted("close") ELSE goodbye
        /\ TablesStay /\ UNCHANGED caller
    BY DEF Close
  <1>2. /\ goodbye' \in [{"sweeper", "close"} -> GoodbyeType]
        /\ \A q \in {"sweeper", "close"} :
             /\ GoodbyeOK(goodbye'[q], conn)
             /\ goodbye'[q].conn # None => Holder(goodbye'[q].conn)
        /\ Apart(slot', goodbye')
    <2>1. CASE slot.kind = "ready"
      BY <1>1, <2>1, EvictedIs
    <2>2. CASE slot.kind # "ready"
      <3>1. \A q \in {"sweeper", "close"} : Holder(goodbye[q].conn)
        BY DEF Holder, HeldIn
      <3> QED
        BY <1>1, <2>2, <3>1, Facts DEF Apart, Empty, Ready
    <2> QED
      BY <2>1, <2>2
  <1>3. SlotOK(client', slot', conn, caller')
    BY <1>1, Facts DEF SlotOK, Empty, Ready, Dialing, Unborrowed
  <1>4. Spared(slot', idle', caller', goodbye')
    BY <1>1, UnborrowedIs DEF Spared
  <1>5. idle' \in 0 .. EvictAfter
    BY <1>1, Facts
  <1>6. Sound(client', slot', idle', conn, tree, caller', goodbye')
    BY <1>1, <1>2, <1>3, <1>4, <1>5, Facts, Farewell
  <1> QED
    BY <1>1, <1>6, Stays

\* The client is dropped, and later its state.
LEMMA DroppedInv ==
    ASSUME Inv, DropClient \/ InnerDrops
    PROVE  Inv'
  <1>1. /\ goodbye \in [{"sweeper", "close"} -> GoodbyeType]
        /\ \A q \in {"sweeper", "close"} : GoodbyeOK(goodbye[q], conn) /\ Holder(goodbye[q].conn)
    BY Facts DEF Holder, HeldIn
  <1>2. CASE DropClient
    <2>1. /\ Unborrowed /\ client = "open" /\ client' = "dropped"
          /\ TablesStay /\ UNCHANGED <<slot, idle, caller, goodbye>>
      BY <1>2 DEF DropClient
    <2>2. SlotOK(client', slot', conn, caller')
      BY <2>1, Facts DEF SlotOK, Unborrowed
    <2>3. Sound(client', slot', idle', conn, tree, caller', goodbye')
      BY <1>1, <2>1, <2>2, Facts, Farewell
    <2> QED
      BY <2>1, <2>3, Stays
  <1>3. CASE InnerDrops
    <2>1. /\ client = "dropped" /\ client' = "gone" /\ ~DialRuns /\ slot' = Empty /\ idle' = 0
          /\ UNCHANGED <<caller, goodbye>> /\ Drops(conn, tree)
      BY <1>3 DEF InnerDrops
    <2>2. \A k \in Callers : caller[k].pc \in {"idle", "has"} /\ caller[k].conn = None
      BY <2>1, Facts DEF SlotOK, CallerOK
    <2>3. SlotOK(client', slot', conn, caller')
      BY <2>1, <2>2, Facts DEF SlotOK, DialRuns, Empty, Ready, Dialing
    <2>4. Apart(slot', goodbye') /\ Spared(slot', idle', caller', goodbye')
      BY <2>1, <2>2, Facts DEF Apart, Spared, Empty, Ready
    <2>5. idle' \in 0 .. EvictAfter
      BY <2>1, Facts
    <2>6. Sound(client', slot', idle', conn, tree, caller', goodbye')
      BY <1>1, <2>1, <2>3, <2>4, <2>5, Facts, Farewell
    <2> QED
      BY <2>1, <2>6, DropsKeeps
  <1> QED
    BY <1>2, <1>3

\* A deadline goes by, and no task still holds what falls due.
LEMMA TimePassesInv ==
    ASSUME Inv, TimePasses
    PROVE  Inv'
  <1>1. /\ slot.kind = "ready" /\ idle < EvictAfter /\ Prompt(slot.conn) /\ idle' = idle + 1
        /\ TablesStay /\ UNCHANGED <<client, slot, caller, goodbye>>
    BY DEF TimePasses
  <1>2. /\ goodbye \in [{"sweeper", "close"} -> GoodbyeType]
        /\ \A q \in {"sweeper", "close"} : GoodbyeOK(goodbye[q], conn) /\ Holder(goodbye[q].conn)
    BY Facts DEF Holder, HeldIn
  <1>3. idle' \in 0 .. EvictAfter
    BY <1>1, Facts
  <1>4. Spared(slot', idle', caller', goodbye')
    <2> SUFFICES ASSUME NEW k \in Callers, caller[k].conn # None,
                        caller[k].pc \notin {"connecting", "listing"}
                 PROVE  /\ slot = Ready(caller[k].conn) => idle' < EvictAfter
                        /\ \A p \in {"sweeper", "close"} : goodbye[p].conn # caller[k].conn
      BY <1>1 DEF Spared
    <2>1. slot = Ready(caller[k].conn) => idle + 1 < EvictAfter
      BY <1>1 DEF Ready, Prompt
    <2> QED
      BY <1>1, <2>1, Facts DEF Spared
  <1>5. Sound(client', slot', idle', conn, tree, caller', goodbye')
    BY <1>1, <1>2, <1>3, <1>4, Facts, Farewell
  <1> QED
    BY <1>1, <1>5, Stays

\* What a goodbye may be, by where it is.
LEMMA GoodbyeIs ==
    ASSUME Inv, NEW p \in {"sweeper", "close"}, goodbye[p].pc # "idle"
    PROVE  /\ goodbye[p] \in GoodbyeType /\ goodbye[p].conn \in Conns
           /\ conn[goodbye[p].conn] \in ConnType /\ Holder(goodbye[p].conn)
           /\ ConnOK(conn[goodbye[p].conn])
           /\ conn[goodbye[p].conn].phase \in There
           /\ goodbye[p].pc \in {"start", "checking"} => conn[goodbye[p].conn].logoffs = 0
           /\ goodbye[p].pc = "checking" => conn[goodbye[p].conn].released
           /\ slot # Ready(goodbye[p].conn)
           /\ \A q \in {"sweeper", "close"} : q # p => goodbye[q].conn # goodbye[p].conn
  <1>1. goodbye[p] \in GoodbyeType /\ goodbye[p].conn \in Conns
    BY Facts DEF GoodbyeOK, GoodbyeType
  <1>2. Holder(goodbye[p].conn)
    BY DEF Holder, HeldIn
  <1>3. slot # Ready(goodbye[p].conn)
    BY <1>1, Facts DEF Apart
  <1>4. ASSUME NEW q \in {"sweeper", "close"}, q # p PROVE goodbye[q].conn # goodbye[p].conn
    BY <1>1, <1>4, Facts DEF Apart
  <1>5. /\ conn[goodbye[p].conn].phase \in There
        /\ goodbye[p].pc \in {"start", "checking"} => conn[goodbye[p].conn].logoffs = 0
        /\ goodbye[p].pc = "checking" => conn[goodbye[p].conn].released
    BY <1>1, Facts DEF GoodbyeOK
  <1> QED
    BY <1>1, <1>2, <1>3, <1>4, <1>5, Facts

\* A goodbye takes a step, which changes at most its own connection.
LEMMA GoodbyeMoves ==
    ASSUME Inv, NEW p \in {"sweeper", "close"}, goodbye[p].pc # "idle",
           NEW g \in GoodbyeType, goodbye' = [goodbye EXCEPT ![p] = g],
           g.conn \in {goodbye[p].conn, None},
           UNCHANGED <<client, slot, idle, caller>>,
           NEW n \in ConnType, NEW conns, conns = [conn EXCEPT ![goodbye[p].conn] = n],
           ConnOK(n), n.phase = conn[goodbye[p].conn].phase,
           n.cached \in {conn[goodbye[p].conn].cached, None},
           \/ n.logoffs = conn[goodbye[p].conn].logoffs
           \/ /\ \A k \in Callers : caller[k].conn # goodbye[p].conn
              /\ \A t \in Trees : ~(tree[t].open /\ tree[t].conn = goodbye[p].conn),
           GoodbyeOK(g, conns)
    PROVE  Sound(client', slot', idle', conns, tree, caller', goodbye')
  <1> DEFINE c == goodbye[p].conn
  <1>1. c \in Conns /\ slot # Ready(c)
        /\ (\A q \in {"sweeper", "close"} : q # p => goodbye[q].conn # c)
    BY GoodbyeIs
  <1>2. /\ conns \in [Conns -> ConnType] /\ conns[c] = n
        /\ \A d \in Conns : d # c => conns[d] = conn[d]
    BY <1>1, Facts
  <1>3. /\ goodbye' \in [{"sweeper", "close"} -> GoodbyeType] /\ goodbye'[p] = g
        /\ \A q \in {"sweeper", "close"} : q # p => goodbye'[q] = goodbye[q]
    BY Facts
  <1>4. \A q \in {"sweeper", "close"} : goodbye'[q].conn \in {goodbye[q].conn, None}
    BY <1>3
  <1>5. \A q \in {"sweeper", "close"} :
          /\ GoodbyeOK(goodbye'[q], conns)
          /\ goodbye'[q].conn # None => Holder(goodbye'[q].conn)
    <2> SUFFICES ASSUME NEW q \in {"sweeper", "close"}
                 PROVE  /\ GoodbyeOK(goodbye'[q], conns)
                        /\ goodbye'[q].conn # None => Holder(goodbye'[q].conn)
      OBVIOUS
    <2>1. goodbye'[q].conn # None => Holder(goodbye'[q].conn)
      BY <1>4 DEF Holder, HeldIn
    <2>2. CASE q = p
      BY <1>3, <2>1, <2>2
    <2>3. CASE q # p
      <3>1. /\ GoodbyeOK(goodbye[q], conn) /\ goodbye[q] \in GoodbyeType
            /\ goodbye[q].conn # c
        BY <1>1, <2>3, Facts
      <3>2. goodbye[q].conn # None => conns[goodbye[q].conn] = conn[goodbye[q].conn]
        BY <1>2, <3>1 DEF GoodbyeType
      <3>3. GoodbyeOK(goodbye[q], conns)
        BY <3>1, <3>2 DEF GoodbyeOK
      <3> QED
        BY <1>3, <2>1, <2>3, <3>3
    <2> QED
      BY <2>2, <2>3
  <1>6. SlotOK(client', slot', conns, caller')
    <2>1. \A d \in Conns : conns[d].phase = conn[d].phase
      BY <1>2
    <2>2. \A d \in Conns : slot = Ready(d) => conns[d] = conn[d]
      BY <1>1, <1>2
    <2> QED
      BY <2>1, <2>2, Facts DEF SlotOK
  <1>7. Apart(slot', goodbye')
    <2>1. \A d \in Conns : d # None
      BY Facts
    <2>2. \A d \in Conns : slot = Ready(d) => \A q \in {"sweeper", "close"} : goodbye'[q].conn # d
      BY <1>4, <2>1, Facts DEF Apart
    <2>3. goodbye'["sweeper"].conn = goodbye'["close"].conn => goodbye'["close"].conn = None
      BY <1>4, Facts DEF Apart
    <2> QED
      BY <2>2, <2>3 DEF Apart
  <1>8. Spared(slot', idle', caller', goodbye')
    BY <1>4, Facts DEF Spared
  <1>9. \A d \in Conns :
          /\ conns[d].phase = conn[d].phase /\ ConnOK(conns[d])
          /\ conns[d].cached = conn[d].cached \/ conns[d].cached = None
          /\ conns[d].logoffs = conn[d].logoffs
             \/ (/\ \A k \in Callers : caller[k].conn # d
                 /\ \A t \in Trees : ~(tree[t].open /\ tree[t].conn = d))
    BY <1>2, Facts
  <1> HIDE DEF c
  <1> QED
    BY <1>2, <1>3, <1>5, <1>6, <1>7, <1>8, <1>9, Facts, Farewell

\* The trees of the entry are closed, and the goodbye recorded.
LEMMA DrainedInv ==
    ASSUME Inv, NEW p \in {"sweeper", "close"}, Drained(p)
    PROVE  Inv'
  <1> DEFINE c == goodbye[p].conn
             g == [goodbye[p] EXCEPT !.pc = "checking"]
             n == [conn[c] EXCEPT !.released = TRUE, !.cached = None]
             conns == [conn EXCEPT ![c] = n]
  <1>1. goodbye[p].pc = "start" /\ UNCHANGED <<client, slot, idle, caller>>
    BY DEF Drained
  <1>2. /\ goodbye[p] \in GoodbyeType /\ c \in Conns /\ conn[c] \in ConnType
        /\ conn[c].phase \in There /\ conn[c].logoffs = 0
    BY <1>1, GoodbyeIs
  <1>3. /\ g \in GoodbyeType /\ g.pc = "checking" /\ g.conn = c
    BY <1>2 DEF GoodbyeType
  <1>4. /\ n \in ConnType /\ n.phase = conn[c].phase /\ n.logoffs = conn[c].logoffs
        /\ n.cached = None /\ n.released
    BY <1>2, Facts DEF ConnType
  <1>5. goodbye' = [goodbye EXCEPT ![p] = g] /\ Drops(conns, tree)
    <2>1. /\ goodbye' = [goodbye EXCEPT ![p].pc = "checking"]
          /\ Drops([conn EXCEPT ![c].released = TRUE, ![c].cached = None], tree)
      BY DEF Drained, Marked
    <2>2. [goodbye EXCEPT ![p].pc = "checking"] = [goodbye EXCEPT ![p] = g]
      BY Facts
    <2>3. [conn EXCEPT ![c].released = TRUE, ![c].cached = None] = conns
      BY Facts
    <2> QED
      BY <2>1, <2>2, <2>3
  <1> HIDE DEF n, g
  <1>6. ConnOK(n)
    BY <1>2, <1>4 DEF ConnOK
  <1>7. conns[c] = n
    BY <1>2, Facts
  <1>8. GoodbyeOK(g, conns)
    <2>1. c # None
      BY <1>2, Facts
    <2> QED
      BY <1>2, <1>3, <1>4, <1>7, <2>1 DEF GoodbyeOK
  <1>9. goodbye[p].pc # "idle" /\ g.conn \in {goodbye[p].conn, None} /\ n.cached \in {conn[c].cached, None}
    BY <1>1, <1>3, <1>4
  <1>10. Sound(client', slot', idle', conns, tree, caller', goodbye')
    BY <1>1, <1>3, <1>4, <1>5, <1>6, <1>8, <1>9, GoodbyeMoves
  <1> QED
    BY <1>5, <1>10, DropsKeeps

\* The logoff goes out: no tree and no Tree::connect has the connection, and what
\* else could have it is a task that was spared.
LEMMA LogsOffInv ==
    ASSUME Inv, NEW p \in {"sweeper", "close"}, LogsOff(p)
    PROVE  Inv'
  <1> DEFINE c == goodbye[p].conn
             g == [goodbye[p] EXCEPT !.pc = "loggingOff"]
             m == IF conn[c].alive THEN conn[c].logoffs + 1 ELSE conn[c].logoffs
             n == [conn[c] EXCEPT !.logoffs = m]
  <1>1. /\ goodbye[p].pc = "checking" /\ UNCHANGED <<client, slot, idle, tree, caller>>
        /\ ~OtherHandles(c)
    BY DEF LogsOff, MayLogoff
  <1>2. /\ goodbye[p] \in GoodbyeType /\ c \in Conns /\ conn[c] \in ConnType
        /\ conn[c].phase \in There /\ conn[c].logoffs = 0 /\ conn[c].released
        /\ ConnOK(conn[c])
    BY <1>1, GoodbyeIs
  <1>3. /\ g \in GoodbyeType /\ g.pc = "loggingOff" /\ g.conn = c
    BY <1>2 DEF GoodbyeType
  <1>4. /\ n \in ConnType /\ n.phase = conn[c].phase /\ n.cached = conn[c].cached
        /\ n.released = conn[c].released /\ n.alive = conn[c].alive
        /\ n.logoffs \in {0, 1}
    <2>1. m \in {0, 1} /\ m \in Nat
      BY <1>2
    <2> HIDE DEF m
    <2> QED
      BY <1>2, <2>1 DEF ConnType
  <1>5. goodbye' = [goodbye EXCEPT ![p] = g] /\ conn' = [conn EXCEPT ![c] = n]
    BY <1>2, Facts DEF LogsOff, ConnType
  <1> HIDE DEF n, g
  <1>6. ConnOK(n)
    BY <1>2, <1>4 DEF ConnOK
  <1>7. conn'[c] = n
    BY <1>2, <1>5, Facts
  <1>8. GoodbyeOK(g, conn')
    <2>1. c # None
      BY <1>2, Facts
    <2> QED
      BY <1>2, <1>3, <1>4, <1>7, <2>1 DEF GoodbyeOK
  <1>9. \A t \in Trees : ~(tree[t].open /\ tree[t].conn = c)
    BY <1>1 DEF OtherHandles
  <1>10. ASSUME NEW k \in Callers, caller[k].conn = c PROVE FALSE
    <2>1. caller[k].conn # None /\ CallerOK(caller[k], conn, tree) /\ caller[k] \in CallerType
      BY <1>2, <1>10, Facts
    <2>2. caller[k].pc \in {"connecting", "listing"}
      BY <1>10, <2>1, Facts DEF Spared
    <2>3. caller[k].pc = "listing"
      BY <1>1, <1>10, <2>2 DEF OtherHandles
    <2>4. /\ caller[k].tree \in Trees /\ tree[caller[k].tree].open
          /\ tree[caller[k].tree].conn = c
      BY <1>10, <2>1, <2>3 DEF CallerOK, CallerType
    <2> QED
      BY <1>9, <2>4
  <1>11. goodbye[p].pc # "idle" /\ g.conn \in {goodbye[p].conn, None} /\ n.cached \in {conn[c].cached, None}
    BY <1>1, <1>3, <1>4
  <1>12. Sound(client', slot', idle', conn', tree, caller', goodbye')
    BY <1>1, <1>3, <1>4, <1>5, <1>6, <1>8, <1>9, <1>10, <1>11, GoodbyeMoves
  <1> QED
    BY <1>1, <1>12 DEF Inv

\* A goodbye ends, or the sweeper inside one is aborted.
LEMMA GoodbyeEndsInv ==
    ASSUME Inv, NEW p \in {"sweeper", "close"}, goodbye[p].pc # "idle",
           goodbye' = [goodbye EXCEPT ![p] = Silent],
           UNCHANGED <<client, slot, idle, caller>>, Drops(conn, tree)
    PROVE  Inv'
  <1> DEFINE c == goodbye[p].conn
  <1>1. c \in Conns /\ conn[c] \in ConnType /\ ConnOK(conn[c])
    BY GoodbyeIs
  <1>2. Silent \in GoodbyeType /\ GoodbyeOK(Silent, conn) /\ Silent.conn \in {c, None}
    BY DEF Silent, GoodbyeType, GoodbyeOK
  <1>3. conn = [conn EXCEPT ![c] = conn[c]]
    BY <1>1, Facts
  <1>4. Sound(client', slot', idle', conn, tree, caller', goodbye')
    BY <1>1, <1>2, <1>3, GoodbyeMoves
  <1> QED
    BY <1>4, DropsKeeps

-----------------------------------------------------------------------------
(* The theorems. *)

\* The invariant holds of a client that has just been built.
LEMMA InitInv == Init => Inv
  <1> SUFFICES ASSUME Init PROVE Inv
    OBVIOUS
  <1>1. /\ client = "open" /\ slot = Empty /\ idle = 0
        /\ conn = [c \in Conns |-> FreeConn] /\ tree = [t \in Trees |-> FreeTree]
        /\ caller = [k \in Callers |-> Resting]
        /\ goodbye = [p \in {"sweeper", "close"} |-> Silent]
    BY DEF Init
  <1>2. /\ FreeConn \in ConnType /\ FreeTree \in TreeType /\ Resting \in CallerType
        /\ Silent \in GoodbyeType
    BY DEF FreeConn, ConnType, FreeTree, TreeType, Resting, CallerType, Silent,
       GoodbyeType
  <1>3. /\ conn \in [Conns -> ConnType] /\ tree \in [Trees -> TreeType]
        /\ caller \in [Callers -> CallerType]
        /\ goodbye \in [{"sweeper", "close"} -> GoodbyeType]
    BY <1>1, <1>2
  <1>4. /\ \A c \in Conns : conn[c] = FreeConn
        /\ \A t \in Trees : tree[t] = FreeTree
        /\ \A k \in Callers : caller[k] = Resting
        /\ \A p \in {"sweeper", "close"} : goodbye[p] = Silent
    BY <1>1
  <1>5. ConnOK(FreeConn)
    BY DEF ConnOK, FreeConn
  <1>6. TreeOK(FreeTree, conn)
    BY DEF TreeOK, FreeTree
  <1>7. CallerOK(Resting, conn, tree)
    BY DEF CallerOK, Resting, Inside
  <1>8. GoodbyeOK(Silent, conn)
    BY DEF GoodbyeOK, Silent
  <1>9. CachesOK(slot, conn, tree, caller, goodbye)
    BY <1>4 DEF CachesOK, FreeConn
  <1>10. SlotOK(client, slot, conn, caller)
    BY <1>1, <1>4 DEF SlotOK, FreeConn, Resting, Empty, Ready, Dialing
  <1>11. Apart(slot, goodbye) /\ Spared(slot, idle, caller, goodbye)
    BY <1>1, <1>4 DEF Apart, Spared, Empty, Ready, Silent, Resting
  <1>12. idle \in 0 .. EvictAfter
    BY <1>1, ClientAssumption
  <1> QED
    BY <1>1, <1>3, <1>4, <1>5, <1>6, <1>7, <1>8, <1>9, <1>10, <1>11, <1>12 DEF Inv,
       Sound

\* Every step keeps the invariant.
LEMMA NextInv ==
    ASSUME Inv, [Next]_vars
    PROVE  Inv'
  <1>1. ASSUME NEW k \in Callers, Acquire(k) PROVE Inv'
    BY <1>1, MeetInv, JoinInv, StartDialInv, ProbeInv, ForgetInv, WaitedInv, LeavesInv
       DEF Acquire
  <1>2. ASSUME NEW k \in Callers, TreeOn(k) PROVE Inv'
    BY <1>2, FindsInv, LeavesInv, ConnectedInv DEF TreeOn
  <1>3. ASSUME NEW k \in Callers, Uses(k) PROVE Inv'
    BY <1>3, ServerInv, LeavesInv DEF Uses
  <1>4. ASSUME NEW c \in Conns, DialTask(c) PROVE Inv'
    BY <1>4, DialledInv, PublishedInv, DialFailsInv DEF DialTask
  <1>5. ASSUME NEW p \in {"sweeper", "close"}, Teardown(p) PROVE Inv'
    <2>1. CASE GoodbyeOver(p)
      BY <2>1, GoodbyeEndsInv DEF GoodbyeOver
    <2> QED
      BY <1>5, <2>1, DrainedInv, LogsOffInv DEF Teardown
  <1>6. CASE SweeperAborted
    BY <1>6, GoodbyeEndsInv DEF SweeperAborted
  <1>7. CASE UNCHANGED vars
    BY <1>7 DEF vars, Inv
  <1>8. CASE Over
    BY <1>7, <1>8 DEF Over
  <1>9. DOMAIN goodbye = {"sweeper", "close"}
    BY Facts
  <1> QED
    BY <1>1, <1>2, <1>3, <1>4, <1>5, <1>6, <1>7, <1>8, <1>9, SweepsInv, CloseInv,
       DroppedInv, ServerInv, TimePassesInv DEF Next

\* The invariant holds in every state of every behaviour of the cache.
THEOREM Invariance == Spec => []Inv
  BY InitInv, NextInv, PTL DEF Spec

\* The types, and the slot holds what it says it holds: a dial while it says
\* Dialing, a connection that was dialled while it says Ready (client.rs:236).
THEOREM TypeCorrect == Spec => []TypeOK
  <1>1. Inv => TypeOK
    <2> SUFFICES ASSUME Inv PROVE TypeOK
      OBVIOUS
    <2>1. /\ slot.kind = "dialing" => conn[slot.conn].phase = "dialing"
          /\ slot.kind = "ready" => conn[slot.conn].phase \in {"publishing", "up"}
      BY Facts DEF SlotOK, There, Empty, Ready, Dialing
    <2> QED
      BY <2>1, Facts DEF TypeOK, ConnType, TreeType, CallerType, GoodbyeType
  <1> QED
    BY <1>1, Invariance, PTL

\* One dial at a time, and the slot says Dialing exactly while it runs; a client
\* that was closed caches nothing, a dial that ends after it included
\* (client.rs:596, :255).
THEOREM OneDial == Spec => []SingleFlight
  <1>1. Inv => SingleFlight
    <2> SUFFICES ASSUME Inv PROVE SingleFlight
      OBVIOUS
    <2> DEFINE D == {c \in Conns : conn[c].phase = "dialing"}
    <2>1. SlotOK(client, slot, conn, caller)
      BY Facts
    <2>2. Cardinality(D) <= 1
      <3>1. CASE D = {}
        BY <3>1, FS_EmptySet
      <3>2. ASSUME NEW c \in D PROVE Cardinality(D) <= 1
        <4>1. D = {c}
          BY <2>1, <3>2 DEF SlotOK
        <4>2. Cardinality({c}) = 1
          BY FS_Singleton
        <4> QED
          BY <4>1, <4>2
      <3> QED
        BY <3>1, <3>2
    <2> QED
      BY <2>1, <2>2 DEF SlotOK, SingleFlight
  <1> QED
    BY <1>1, Invariance, PTL

\* No LOGOFF_ANDX goes out on a connection that a task has a tree on, or is about
\* to (client.rs:804): with any number of tasks, trees and connections.
THEOREM NobodyDisturbed == Spec => []Undisturbed
  <1>1. Inv => Undisturbed
    <2> SUFFICES ASSUME Inv, NEW c \in Conns, conn[c].logoffs > 0
                 PROVE  /\ \A k \in Callers : caller[k].conn # c
                        /\ \A t \in Trees : ~(tree[t].open /\ tree[t].conn = c)
      BY DEF Undisturbed
    <2>1. conn[c].logoffs # 0 /\ c # None
      BY Facts DEF ConnType
    <2> QED
      BY <2>1, Facts DEF CallerOK, TreeOK
  <1> QED
    BY <1>1, Invariance, PTL

\* An awaited teardown and the Drop behind it never both log off (client.rs:278).
THEOREM LogsOffOnce == Spec => []OneGoodbye
  <1>1. Inv => OneGoodbye
    <2> SUFFICES ASSUME Inv, NEW c \in Conns PROVE conn[c].logoffs <= 1
      BY DEF OneGoodbye
    <2>1. conn[c].logoffs \in Nat /\ (conn[c].logoffs > 0 => conn[c].logoffs = 1)
      BY Facts DEF ConnOK, ConnType
    <2> QED
      BY <2>1
  <1> QED
    BY <1>1, Invariance, PTL

\* A step of one task moves that task alone, and sends it back to look only where
\* it forgets an entry.
LEMMA TaskSteps ==
    ASSUME Inv, NEW k \in Callers, Acquire(k) \/ TreeOn(k) \/ Uses(k)
    PROVE  /\ \A j \in Callers : j # k => caller'[j] = caller[j]
           /\ caller'[k].pc = "look" => Forget(k) \/ caller'[k] = caller[k]
  <1>1. caller \in [Callers -> CallerType]
    BY Facts
  <1>2. ASSUME NEW pc, NEW c, Becomes(k, pc, c), pc # "look"
        PROVE  /\ \A j \in Callers : j # k => caller'[j] = caller[j]
               /\ caller'[k].pc # "look"
    BY <1>1, <1>2 DEF Becomes
  <1>3. ASSUME NEW t, HandOut(k, t)
        PROVE  /\ \A j \in Callers : j # k => caller'[j] = caller[j]
               /\ caller'[k].pc # "look"
    BY <1>1, <1>3 DEF HandOut, CallerType
  <1>4. CASE Meet(k)
    BY <1>2, <1>4 DEF Meet
  <1>5. CASE Join(k) \/ ProbeAnswered(k) \/ ProbeFails(k) \/ GivesUp(k)
    BY <1>2, <1>5 DEF Join, ProbeAnswered, ProbeFails, GivesUp
  <1>6. CASE \E c \in Conns : StartDial(k, c)
    BY <1>2, <1>6 DEF StartDial
  <1>7. CASE Forget(k)
    BY <1>1, <1>7 DEF Forget, Becomes
  <1>8. CASE Waited(k)
    BY <1>2, <1>8 DEF Waited
  <1>9. CASE FindsTree(k) \/ FindsNoTree(k) \/ ConnectFails(k)
    BY <1>2, <1>3, <1>9 DEF FindsTree, FindsNoTree, ConnectFails
  <1>10. CASE \E t \in Trees : Connected(k, t)
    BY <1>3, <1>10 DEF Connected
  <1>11. CASE Learns(k) \/ LetsGo(k) \/ Listed(k)
    BY <1>2, <1>11 DEF Learns, LetsGo, Listed
  <1> QED
    BY <1>4, <1>5, <1>6, <1>7, <1>8, <1>9, <1>10, <1>11 DEF Acquire, TreeOn, Uses

\* A task that found its entry dead empties the slot only of that entry: the
\* connection another task has dialled since stays (client.rs:690).
THEOREM ForgetsOnlyOwn == Spec => ForgetsOwn
  <1> DEFINE A == \A k \in Callers :
                    caller[k].pc = "ended" /\ caller'[k].pc = "look" /\ slot' # slot
                      => slot = Ready(caller[k].conn)
  <1>1. ASSUME Inv, [Next]_vars PROVE [A]_vars
    <2>1. CASE UNCHANGED caller
      BY <2>1
    <2>2. ASSUME NEW k \in Callers, Acquire(k) \/ TreeOn(k) \/ Uses(k) PROVE A
      <3> SUFFICES ASSUME NEW j \in Callers, caller[j].pc = "ended", caller'[j].pc = "look",
                          slot' # slot
                   PROVE  slot = Ready(caller[j].conn)
        OBVIOUS
      <3>1. j = k /\ Forget(k)
        BY <1>1, <2>2, TaskSteps
      <3> QED
        BY <3>1 DEF Forget, Forgotten
    <2>3. UNCHANGED caller \/ \E k \in Callers : Acquire(k) \/ TreeOn(k) \/ Uses(k)
      BY <1>1 DEF Next, vars, DialTask, Dialled, Published, DialFails, Teardown, Drained,
                  LogsOff, GoodbyeOver, Sweeps, Close, SweeperAborted, DropClient,
                  InnerDrops, Dies, Discards, TimePasses, Over
    <2> QED
      BY <2>1, <2>2, <2>3
  <1> QED
    BY <1>1, Invariance, PTL DEF Spec, ForgetsOwn

-----------------------------------------------------------------------------
(* The handshake a dial begins with: Session.tla, for any tokens,           *)
(* challenges, capabilities and timeout that meet its assumption.           *)

\* Every reply a server may send.
Replies == NegotiateReplies \cup SetupReplies \cup ChallengeReplies

\* How many legs are behind the handshake.
Behind == CASE leg = "negotiate" -> 0 [] leg = "first" -> 1 [] leg = "second" -> 2

\* The token of a reply is refused, or the message it carries is.
Unreadable(bytes) ==
    \/ ReadToken[bytes].error # "none" \/ Len(ReadToken[bytes].value) = 0
    \/ ChallengeParse(Challenges[ReadToken[bytes].value[1]]) # "none"

\* A reply that asks for more, with a challenge the client could read.
AskedForMore(reply) ==
    reply.header.status = "MORE_PROCESSING_REQUIRED" /\ ~Unreadable(reply.blob)

\* The last word of the server, and the session as that word granted it.
Granted ==
    LET last == replies[Len(replies)]
    IN  /\ last.header.status = "SUCCESS" /\ last.header.ntStatus
        /\ session.uid = last.header.uid
        /\ session.guest = last.guest /\ (last.guest => allowGuest)
        /\ actor = replies[1].buffer

\* Where the handshake is against what was sent and what was read: a leg is begun
\* once the reply to the one before was accepted, and its request built of it.
HandshakeInv ==
    /\ leg \in {"negotiate", "first", "second"} /\ phase \in {"write", "read"}
    /\ (\E S : wire \in Seq(S)) /\ replies \in Seq(Replies)
    /\ Len(wire) = IF phase = "read" THEN Behind + 1 ELSE Behind
    /\ Len(replies) = Behind \/ (Len(replies) = Behind + 1 /\ phase = "read")
    /\ outcome = "none" => Len(replies) = Behind
    /\ Behind >= 1 => Acceptable(replies[1])
    /\ Behind = 2 => AskedForMore(replies[2]) /\ replies[2] \in SetupReplies \cup ChallengeReplies
    /\ Len(wire) = 3 => /\ wire[3].uid = replies[2].header.uid
                        /\ wire[3].capabilities = Claimed
    /\ outcome = "session" => /\ leg # "negotiate" /\ Len(replies) = Len(wire)
                              /\ Granted
    /\ outcome # "session" => session = NoSession /\ actor = 0

-----------------------------------------------------------------------------
(* What the client accepts of a server. *)

\* The fields of a reply, by the set it is from.
LEMMA ReplyTypes ==
    /\ \A reply \in NegotiateReplies : reply.buffer \in Int
    /\ \A reply \in SetupReplies : reply.header.status \in Statuses /\ reply.blob = <<>>
    /\ \A reply \in ChallengeReplies :
         /\ reply.header.status \in Statuses
         /\ \E blob \in Blobs : reply.blob = blob.bytes /\ reply.carries = blob.carries
  <1>1. \A reply \in NegotiateReplies : reply.buffer \in Int
    BY SessionAssumption DEF NegotiateReplies
  <1>2. \A header \in Header : header.status \in Statuses
    BY DEF Header
  <1>3. \A reply \in SetupReplies : reply.header.status \in Statuses /\ reply.blob = <<>>
    <2>1. /\ GoodSetup.header.status = "SUCCESS" /\ "SUCCESS" \in Statuses
          /\ GoodSetup.blob = <<>>
      BY DEF GoodSetup, Statuses
    <2> DEFINE granted(uid, guest) == [GoodSetup EXCEPT !.header.uid = uid, !.guest = guest]
               headed(header) == [GoodSetup EXCEPT !.header = header]
               broken == [GoodSetup EXCEPT !.decodes = FALSE]
    <2>2. \A uid \in Uids, guest \in BOOLEAN :
            /\ granted(uid, guest).header.status \in Statuses
            /\ granted(uid, guest).blob = <<>>
      BY <2>1 DEF GoodSetup
    <2>3. \A header \in Header : /\ headed(header).header.status \in Statuses
                                 /\ headed(header).blob = <<>>
      BY <1>2 DEF GoodSetup
    <2>4. broken.header.status \in Statuses /\ broken.blob = <<>>
      BY <2>1 DEF GoodSetup
    <2>5. SetupReplies = {granted(uid, guest) : uid \in Uids, guest \in BOOLEAN}
                           \cup {headed(header) : header \in Header} \cup {broken}
      BY DEF SetupReplies
    <2> HIDE DEF granted, headed, broken
    <2> QED
      BY <2>2, <2>3, <2>4, <2>5
  <1>4. \A reply \in ChallengeReplies :
          /\ reply.header.status \in Statuses
          /\ \E blob \in Blobs : reply.blob = blob.bytes /\ reply.carries = blob.carries
    <2> DEFINE asking(uid, blob) ==
                 [GoodSetup EXCEPT !.header.status = "MORE_PROCESSING_REQUIRED",
                                   !.header.uid = uid, !.blob = blob.bytes,
                                   !.carries = blob.carries]
    <2>1. \A uid \in Uids, blob \in Blobs :
            /\ asking(uid, blob).header.status \in Statuses
            /\ asking(uid, blob).blob = blob.bytes
            /\ asking(uid, blob).carries = blob.carries
      BY DEF GoodSetup, Statuses
    <2>2. ChallengeReplies = {asking(uid, blob) : uid \in Uids, blob \in Blobs}
      BY DEF ChallengeReplies
    <2> HIDE DEF asking
    <2> QED
      BY <2>1, <2>2
  <1> QED
    BY <1>1, <1>3, <1>4

\* A reply that negotiate() does not refuse meets every requirement.
LEMMA NegotiateIs ==
    ASSUME NEW reply \in NegotiateReplies,
           NegotiateRefusal(reply) = "none"
    PROVE  Acceptable(reply)
  <1>1. /\ Malformed(reply) = "none" /\ reply.header.status = "SUCCESS"
        /\ DialectRefusal(reply) = "none" /\ Required \subseteq reply.capabilities
        /\ reply.user /\ ~reply.signing /\ ~(reply.buffer < MinMaxBufferSize)
    BY DEF NegotiateRefusal
  <1>2. reply.dialect = 0
    BY <1>1 DEF DialectRefusal
  <1>3. reply.buffer >= MinMaxBufferSize
    BY <1>1, ReplyTypes, SessionAssumption
  <1> QED
    BY <1>1, <1>2, <1>3 DEF Acceptable

\* A first reply that is not refused grants the session or asks for more.
LEMMA FirstIs ==
    ASSUME NEW reply \in SetupReplies \cup ChallengeReplies,
           FirstRefusal(reply) = "none"
    PROVE  /\ reply.header.ntStatus
           /\ reply.header.status # "SUCCESS" => AskedForMore(reply)
  <1>1. /\ Malformed(reply) = "none" /\ reply.header.status # "LOGON_FAILURE"
        /\ reply.header.status = "MORE_PROCESSING_REQUIRED" =>
             ChallengeRefusal(reply, ReadToken[reply.blob]) = "none"
    BY DEF FirstRefusal
  <1>2. reply.header.ntStatus
    BY <1>1 DEF Malformed
  <1>3. reply.header.status \in Statuses
    BY ReplyTypes
  <1>4. ASSUME reply.header.status # "SUCCESS" PROVE AskedForMore(reply)
    BY <1>1, <1>3, <1>4 DEF Statuses, AskedForMore, ChallengeRefusal,
       Challenge, Unreadable
  <1> QED
    BY <1>2, <1>4

\* A second reply that is not refused grants the session.
LEMMA SecondIs ==
    ASSUME NEW reply, SecondRefusal(reply) = "none"
    PROVE  reply.header.ntStatus /\ reply.header.status = "SUCCESS"
  <1>1. Malformed(reply) = "none" /\ reply.header.status = "SUCCESS"
    BY DEF SecondRefusal
  <1> QED
    BY <1>1 DEF Malformed

-----------------------------------------------------------------------------
(* The steps. *)

\* The invariant holds before anything was sent.
LEMMA HandshakeInit == SessionInit => HandshakeInv
  <1> SUFFICES ASSUME SessionInit PROVE HandshakeInv
    OBVIOUS
  <1>1. Behind = 0
    BY DEF SessionInit, Behind
  <1>2. (\E S : wire \in Seq(S)) /\ replies \in Seq(Replies) /\ Len(wire) = 0 /\ Len(replies) = 0
    <2>1. wire \in Seq({})
      BY DEF SessionInit
    <2> QED
      BY <2>1 DEF SessionInit
  <1> QED
    BY <1>1, <1>2 DEF SessionInit, HandshakeInv

\* How many legs are behind is a number.
LEMMA BehindIs ==
    ASSUME HandshakeInv
    PROVE  /\ Behind \in {0, 1, 2} /\ Len(wire) \in Nat /\ Len(replies) \in Nat
           /\ Behind = 0 <=> leg = "negotiate"
           /\ Behind = 1 <=> leg = "first"
           /\ Behind = 2 <=> leg = "second"
  BY DEF HandshakeInv, Behind

\* The third request is that of the last leg.
LEMMA ThirdIs ==
    ASSUME NEW behind \in {0, 1, 2}, NEW sent, sent = behind + 1, sent = 3
    PROVE  behind = 2
  OBVIOUS

\* A request goes out.
LEMMA SentInv ==
    ASSUME HandshakeInv, Send
    PROVE  HandshakeInv'
  <1> DEFINE request == CASE leg = "negotiate" -> NegotiateRequest
                          [] leg = "first" -> FirstLeg
                          [] leg = "second" -> SecondLeg
  <1>1. /\ outcome = "none" /\ phase = "write" /\ wire' = Append(wire, request)
        /\ phase' = "read" /\ leg' = leg /\ replies' = replies
        /\ UNCHANGED <<allowGuest, outcome, session, actor>>
    BY DEF Send
  <1>2. leg = "second" => /\ request.uid = replies[2].header.uid
                          /\ request.capabilities = Claimed
    BY DEF SecondLeg
  <1> HIDE DEF request
  <1>3. /\ leg \in {"negotiate", "first", "second"} /\ replies \in Seq(Replies)
        /\ Len(wire) = Behind /\ Len(replies) = Behind
        /\ Behind >= 1 => Acceptable(replies[1])
        /\ Behind = 2 => AskedForMore(replies[2]) /\ replies[2] \in SetupReplies \cup ChallengeReplies
        /\ session = NoSession /\ actor = 0
    BY <1>1 DEF HandshakeInv
  <1>4. PICK S : wire \in Seq(S)
    BY DEF HandshakeInv
  <1>5. /\ wire' \in Seq(S \cup {request}) /\ Len(wire') = Behind + 1
        /\ wire'[Behind + 1] = request
    <2>1. wire \in Seq(S \cup {request})
      BY <1>4
    <2> QED
      BY <1>1, <1>3, <2>1
  <1>6. Behind' = Behind /\ Claimed' = Claimed /\ (\E T : wire' \in Seq(T))
    BY <1>1, <1>5 DEF Behind, Claimed
  <1>7. Len(wire') = 3 => wire'[3].uid = replies[2].header.uid /\ wire'[3].capabilities = Claimed
    <2>1. Behind \in {0, 1, 2} /\ (Behind = 2 => leg = "second")
      BY BehindIs
    <2>2. Len(wire') = 3 => Behind = 2
      BY <1>5, <2>1, ThirdIs
    <2> QED
      BY <1>2, <1>5, <2>1, <2>2
  <1> QED
    BY <1>1, <1>3, <1>5, <1>6, <1>7 DEF HandshakeInv, Acceptable,
       AskedForMore, Unreadable

\* A reply is read, and with it the replies before it stay as they were.
LEMMA ReplyIs ==
    ASSUME HandshakeInv, NEW l, Reading(l),
           NEW reply \in Replies, replies' = Append(replies, reply)
    PROVE  /\ leg = l /\ outcome = "none" /\ phase = "read" /\ Len(wire) = Behind + 1
           /\ replies' \in Seq(Replies) /\ Len(replies) = Behind
           /\ Len(replies') = Behind + 1 /\ replies'[Behind + 1] = reply
           /\ \A i \in 1 .. Behind : replies'[i] = replies[i]
           /\ session = NoSession /\ actor = 0
  <1>1. /\ leg = l /\ outcome = "none" /\ phase = "read" /\ replies \in Seq(Replies)
        /\ Len(wire) = Behind + 1 /\ Len(replies) = Behind
        /\ session = NoSession /\ actor = 0
    BY DEF HandshakeInv, Reading
  <1>2. /\ replies' \in Seq(Replies) /\ Len(replies') = Len(replies) + 1
        /\ replies'[Len(replies) + 1] = reply
        /\ \A i \in 1 .. Len(replies) : replies'[i] = replies[i]
    BY <1>1
  <1> QED
    BY <1>1, <1>2

\* The replies accepted so far, as the next state has them.
LEMMA EarlierStay ==
    ASSUME HandshakeInv, \A i \in 1 .. Behind : replies'[i] = replies[i]
    PROVE  /\ Behind >= 1 => Acceptable(replies'[1])
           /\ Behind = 2 => /\ AskedForMore(replies'[2]) /\ Claimed' = Claimed
                            /\ replies'[2] = replies[2]
                            /\ replies'[2] \in SetupReplies \cup ChallengeReplies
  <1>1. Behind \in {0, 1, 2}
    BY BehindIs
  <1>2. Behind >= 1 => replies'[1] = replies[1] /\ Acceptable(replies[1])
    BY <1>1 DEF HandshakeInv
  <1>3. Behind = 2 => /\ replies'[2] = replies[2] /\ AskedForMore(replies[2])
                      /\ replies[2] \in SetupReplies \cup ChallengeReplies
    BY <1>1 DEF HandshakeInv
  <1> QED
    BY <1>1, <1>2, <1>3 DEF Claimed

\* A reply is refused.
LEMMA RefuseInv ==
    ASSUME HandshakeInv, NEW l, Reading(l), NEW reply \in Replies,
           NEW error, error # "session",
           Refuse(reply, error)
    PROVE  HandshakeInv'
  <1>1. /\ error # "none" /\ outcome' = error /\ replies' = Append(replies, reply)
        /\ UNCHANGED <<leg, phase, wire, session, actor>>
    BY DEF Refuse
  <1>2. /\ phase = "read" /\ Len(wire) = Behind + 1
        /\ replies' \in Seq(Replies) /\ Len(replies') = Behind + 1
        /\ \A i \in 1 .. Behind : replies'[i] = replies[i]
        /\ session = NoSession /\ actor = 0
    BY <1>1, ReplyIs
  <1>3. Behind' = Behind
    BY <1>1 DEF Behind
  <1>4. /\ leg \in {"negotiate", "first", "second"} /\ (\E S : wire \in Seq(S))
        /\ Len(wire) = 3 => wire[3].uid = replies[2].header.uid /\ wire[3].capabilities = Claimed
    BY DEF HandshakeInv
  <1>5. /\ Behind >= 1 => Acceptable(replies'[1])
        /\ Behind = 2 => /\ AskedForMore(replies'[2]) /\ Claimed' = Claimed
                         /\ replies'[2] = replies[2]
                         /\ replies'[2] \in SetupReplies \cup ChallengeReplies
    BY <1>2, EarlierStay
  <1>6. Len(wire) = 3 => Behind = 2
    <2>1. Behind \in {0, 1, 2}
      BY BehindIs
    <2> QED
      BY <1>2, <2>1, ThirdIs
  <1> QED
    BY <1>1, <1>2, <1>3, <1>4, <1>5, <1>6 DEF HandshakeInv

\* A reply is accepted and the next leg begins.
LEMMA GoOnInv ==
    ASSUME HandshakeInv, NEW l, Reading(l), NEW reply \in Replies, NEW next,
           GoOn(reply, next),
           \/ l = "negotiate" /\ next = "first" /\ Acceptable(reply)
           \/ /\ l = "first" /\ next = "second" /\ AskedForMore(reply)
              /\ reply \in SetupReplies \cup ChallengeReplies
    PROVE  HandshakeInv'
  <1>1. /\ replies' = Append(replies, reply) /\ leg' = next /\ phase' = "write"
        /\ UNCHANGED <<wire, outcome, session, actor>>
    BY DEF GoOn
  <1>2. /\ leg = l /\ outcome = "none" /\ phase = "read" /\ Len(wire) = Behind + 1
        /\ replies' \in Seq(Replies) /\ Len(replies') = Behind + 1
        /\ replies'[Behind + 1] = reply
        /\ \A i \in 1 .. Behind : replies'[i] = replies[i]
        /\ session = NoSession /\ actor = 0
    BY <1>1, ReplyIs
  <1>3. /\ Behind \in {0, 1} /\ Behind' = Behind + 1
        /\ Behind = 0 => l = "negotiate"
        /\ Behind = 1 => l = "first"
    BY <1>1, <1>2 DEF Behind
  <1>4. \E S : wire \in Seq(S)
    BY DEF HandshakeInv
  <1>5. Behind >= 1 => Acceptable(replies'[1])
    BY <1>2, EarlierStay
  <1>6. /\ Behind' >= 1 => Acceptable(replies'[1])
        /\ Behind' = 2 => AskedForMore(replies'[2]) /\ replies'[2] \in SetupReplies \cup ChallengeReplies
    BY <1>2, <1>3, <1>5
  <1>7. Len(wire') = Behind' /\ Len(wire') # 3 /\ Len(replies') = Behind'
    BY <1>1, <1>2, <1>3
  <1> QED
    BY <1>1, <1>2, <1>4, <1>6, <1>7 DEF HandshakeInv

\* The last reply is accepted: a session, or a guest who is not let in.
LEMMA FinishedInv ==
    ASSUME HandshakeInv, NEW l \in {"first", "second"}, Reading(l),
           NEW reply \in Replies,
           reply.header.status = "SUCCESS", reply.header.ntStatus, Establish(reply)
    PROVE  HandshakeInv'
  <1>1. /\ replies' = Append(replies, reply) /\ UNCHANGED <<allowGuest, leg, phase, wire>>
    BY DEF Establish
  <1>2. /\ leg = l /\ phase = "read" /\ Len(wire) = Behind + 1
        /\ replies' \in Seq(Replies) /\ Len(replies') = Behind + 1
        /\ replies'[Behind + 1] = reply
        /\ \A i \in 1 .. Behind : replies'[i] = replies[i]
        /\ session = NoSession /\ actor = 0
    BY <1>1, ReplyIs
  <1>3. Behind' = Behind /\ Behind \in {1, 2}
    BY <1>1, <1>2 DEF Behind
  <1>4. /\ (\E S : wire \in Seq(S))
        /\ Len(wire) = 3 => wire[3].uid = replies[2].header.uid /\ wire[3].capabilities = Claimed
    BY DEF HandshakeInv
  <1>5. /\ Behind >= 1 => Acceptable(replies'[1])
        /\ Behind = 2 => /\ AskedForMore(replies'[2]) /\ Claimed' = Claimed
                         /\ replies'[2] = replies[2]
                         /\ replies'[2] \in SetupReplies \cup ChallengeReplies
    BY <1>2, EarlierStay
  <1>6. \/ outcome' = "GuestLogon" /\ session' = NoSession /\ actor' = 0
        \/ outcome' = "session" /\ Granted'
    <2>1. CASE reply.guest /\ ~allowGuest
      BY <1>2, <2>1 DEF Establish
    <2>2. CASE ~(reply.guest /\ ~allowGuest)
      <3>1. /\ outcome' = "session" /\ actor' = replies[1].buffer
            /\ session' = [uid |-> reply.header.uid, guest |-> reply.guest,
                           buffer |-> replies[1].buffer]
        BY <2>2 DEF Establish
      <3>2. replies'[1] = replies[1] /\ replies'[Len(replies')] = reply
        BY <1>2, <1>3
      <3> QED
        BY <1>1, <2>2, <3>1, <3>2 DEF Granted
    <2> QED
      BY <2>1, <2>2
  <1> QED
    BY <1>1, <1>2, <1>3, <1>4, <1>5, <1>6 DEF HandshakeInv

\* Every step keeps the invariant.
LEMMA HandshakeNext ==
    ASSUME HandshakeInv, [SessionNext]_sessionVars
    PROVE  HandshakeInv'
  <1>1. CASE UNCHANGED sessionVars
    BY <1>1 DEF sessionVars, HandshakeInv, Behind, Acceptable, AskedForMore,
       Unreadable, Claimed, Granted
  <1>2. CASE IoFails \/ Tick \/ Expire
    <2>1. /\ UNCHANGED <<allowGuest, leg, phase, wire, replies, session, actor>>
          /\ outcome = "none" /\ outcome' # "session"
      BY <1>2 DEF IoFails, Tick, Expire
    <2> QED
      BY <2>1 DEF HandshakeInv, Behind, Acceptable, AskedForMore, Unreadable, Claimed
  <1>3. ASSUME NEW reply \in NegotiateReplies,
               Negotiate(reply) PROVE HandshakeInv'
    <2>1. /\ Reading("negotiate") /\ reply \in Replies
          /\ \/ Refuse(reply, NegotiateRefusal(reply))
             \/ NegotiateRefusal(reply) = "none" /\ GoOn(reply, "first")
      BY <1>3 DEF Negotiate, Replies
    <2>2. NegotiateRefusal(reply) # "session"
      BY DEF NegotiateRefusal, Malformed, DialectRefusal
    <2> QED
      BY <2>1, <2>2, NegotiateIs, RefuseInv, GoOnInv
  <1>4. ASSUME NEW reply \in SetupReplies \cup ChallengeReplies,
               SetupFirst(reply) PROVE HandshakeInv'
    <2>1. /\ Reading("first") /\ reply \in Replies
          /\ \/ Refuse(reply, FirstRefusal(reply))
             \/ /\ FirstRefusal(reply) = "none" /\ reply.header.status = "SUCCESS"
                /\ Establish(reply)
             \/ /\ FirstRefusal(reply) = "none" /\ reply.header.status # "SUCCESS"
                /\ GoOn(reply, "second")
      BY <1>4 DEF SetupFirst, Replies
    <2>2. FirstRefusal(reply) # "session"
      BY DEF FirstRefusal, Malformed, ChallengeRefusal
    <2> QED
      BY <2>1, <2>2, FirstIs, RefuseInv, GoOnInv, FinishedInv
  <1>5. ASSUME NEW reply \in SetupReplies,
               SetupSecond(reply) PROVE HandshakeInv'
    <2>1. /\ Reading("second") /\ reply \in Replies
          /\ \/ Refuse(reply, SecondRefusal(reply))
             \/ SecondRefusal(reply) = "none" /\ Establish(reply)
      BY <1>5 DEF SetupSecond, Replies
    <2>2. SecondRefusal(reply) # "session"
      BY DEF SecondRefusal, Malformed
    <2> QED
      BY <2>1, <2>2, SecondIs, RefuseInv, FinishedInv
  <1> QED
    BY <1>1, <1>2, <1>3, <1>4, <1>5, SentInv DEF SessionNext, KeepAlive, SessionOver

\* The invariant holds in every state of every handshake.
THEOREM HandshakeInvariance == SessionSpec => []HandshakeInv
  BY HandshakeInit, HandshakeNext, PTL DEF SessionSpec

\* A session is one the server granted with its last word, under that word's uid,
\* as a guest only where the caller allowed it, over an actor whose buffer is at
\* least the minimum; on every other way out there is none (session.rs:9, :30).
THEOREM SessionsAreEarned == SessionSpec => []SessionEarned
  <1>1. HandshakeInv => SessionEarned
    <2> SUFFICES ASSUME HandshakeInv PROVE SessionEarned
      OBVIOUS
    <2>1. CASE outcome = "session"
      <3>1. leg # "negotiate" /\ Len(replies) = Len(wire) /\ Granted
        BY <2>1 DEF HandshakeInv
      <3>2. Behind >= 1
        BY <3>1, BehindIs
      <3>3. Acceptable(replies[1])
        BY <3>2 DEF HandshakeInv
      <3> QED
        BY <2>1, <3>1, <3>3 DEF SessionEarned, Granted, Acceptable
    <2>2. CASE outcome # "session"
      BY <2>2 DEF HandshakeInv, SessionEarned
    <2> QED
      BY <2>1, <2>2
  <1> QED
    BY <1>1, HandshakeInvariance, PTL

\* What the constants say of the tokens: one that carries no challenge is refused,
\* and so is a reply without one.  AnswersTheChallenge checks it of the tokens of
\* the run, by reading them.
TokensTold ==
    /\ [bytes |-> <<>>, carries |-> Nothing] \in Blobs
    /\ \A blob \in Blobs : blob.carries = Nothing => Unreadable(blob.bytes)

\* A reply that carries nothing to the first leg cannot be read as a challenge.
LEMMA CarriesIs ==
    ASSUME TokensTold,
           NEW reply \in SetupReplies \cup ChallengeReplies,
           reply.carries = Nothing
    PROVE  Unreadable(reply.blob)
  <1>1. Unreadable(<<>>)
    BY DEF TokensTold
  <1>2. \A r \in SetupReplies : r.blob = <<>>
    BY ReplyTypes
  <1>3. \A r \in ChallengeReplies : \E blob \in Blobs : r.blob = blob.bytes /\ r.carries = blob.carries
    BY ReplyTypes
  <1>4. CASE reply \in SetupReplies
    BY <1>1, <1>2, <1>4
  <1>5. CASE reply \in ChallengeReplies
    <2>1. PICK blob \in Blobs : reply.blob = blob.bytes /\ reply.carries = blob.carries
      BY <1>3, <1>5
    <2>2. Unreadable(blob.bytes)
      BY <2>1 DEF TokensTold
    <2> QED
      BY <2>1, <2>2
  <1> QED
    BY <1>4, <1>5

\* The credentials go out only to a server that met every requirement and issued a
\* challenge the client could read, under the uid the challenge came with, and
\* claim no large reads or writes that it did not offer (session.rs:18, :376).
THEOREM CredentialsAreKept ==
    ASSUME TokensTold
    PROVE  SessionSpec => []CredentialsKept
  <1>1. HandshakeInv => CredentialsKept
    <2> SUFFICES ASSUME HandshakeInv, Len(wire) = 3
                 PROVE  /\ Acceptable(replies[1])
                        /\ replies[2].header.status = "MORE_PROCESSING_REQUIRED"
                        /\ replies[2].carries # Nothing
                        /\ wire[3].uid = replies[2].header.uid
                        /\ wire[3].capabilities \cap Large \subseteq replies[1].capabilities
      BY DEF CredentialsKept
    <2>1. Behind \in {0, 1, 2} /\ Len(wire) = IF phase = "read" THEN Behind + 1 ELSE Behind
      BY BehindIs DEF HandshakeInv
    <2>2. Behind = 2
      BY <2>1, ThirdIs
    <2>3. Acceptable(replies[1])
      BY <2>2 DEF HandshakeInv
    <2>4. AskedForMore(replies[2]) /\ replies[2] \in SetupReplies \cup ChallengeReplies
      BY <2>2 DEF HandshakeInv
    <2>5. wire[3].uid = replies[2].header.uid /\ wire[3].capabilities = Claimed
      BY DEF HandshakeInv
    <2>6. wire[3].capabilities \cap Large \subseteq replies[1].capabilities
      BY <2>5, SessionAssumption DEF Claimed
    <2>7. replies[2].carries # Nothing
      BY <2>4, CarriesIs DEF AskedForMore
    <2> QED
      BY <2>3, <2>4, <2>5, <2>6, <2>7 DEF AskedForMore
  <1> QED
    BY <1>1, HandshakeInvariance, PTL

-----------------------------------------------------------------------------
(* Share enumeration, the caller of such transactions: Rpc.tla, for any     *)
(* share list, any caps and any file ids.                                   *)

\* The steps at which list_shares has a pipe to close, and those at which it
\* owns an id.
InUse == {"transact", "write", "read", "release", "close"}
Owning == InUse \cup {"reopen"}

\* What the server has under an id has the fields of a pipe.
IsPipe(p) ==
    p = [owner |-> p.owner, bound |-> p.bound, in |-> p.in, out |-> p.out]

\* The inductive invariant: the one pipe that is open is the one the step at hand
\* will close.  Only the two things the property names can part them: a request
\* that was lost, and a pipe that could not be opened again, whose id is closed
\* all the same.
PipesInv ==
    /\ step \in {"rap", "open", "done"} \cup Owning
    /\ pipes = [f \in Fids |-> pipes[f]] /\ \A f \in Fids : IsPipe(pipes[f])
    /\ step \in Owning => fid \in Fids
    /\ step \in InUse \ {"close"} => pipes[fid].owner = "pipe"
    /\ step = "close" => pipes[fid].owner = "pipe" \/ reopenFailed
    /\ ~lost => \A f \in Fids : pipes[f].owner = "pipe" => f = fid /\ step \in InUse
    /\ strayed => reopenFailed \/ lost

-----------------------------------------------------------------------------
(* Where a request leads, whatever the reply was. *)

\* A request goes out on the transport in use.
LEMMA CallLeads ==
    ASSUME NEW id, StartCall(id)
    PROVE  step' \in {"transact", "write"}
  BY DEF StartCall

LEMMA LeaveLeads ==
    ASSUME NEW error, Leave(error)
    PROVE  step' = "close"
  BY DEF Leave

\* A transport that fails leads to a fresh pipe or to the end.
LEMMA FailureLeads ==
    ASSUME TransportFails
    PROVE  step' \in {"release", "close"}
  BY DEF TransportFails, Leave

LEMMA PageLeads ==
    ASSUME NEW page, Paged(page)
    PROVE  step' \in {"transact", "write", "close"}
  BY CallLeads DEF Paged, Leave

LEMMA FinishLeads ==
    ASSUME NEW c, Finish(c)
    PROVE  step' \in {"transact", "write", "close"}
  <1>1. CASE ~c.complete
    BY <1>1, LeaveLeads DEF Finish
  <1>2. CASE c.complete /\ call = 0
    BY <1>2, LeaveLeads, CallLeads DEF Finish
  <1>3. CASE c.complete /\ call # 0 /\ c.ptype # RESPONSE
    BY <1>3, LeaveLeads DEF Finish
  <1>4. CASE c.complete /\ call # 0 /\ c.ptype = RESPONSE
    BY <1>4, PageLeads DEF Finish
  <1> QED
    BY <1>1, <1>2, <1>3, <1>4

\* What arrives leads to another call, another read, or one of the ways out.
LEMMA FedLeads ==
    ASSUME NEW units, Fed(units)
    PROVE  step' \in InUse
  BY FailureLeads, FinishLeads DEF Fed, InUse

-----------------------------------------------------------------------------
(* What a step does to the pipes. *)

\* A pipe that is used keeps its owner.
LEMMA PipesUsed ==
    ASSUME PipesInv, step \in InUse, step' \in InUse, NEW p,
           IsPipe(p), p.owner = pipes[fid].owner,
           pipes' = pipes \/ pipes' = [pipes EXCEPT ![fid] = p],
           step # "close", UNCHANGED <<fid, reopenFailed, strayed>>, lost => lost'
    PROVE  PipesInv'
  BY DEF PipesInv, InUse, Owning

\* The fields of a pipe that answered or was written to.
LEMMA PipeFields ==
    ASSUME NEW p, IsPipe(p)
    PROVE  /\ \A answer, left : /\ IsPipe(Answered(p, answer, left))
                                /\ Answered(p, answer, left).owner = p.owner
           /\ \A units : /\ IsPipe([p EXCEPT !.in = units])
                         /\ [p EXCEPT !.in = units].owner = p.owner
           /\ \A units : /\ IsPipe([p EXCEPT !.out = units])
                         /\ [p EXCEPT !.out = units].owner = p.owner
  <1> DEFINE o == p.owner
             b == p.bound
             i == p.in
             u == p.out
  <1>1. p = [owner |-> o, bound |-> b, in |-> i, out |-> u]
    BY DEF IsPipe
  <1> HIDE DEF o, b, i, u
  <1>2. ASSUME NEW c, NEW j, NEW v, NEW q, q = [owner |-> o, bound |-> c, in |-> j, out |-> v]
        PROVE  IsPipe(q) /\ q.owner = o
    BY <1>2 DEF IsPipe
  <1>3. p.owner = o
    BY DEF o
  <1>4. \A units : [p EXCEPT !.in = units] = [owner |-> o, bound |-> b, in |-> units, out |-> u]
    BY <1>1
  <1>5. \A units : [p EXCEPT !.out = units] = [owner |-> o, bound |-> b, in |-> i, out |-> units]
    BY <1>1
  <1>6. ASSUME NEW answer, NEW left
        PROVE  IsPipe(Answered(p, answer, left)) /\ Answered(p, answer, left).owner = o
    <2> DEFINE c == p.bound \/ answer[2] % 256 = BIND_ACK
               p1 == [p EXCEPT !.bound = c]
               p2 == [p1 EXCEPT !.in = <<>>]
               p3 == [p2 EXCEPT !.out = left]
    <2>1. Answered(p, answer, left) = p3
      BY DEF Answered
    <2> HIDE DEF c
    <2>2. p1 = [owner |-> o, bound |-> c, in |-> i, out |-> u]
      BY <1>1
    <2> HIDE DEF p1
    <2>3. p2 = [owner |-> o, bound |-> c, in |-> <<>>, out |-> u]
      BY <2>2
    <2> HIDE DEF p2
    <2>4. p3 = [owner |-> o, bound |-> c, in |-> <<>>, out |-> left]
      BY <2>3
    <2> HIDE DEF p3
    <2> QED
      BY <1>2, <2>1, <2>4
  <1>7. \A units : /\ IsPipe([p EXCEPT !.in = units])
                   /\ [p EXCEPT !.in = units].owner = o
    BY <1>2, <1>4
  <1>8. \A units : /\ IsPipe([p EXCEPT !.out = units])
                   /\ [p EXCEPT !.out = units].owner = o
    BY <1>2, <1>5
  <1> QED
    BY <1>3, <1>6, <1>7, <1>8

\* A pipe just opened, one of someone else's, and none.
LEMMA NewPipes ==
    /\ IsPipe(NoPipe) /\ NoPipe.owner = "nobody"
    /\ IsPipe(Opened) /\ Opened.owner = "pipe"
    /\ LET other == [NoPipe EXCEPT !.owner = "other"]
       IN  IsPipe(other) /\ other.owner = "other"
  <1> DEFINE shut == FALSE
             none == <<>>
  <1>1. NoPipe = [owner |-> "nobody", bound |-> shut, in |-> none, out |-> none]
    BY DEF NoPipe
  <1> HIDE DEF shut, none
  <1>2. ASSUME NEW o, NEW q, q = [owner |-> o, bound |-> shut, in |-> none, out |-> none]
        PROVE  IsPipe(q) /\ q.owner = o
    BY <1>2 DEF IsPipe
  <1>3. \A o : [NoPipe EXCEPT !.owner = o]
                = [owner |-> o, bound |-> shut, in |-> none, out |-> none]
    BY <1>1
  <1> QED
    BY <1>1, <1>2, <1>3 DEF Opened

LEMMA PipesInit == RpcInit => PipesInv
  BY NewPipes DEF RpcInit, PipesInv, InUse, Owning

\* A request of a pipe in use is answered.
LEMMA PipesInUse ==
    ASSUME PipesInv, Transact \/ WriteAll \/ Read
    PROVE  PipesInv'
  <1>1. /\ step \in {"transact", "write", "read"} /\ fid \in Fids
        /\ IsPipe(pipes[fid]) /\ pipes[fid].owner = "pipe"
    BY DEF PipesInv, Transact, WriteAll, Read, InUse, Owning
  <1>2. UNCHANGED <<fid, lost, reopenFailed, strayed>>
    BY DEF Transact, WriteAll, Read
  <1>3. step' \in InUse
    <2>1. CASE Transact
      BY <2>1, FailureLeads, FedLeads DEF Transact, InUse
    <2>2. CASE WriteAll
      BY <1>1, <2>2, FailureLeads DEF WriteAll, InUse
    <2>3. CASE Read
      BY <2>3, FailureLeads, FedLeads, FinishLeads DEF Read, InUse
    <2> QED
      BY <2>1, <2>2, <2>3
  <1>4. \/ pipes' = pipes
        \/ \E p : /\ pipes' = [pipes EXCEPT ![fid] = p]
                  /\ IsPipe(p) /\ p.owner = pipes[fid].owner
    <2>1. CASE Transact
      <3>1. \/ pipes' = pipes
            \/ \E answer, left :
                 pipes' = [pipes EXCEPT ![fid] = Answered(pipes[fid], answer, left)]
        BY <2>1 DEF Transact
      <3> QED
        BY <1>1, <3>1, PipeFields
    <2>2. CASE WriteAll
      <3>1. \/ pipes' = pipes
            \/ \E units : pipes' = [pipes EXCEPT ![fid] = [pipes[fid] EXCEPT !.in = units]]
            \/ \E answer, left :
                 pipes' = [pipes EXCEPT ![fid] = Answered(pipes[fid], answer, left)]
        BY <2>2 DEF WriteAll
      <3>2. CASE \E units : pipes' = [pipes EXCEPT ![fid] = [pipes[fid] EXCEPT !.in = units]]
        <4>1. PICK units : pipes' = [pipes EXCEPT ![fid] = [pipes[fid] EXCEPT !.in = units]]
          BY <3>2
        <4> DEFINE p == [pipes[fid] EXCEPT !.in = units]
        <4>2. IsPipe(p) /\ p.owner = pipes[fid].owner
          BY <1>1, PipeFields
        <4> QED
          BY <4>1, <4>2
      <3>3. CASE \E answer, left :
                   pipes' = [pipes EXCEPT ![fid] = Answered(pipes[fid], answer, left)]
        <4>1. PICK answer, left :
                pipes' = [pipes EXCEPT ![fid] = Answered(pipes[fid], answer, left)]
          BY <3>3
        <4> DEFINE p == Answered(pipes[fid], answer, left)
        <4>2. IsPipe(p) /\ p.owner = pipes[fid].owner
          BY <1>1, PipeFields
        <4> QED
          BY <4>1, <4>2
      <3> QED
        BY <3>1, <3>2, <3>3
    <2>3. CASE Read
      <3>1. \/ pipes' = pipes
            \/ \E units : pipes' = [pipes EXCEPT ![fid] = [pipes[fid] EXCEPT !.out = units]]
        BY <2>3 DEF Read
      <3>2. CASE \E units : pipes' = [pipes EXCEPT ![fid] = [pipes[fid] EXCEPT !.out = units]]
        <4>1. PICK units : pipes' = [pipes EXCEPT ![fid] = [pipes[fid] EXCEPT !.out = units]]
          BY <3>2
        <4> DEFINE p == [pipes[fid] EXCEPT !.out = units]
        <4>2. IsPipe(p) /\ p.owner = pipes[fid].owner
          BY <1>1, PipeFields
        <4> QED
          BY <4>1, <4>2
      <3> QED
        BY <3>1, <3>2
    <2> QED
      BY <2>1, <2>2, <2>3
  <1> QED
    BY <1>1, <1>2, <1>3, <1>4, PipesUsed DEF InUse

\* A pipe is opened, by open or by reopen.
LEMMA PipesOpened ==
    ASSUME PipesInv, step \in {"open", "reopen"}, NEW f \in Fids, pipes[f] = NoPipe,
           fid' = f, pipes' = [pipes EXCEPT ![f] = Opened],
           step' \in {"transact", "write"}, UNCHANGED <<lost, reopenFailed, strayed>>
    PROVE  PipesInv'
  BY NewPipes DEF PipesInv, InUse, Owning

LEMMA PipesStart ==
    ASSUME PipesInv, Rap \/ OpenPipe \/ Reopen
    PROVE  PipesInv'
  <1>1. CASE Rap
    <2>1. step = "rap" /\ step' \in {"done", "open"}
      <3>1. step = "rap"
        BY <1>1 DEF Rap
      <3>2. \/ \E error \in RapErrors :
                 IF error \in {"ConnectionLost", "TreeDisconnected"}
                 THEN step' = "done" /\ result' = error /\ UNCHANGED shares
                 ELSE step' = "open" /\ UNCHANGED <<shares, result>>
            \/ \E page : IF page.error = "none"
                         THEN shares' = page.shares /\ step' = "done" /\ result' = "ok"
                         ELSE step' = "open" /\ UNCHANGED <<shares, result>>
        BY <1>1, Zenon DEF Rap
      <3> QED
        BY <3>1, <3>2
    <2>2. UNCHANGED <<fid, pipes, lost, reopenFailed, strayed>>
      BY <1>1 DEF Rap
    <2> QED
      BY <2>1, <2>2 DEF PipesInv, InUse, Owning
  <1>2. CASE OpenPipe
    <2>1. CASE UNCHANGED <<fid, pipes, lost>> /\ step' = "done"
      BY <1>2, <2>1 DEF OpenPipe, PipesInv, InUse, Owning
    <2>2. CASE \E f \in {f \in Fids : pipes[f] = NoPipe} :
                 /\ fid' = f /\ pipes' = [pipes EXCEPT ![f] = Opened]
                 /\ StartCall(0) /\ UNCHANGED <<result, lost>>
      BY <1>2, <2>2, CallLeads, PipesOpened DEF OpenPipe
    <2> QED
      BY <1>2, <2>1, <2>2 DEF OpenPipe
  <1>3. CASE Reopen
    <2>1. CASE Leave("BothAttemptsFailed") /\ reopenFailed' = TRUE /\ UNCHANGED <<fid, pipes>>
      BY <1>3, <2>1, LeaveLeads DEF Reopen, PipesInv, InUse, Owning
    <2>2. CASE \E f \in {f \in Fids : pipes[f] = NoPipe} :
                 /\ fid' = f /\ pipes' = [pipes EXCEPT ![f] = Opened]
                 /\ StartCall(call) /\ UNCHANGED <<failure, result, reopenFailed>>
      BY <1>3, <2>2, CallLeads, PipesOpened DEF Reopen
    <2> QED
      BY <1>3, <2>1, <2>2 DEF Reopen
  <1> QED
    BY <1>1, <1>2, <1>3

\* The pipe is closed, for good or to be opened again.
LEMMA PipesClose ==
    ASSUME PipesInv, Release \/ ClosePipe
    PROVE  PipesInv'
  <1>1. /\ step \in {"release", "close"} /\ step' \in {"reopen", "done"}
        /\ step' = "reopen" => step = "release"
        /\ pipes' = [pipes EXCEPT ![fid] = NoPipe]
        /\ strayed' = (strayed \/ pipes[fid].owner = "other")
        /\ UNCHANGED <<fid, lost, reopenFailed>>
    BY DEF Release, ClosePipe, Closed
  <1>2. strayed' => reopenFailed \/ lost
    BY <1>1 DEF PipesInv, InUse
  <1> QED
    BY <1>1, <1>2, NewPipes DEF PipesInv, InUse, Owning

\* A request lapses, the caller drops the call, or someone else opens a file.
LEMMA PipesOthers ==
    ASSUME PipesInv, Lapse \/ Cancel \/ OtherOpens
    PROVE  PipesInv'
  <1>1. CASE Lapse
    <2>1. lost' = TRUE /\ UNCHANGED <<fid, strayed>>
      BY <1>1 DEF Lapse
    <2>2. CASE /\ step \in {"open", "reopen"}
               /\ \E f \in {f \in Fids : pipes[f] = NoPipe} :
                    pipes' = [pipes EXCEPT ![f] = Opened]
               /\ step' = IF step = "open" THEN "done" ELSE "close"
               /\ reopenFailed' = (reopenFailed \/ step = "reopen")
      BY <2>1, <2>2, NewPipes DEF PipesInv, InUse, Owning
    <2>3. CASE /\ step = "transact"
               /\ \E answer \in Answers(RequestOf(call), pipes[fid]) :
                    pipes' = [pipes EXCEPT ![fid] = Answered(@, answer, answer)]
               /\ TransportFails /\ UNCHANGED reopenFailed
      <3>1. fid \in Fids /\ IsPipe(pipes[fid])
        BY <2>3 DEF PipesInv, InUse, Owning
      <3>2. PICK answer : pipes' = [pipes EXCEPT ![fid] = Answered(pipes[fid], answer, answer)]
        BY <2>3
      <3>3. step' \in InUse /\ step \in InUse /\ step # "close"
        BY <2>3, FailureLeads DEF InUse
      <3> QED
        BY <2>1, <2>3, <3>1, <3>2, <3>3, PipeFields, PipesUsed
    <2>4. CASE /\ \/ step = "release" /\ step' = "reopen"
                  \/ step = "close" /\ step' = "done"
               /\ UNCHANGED <<pipes, reopenFailed>>
      BY <2>1, <2>4 DEF PipesInv, InUse, Owning
    <2> QED
      BY <1>1, <2>2, <2>3, <2>4 DEF Lapse
  <1>2. CASE Cancel
    BY <1>2 DEF Cancel, PipesInv, InUse, Owning
  <1>3. CASE OtherOpens
    <2>1. PICK f \in Fids : /\ pipes[f] = NoPipe
                            /\ pipes' = [pipes EXCEPT ![f] = [NoPipe EXCEPT !.owner = "other"]]
      BY <1>3 DEF OtherOpens
    <2>2. UNCHANGED <<step, fid, lost, reopenFailed, strayed>>
      BY <1>3 DEF OtherOpens
    <2> QED
      BY <2>1, <2>2, NewPipes DEF PipesInv, InUse, Owning
  <1> QED
    BY <1>1, <1>2, <1>3

-----------------------------------------------------------------------------
(* The theorem. *)

\* Every step keeps the open pipe and the id together.
LEMMA PipesNext == PipesInv /\ [RpcNext]_rpcVars => PipesInv'
  <1>1. ASSUME PipesInv, UNCHANGED rpcVars PROVE PipesInv'
    BY <1>1 DEF rpcVars, PipesInv
  <1> QED
    BY <1>1, PipesStart, PipesInUse, PipesClose, PipesOthers DEF RpcNext, Client

\* An enumeration that has ended left no pipe open and closed nobody else's file, but
\* for a request that lapsed or was dropped, or a pipe that could not be opened again
\* (rpc/mod.rs:226), whatever the server answers and however it cuts its replies.
THEOREM PipesAreReleased == RpcSpec => []PipesReleased
  <1>1. RpcInit => PipesInv
    BY PipesInit
  <1>2. PipesInv /\ [RpcNext]_rpcVars => PipesInv'
    BY PipesNext
  <1>3. PipesInv => PipesReleased
    BY DEF PipesInv, PipesReleased, InUse
  <1> QED
    BY <1>1, <1>2, <1>3, PTL DEF RpcSpec
=============================================================================
