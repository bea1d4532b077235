----------------------------- MODULE TreeProofs -----------------------------
(***************************************************************************)
(* Theorems about the verbs of a Tree, their listings and their handles,   *)
(* for every share, every page size, every number of file ids and calls:   *)
(*                                                                         *)
(*   Invariance     Spec => []Inv                                          *)
(*   NothingIsLeft  Spec => []NothingLeftOpen                              *)
(*   RemovedIsGone  Spec => RemovedMeansGone                               *)
(*   ClosedFirst    Spec => ClosedBeforeTouched                            *)
(*   ListsEverything Spec => []ListsAll                                    *)
(*   StaysUnder     Spec => StaysInside                                    *)
(*                                                                         *)
(* NothingLeftOpen speaks of a client at rest and says nothing of how it   *)
(* came to rest.  What every step keeps is ownership: a search the server  *)
(* holds is the one the listing will close or one the close queue names,   *)
(* never both and never twice (SearchesInv); a handle is that of the verb  *)
(* between its create and its close, of the open File, or of the queue,   *)
(* and of one of them only (HandlesInv).  At rest the queue is empty, so   *)
(* nothing is owned.  RemovedIsGone follows what a delete holds open,      *)
(* from its create to the close that unlinks it (HandlesInv); ClosedFirst  *)
(* needs that a remove_dir_all waits for each of its own closes, so that   *)
(* the queue holds only what an earlier verb left there (OpInv).           *)
(*                                                                         *)
(* ListsEverything has two halves.  A block of the wire, whatever its      *)
(* stride and its end, is refused or read as the names the server put in   *)
(* it, in order (BlockReads, CutIs: the recursive walk of the chain is the *)
(* one function that solves its equation).  And what a listing has         *)
(* returned is, as long as its search goes on, what the server takes the   *)
(* search to have returned, but for the dots and for the pages a call that *)
(* failed has cost the caller (EntriesInv); the page that ends the search  *)
(* carries all that is left.                                               *)
(*                                                                         *)
(* StaysUnder is about every node a recursive delete unlinks.  A path the  *)
(* client lets through never takes the server out of the share (StaysIn,   *)
(* ValidInside).  Of the listings it takes nothing but that their entries  *)
(* have names: a component that is no `..` never leads above where a path  *)
(* had got to, so that the names a path resolves to begin with those of    *)
(* the target, however the name of an entry is taken apart and trimmed     *)
(* (BelowMore, JoinLeads), and whatever there is at such names is under    *)
(* the target (BelowIsUnder).  A level of the delete is at such a path as  *)
(* long as no entry that it was come by climbs (LevelsInv), and no request *)
(* is for what is outside (AimInv).                                        *)
(***************************************************************************)
EXTENDS Tree, CoverageProofs

-----------------------------------------------------------------------------
(* What a program is made of.                                              *)

\* The programs and the steps of each.
Kinds == {"open", "create_dir", "remove_file", "remove_dir", "metadata", "exists",
          "read", "write", "rename", "set_path", "set_len", "statistics", "close_file"}

StepsOf(kind) ==
    CASE kind = "open" -> {"create"}
      [] kind \in {"create_dir", "remove_file"} -> {"create", "close"}
      [] kind = "remove_dir" -> {"create", "close", "basic", "standard"}
      [] kind \in {"metadata", "exists"} -> {"basic", "standard"}
      [] kind \in {"read", "write"} -> {"create", "data", "close"}
      [] kind = "rename" -> {"rename"}
      [] kind = "set_path" -> {"set"}
      [] kind = "set_len" -> {"length"}
      [] kind = "statistics" -> {"size", "allocation"}
      [] OTHER -> {"close"}

\* The records of the model have the fields they were given.
IsOp(o) ==
    o = [verb |-> o.verb, kind |-> o.kind, node |-> o.node, to |-> o.to,
         disposition |-> o.disposition, step |-> o.step, fid |-> o.fid,
         failed |-> o.failed, result |-> o.result]
IsListing(l) ==
    l = [state |-> l.state, dir |-> l.dir, sid |-> l.sid, finished |-> l.finished,
         page |-> l.page]
IsSearch(s) == s = [owner |-> s.owner, dir |-> s.dir, returned |-> s.returned]
IsHandle(h) == h = [node |-> h.node, deletes |-> h.deletes]

SearchClose(s) == [kind |-> "search", id |-> s]
HandleClose(f) == [kind |-> "handle", id |-> f]
Queued == ToSet(closes)

-----------------------------------------------------------------------------
(* The inductive invariant. *)

\* What is queued, is there once if it is of a certain kind.
Once(queue, kind) ==
    \A i, j \in 1 .. Len(queue) : queue[i] = queue[j] /\ queue[i].kind = kind => i = j

Closings == {SearchClose(s) : s \in Sids} \cup {HandleClose(f) : f \in Fids}

QueueInv == closes \in Seq(Closings)

\* The verb in progress is at a step of its program, or not in one.
OpInv ==
    /\ IsOp(op)
    /\ \/ op.step \in {"none", "list", "walk", "done"}
       \/ op.kind \in Kinds /\ op.step \in StepsOf(op.kind)
    /\ op.step = "walk" => op.verb = "remove_dir_all"
    /\ op.verb = "open" <=> op.kind = "open"
    /\ op.kind = "open" => file = NoFid
    /\ op.kind \in Deletes => op.failed = "none" /\ op.disposition = "FILE_OPEN"
    /\ op.verb = "remove_dir_all" => Queued \subseteq inherited

\* Only a verb that lists has a ReadDir, and one at a request has more to come.
ListingInv ==
    /\ IsListing(listing)
    /\ op.step # "list" => listing = Gone
    /\ listing.sid \in Sids \cup {NoSid} /\ listing.finished \in BOOLEAN
    /\ listing.state \in {"first", "next"} => ~listing.finished
    /\ listing.state \in {"first", "closed"} => listing.sid = NoSid
    /\ listing.state = "next" => listing.sid \in Sids

\* A ReadDir that goes has a search to close.
Owes == listing.sid # NoSid /\ ~listing.finished

\* A search of this client's is one the listing will close or one that is queued to
\* be, and never both; and what is queued is still this client's.
SearchesInv ==
    /\ searches = [s \in Sids |-> searches[s]] /\ \A s \in Sids : IsSearch(searches[s])
    /\ ~lost => ~strayed
    /\ ~lost /\ disconnected => \A s \in Sids : searches[s].owner # "listing"
    /\ ~lost /\ ~disconnected =>
         /\ \A s \in Sids : searches[s].owner = "listing" =>
              SearchClose(s) \in Queued \/ (Owes /\ s = listing.sid)
         /\ \A s \in Sids : SearchClose(s) \in Queued => searches[s].owner = "listing"
         /\ Once(closes, "search")
         /\ Owes => /\ searches[listing.sid].owner = "listing"
                    /\ SearchClose(listing.sid) \notin Queued

\* Whether a verb has a handle: it is between its create and its close, or it is an
\* open that has not returned yet.
Holds(o) ==
    o.step \in {"close", "data"} \/ (o.kind = "open" /\ o.step = "done" /\ o.result = "ok")

\* A handle that a File stands for is open and does not delete what it is on.
Plain(f) == handles[f] # NoHandle /\ ~handles[f].deletes

\* The three that own handles, the caller's File, the queue and the verb, own
\* different ones, which are open; and what a delete holds is on the node it deletes.
\* There are no others, unless a reply was lost.
HandlesInv ==
    /\ handles = [f \in Fids |-> handles[f]] /\ \A f \in Fids : IsHandle(handles[f])
    /\ file \in Fids \cup {NoFid}
    /\ Holds(op) => op.fid \in Fids
    /\ disconnected => \A f \in Fids : handles[f] = NoHandle
    /\ ~disconnected =>
         /\ file # NoFid => Plain(file)
         /\ \A f \in Fids : HandleClose(f) \in Queued => Plain(f) /\ f # file
         /\ Once(closes, "handle")
         /\ Holds(op) => /\ op.fid # file /\ HandleClose(op.fid) \notin Queued
                         /\ op.kind \in {"open", "read", "write"} => Plain(op.fid)
                         /\ op.kind \in Deletes =>
                              /\ handles[op.fid].node = op.node
                              /\ handles[op.fid].deletes
                              /\ op.node \in exists \ doomed
                              /\ op.kind = "remove_file" => op.node \notin Dirs
         /\ ~lost => \A f \in Fids : handles[f] # NoHandle =>
              f = file \/ HandleClose(f) \in Queued \/ (Holds(op) /\ f = op.fid)

Inv == QueueInv /\ OpInv /\ ListingInv /\ SearchesInv /\ HandlesInv

-----------------------------------------------------------------------------
(* A field of a verb is set. *)

LEMMA SetVerb ==
    ASSUME NEW o, IsOp(o), NEW v, NEW q, q = [o EXCEPT !.verb = v]
    PROVE  /\ IsOp(q) /\ q.verb = v
           /\ q.kind = o.kind /\ q.node = o.node /\ q.to = o.to /\ q.disposition = o.disposition
           /\ q.step = o.step /\ q.fid = o.fid /\ q.failed = o.failed /\ q.result = o.result
  BY DEF IsOp

LEMMA SetKind ==
    ASSUME NEW o, IsOp(o), NEW v, NEW q, q = [o EXCEPT !.kind = v]
    PROVE  /\ IsOp(q) /\ q.kind = v
           /\ q.verb = o.verb /\ q.node = o.node /\ q.to = o.to /\ q.disposition = o.disposition
           /\ q.step = o.step /\ q.fid = o.fid /\ q.failed = o.failed /\ q.result = o.result
  BY DEF IsOp

LEMMA SetNode ==
    ASSUME NEW o, IsOp(o), NEW v, NEW q, q = [o EXCEPT !.node = v]
    PROVE  /\ IsOp(q) /\ q.node = v
           /\ q.verb = o.verb /\ q.kind = o.kind /\ q.to = o.to /\ q.disposition = o.disposition
           /\ q.step = o.step /\ q.fid = o.fid /\ q.failed = o.failed /\ q.result = o.result
  BY DEF IsOp

LEMMA SetTo ==
    ASSUME NEW o, IsOp(o), NEW v, NEW q, q = [o EXCEPT !.to = v]
    PROVE  /\ IsOp(q) /\ q.to = v
           /\ q.verb = o.verb /\ q.kind = o.kind /\ q.node = o.node /\ q.disposition = o.disposition
           /\ q.step = o.step /\ q.fid = o.fid /\ q.failed = o.failed /\ q.result = o.result
  BY DEF IsOp

LEMMA SetDisposition ==
    ASSUME NEW o, IsOp(o), NEW v, NEW q, q = [o EXCEPT !.disposition = v]
    PROVE  /\ IsOp(q) /\ q.disposition = v
           /\ q.verb = o.verb /\ q.kind = o.kind /\ q.node = o.node /\ q.to = o.to
           /\ q.step = o.step /\ q.fid = o.fid /\ q.failed = o.failed /\ q.result = o.result
  BY DEF IsOp

LEMMA SetStep ==
    ASSUME NEW o, IsOp(o), NEW v, NEW q, q = [o EXCEPT !.step = v]
    PROVE  /\ IsOp(q) /\ q.step = v
           /\ q.verb = o.verb /\ q.kind = o.kind /\ q.node = o.node /\ q.to = o.to
           /\ q.disposition = o.disposition /\ q.fid = o.fid /\ q.failed = o.failed /\ q.result = o.result
  BY DEF IsOp

LEMMA SetFid ==
    ASSUME NEW o, IsOp(o), NEW v, NEW q, q = [o EXCEPT !.fid = v]
    PROVE  /\ IsOp(q) /\ q.fid = v
           /\ q.verb = o.verb /\ q.kind = o.kind /\ q.node = o.node /\ q.to = o.to
           /\ q.disposition = o.disposition /\ q.step = o.step /\ q.failed = o.failed /\ q.result = o.result
  BY DEF IsOp

LEMMA SetFailed ==
    ASSUME NEW o, IsOp(o), NEW v, NEW q, q = [o EXCEPT !.failed = v]
    PROVE  /\ IsOp(q) /\ q.failed = v
           /\ q.verb = o.verb /\ q.kind = o.kind /\ q.node = o.node /\ q.to = o.to
           /\ q.disposition = o.disposition /\ q.step = o.step /\ q.fid = o.fid /\ q.result = o.result
  BY DEF IsOp

LEMMA SetResult ==
    ASSUME NEW o, IsOp(o), NEW v, NEW q, q = [o EXCEPT !.result = v]
    PROVE  /\ IsOp(q) /\ q.result = v
           /\ q.verb = o.verb /\ q.kind = o.kind /\ q.node = o.node /\ q.to = o.to
           /\ q.disposition = o.disposition /\ q.step = o.step /\ q.fid = o.fid /\ q.failed = o.failed
  BY DEF IsOp
-----------------------------------------------------------------------------
(* The queue of closes. *)

LEMMA Closing ==
    ASSUME NEW c \in Closings
    PROVE  \/ c.kind = "search" /\ c.id \in Sids /\ c = SearchClose(c.id)
           \/ c.kind = "handle" /\ c.id \in Fids /\ c = HandleClose(c.id)
  BY DEF Closings, SearchClose, HandleClose

LEMMA ClosesDiffer ==
    /\ \A s, t : SearchClose(s) = SearchClose(t) => s = t
    /\ \A f, g : HandleClose(f) = HandleClose(g) => f = g
    /\ \A s, f : SearchClose(s) # HandleClose(f)
    /\ \A s : SearchClose(s).kind = "search"
    /\ \A f : HandleClose(f).kind = "handle"
    /\ \A s \in Sids : SearchClose(s) \in Closings
    /\ \A f \in Fids : HandleClose(f) \in Closings
  BY DEF SearchClose, HandleClose, Closings

LEMMA InSet ==
    ASSUME NEW S, NEW q \in Seq(S)
    PROVE  \A x : x \in ToSet(q) <=> \E i \in 1 .. Len(q) : x = q[i]
  BY DEF ToSet

\* The first of the queue is sent.
LEMMA SentSet ==
    ASSUME NEW S, NEW q \in Seq(S), q # <<>>
    PROVE  /\ Tail(q) \in Seq(S)
           /\ Head(q) \in S /\ Head(q) \in ToSet(q)
           /\ ToSet(Tail(q)) \subseteq ToSet(q)
           /\ \A x \in ToSet(q) : x = Head(q) \/ x \in ToSet(Tail(q))
           /\ \A kind : Once(q, kind) => /\ Once(Tail(q), kind)
                                         /\ Head(q).kind = kind =>
                                              Head(q) \notin ToSet(Tail(q))
  <1>1. /\ Len(q) \in Nat \ {0} /\ Tail(q) \in Seq(S) /\ Len(Tail(q)) = Len(q) - 1
        /\ \A i \in 1 .. Len(q) - 1 : Tail(q)[i] = q[i + 1]
        /\ Head(q) = q[1]
    OBVIOUS
  <1>2. /\ \A x : x \in ToSet(q) <=> \E i \in 1 .. Len(q) : x = q[i]
        /\ \A x : x \in ToSet(Tail(q)) <=> \E i \in 1 .. Len(q) - 1 : x = q[i + 1]
    <2>1. \A x : x \in ToSet(Tail(q)) <=> \E i \in 1 .. Len(Tail(q)) : x = Tail(q)[i]
      BY <1>1, InSet
    <2> QED
      BY <1>1, <2>1, InSet
  <1>3. Head(q) \in S /\ Head(q) \in ToSet(q)
    BY <1>1, <1>2
  <1>4. ToSet(Tail(q)) \subseteq ToSet(q)
    BY <1>1, <1>2
  <1>5. ASSUME NEW x \in ToSet(q), x # Head(q) PROVE x \in ToSet(Tail(q))
    <2>1. PICK i \in 1 .. Len(q) : x = q[i]
      BY <1>2
    <2>2. i - 1 \in 1 .. Len(q) - 1 /\ x = q[(i - 1) + 1]
      BY <1>1, <1>5, <2>1
    <2> QED
      BY <1>2, <2>2
  <1>6. ASSUME NEW kind, Once(q, kind)
        PROVE  /\ Once(Tail(q), kind)
               /\ Head(q).kind = kind => Head(q) \notin ToSet(Tail(q))
    <2>1. Once(Tail(q), kind)
      <3> SUFFICES ASSUME NEW i \in 1 .. Len(q) - 1, NEW j \in 1 .. Len(q) - 1,
                          q[i + 1] = q[j + 1], q[i + 1].kind = kind
                   PROVE  i = j
        BY <1>1 DEF Once
      <3>1. i + 1 \in 1 .. Len(q) /\ j + 1 \in 1 .. Len(q)
        BY <1>1
      <3>2. i + 1 = j + 1
        BY <1>6, <3>1 DEF Once
      <3> QED
        BY <3>2
    <2>2. ASSUME Head(q).kind = kind, Head(q) \in ToSet(Tail(q)) PROVE FALSE
      <3>1. PICK i \in 1 .. Len(q) - 1 : q[1] = q[i + 1]
        BY <1>1, <1>2, <2>2
      <3>2. 1 \in 1 .. Len(q) /\ i + 1 \in 1 .. Len(q)
        BY <1>1
      <3>3. 1 = i + 1
        BY <1>1, <1>6, <2>2, <3>1, <3>2 DEF Once
      <3> QED
        BY <3>3
    <2> QED
      BY <2>1, <2>2
  <1> QED
    BY <1>1, <1>3, <1>4, <1>5, <1>6

\* One more is queued.
LEMMA QueuedSet ==
    ASSUME NEW S, NEW q \in Seq(S), NEW c \in S
    PROVE  /\ Append(q, c) \in Seq(S)
           /\ ToSet(Append(q, c)) = ToSet(q) \cup {c}
           /\ \A kind : Once(q, kind) /\ (c.kind = kind => c \notin ToSet(q)) =>
                          Once(Append(q, c), kind)
  <1>1. /\ Len(q) \in Nat /\ Append(q, c) \in Seq(S) /\ Len(Append(q, c)) = Len(q) + 1
        /\ \A i \in 1 .. Len(q) : Append(q, c)[i] = q[i]
        /\ Append(q, c)[Len(q) + 1] = c
    OBVIOUS
  <1>2. /\ \A x : x \in ToSet(q) <=> \E i \in 1 .. Len(q) : x = q[i]
        /\ \A x : x \in ToSet(Append(q, c)) <=>
             \E i \in 1 .. Len(q) + 1 : x = Append(q, c)[i]
    <2>1. \A x : x \in ToSet(Append(q, c)) <=>
            \E i \in 1 .. Len(Append(q, c)) : x = Append(q, c)[i]
      BY <1>1, InSet
    <2> QED
      BY <1>1, <2>1, InSet
  <1>3. ToSet(Append(q, c)) = ToSet(q) \cup {c}
    BY <1>1, <1>2
  <1>4. ASSUME NEW kind, Once(q, kind), c.kind = kind => c \notin ToSet(q)
        PROVE  Once(Append(q, c), kind)
    <2> SUFFICES ASSUME NEW i \in 1 .. Len(q) + 1, NEW j \in 1 .. Len(q) + 1,
                        Append(q, c)[i] = Append(q, c)[j], Append(q, c)[i].kind = kind
                 PROVE  i = j
      BY <1>1 DEF Once
    <2>1. CASE i \in 1 .. Len(q) /\ j \in 1 .. Len(q)
      BY <1>1, <1>4, <2>1 DEF Once
    <2>2. CASE i = Len(q) + 1 /\ j \in 1 .. Len(q)
      BY <1>1, <1>2, <1>4, <2>2
    <2>3. CASE j = Len(q) + 1 /\ i \in 1 .. Len(q)
      BY <1>1, <1>2, <1>4, <2>3
    <2> QED
      BY <1>1, <2>1, <2>2, <2>3
  <1> QED
    BY <1>1, <1>3, <1>4
-----------------------------------------------------------------------------
(* The programs. *)

\* Two short sequences, one behind the other.
LEMMA ShortJoins ==
    ASSUME NEW a, NEW b, NEW c
    PROVE  /\ <<a>> \o <<b>> = <<a, b>>
           /\ <<a>> \o <<b, c>> = <<a, b, c>>
  <1> DEFINE S == {a, b, c}
  <1>0. a \in S /\ b \in S /\ c \in S
    OBVIOUS
  <1> HIDE DEF S
  <1>1. /\ \A x \in S : /\ <<x>> \in Seq(S) /\ Len(<<x>>) = 1
                         /\ <<x>>[1] = x
        /\ \A x, y \in S : /\ <<x, y>> \in Seq(S) /\ Len(<<x, y>>) = 2
                            /\ <<x, y>>[1] = x /\ <<x, y>>[2] = y
    OBVIOUS
  <1>2. <<a>> \o <<b>> = <<a, b>>
    <2> DEFINE t == <<a>> \o <<b>>
    <2>1. t \in Seq(S) /\ Len(t) = 2 /\ t[1] = a /\ t[2] = b
      BY <1>0, <1>1, ConcatProperties
    <2> HIDE DEF t
    <2>2. t = <<a, b>>
      BY <2>1
    <2> QED
      BY <2>2 DEF t
  <1>3. <<a>> \o <<b, c>> = <<a, b, c>>
    <2> DEFINE t == <<a>> \o <<b, c>>
    <2>1. t \in Seq(S) /\ Len(t) = 3 /\ t[1] = a /\ t[2] = b /\ t[3] = c
      BY <1>0, <1>1, ConcatProperties
    <2> HIDE DEF t
    <2>2. t = <<a, b, c>>
      BY <2>1
    <2> QED
      BY <2>2 DEF t
  <1> QED
    BY <1>2, <1>3

LEMMA JoinedPairs ==
    ASSUME NEW a, NEW b, NEW c, NEW d
    PROVE  <<a, b>> \o <<c, d>> = <<a, b, c, d>>
  <1> DEFINE S == {a, b, c, d}
             t == <<a, b>> \o <<c, d>>
  <1>1. a \in S /\ b \in S /\ c \in S /\ d \in S
    OBVIOUS
  <1> HIDE DEF S
  <1>2. \A x, y \in S : /\ <<x, y>> \in Seq(S) /\ Len(<<x, y>>) = 2
                        /\ <<x, y>>[1] = x /\ <<x, y>>[2] = y
    OBVIOUS
  <1>3. /\ t \in Seq(S) /\ Len(t) = 4
        /\ t[1] = a /\ t[2] = b /\ t[3] = c /\ t[4] = d
    BY <1>1, <1>2, ConcatProperties
  <1> HIDE DEF t
  <1>4. t = <<a, b, c, d>>
    BY <1>3
  <1> QED
    BY <1>4 DEF t

LEMMA Programs ==
    /\ DOMAIN Program = Kinds
    /\ Program["open"] = <<"create">>
    /\ \A kind \in {"create_dir", "remove_file"} : Program[kind] = <<"create", "close">>
    /\ Program["remove_dir"] = <<"create", "close", "basic", "standard">>
    /\ \A kind \in {"metadata", "exists"} : Program[kind] = <<"basic", "standard">>
    /\ \A kind \in {"read", "write"} : Program[kind] = <<"create", "data", "close">>
    /\ Program["rename"] = <<"rename">> /\ Program["set_path"] = <<"set">>
    /\ Program["set_len"] = <<"length">>
    /\ Program["statistics"] = <<"size", "allocation">>
    /\ Program["close_file"] = <<"close">>
  <1>1. DOMAIN Program = Kinds
    BY DEF Program, Kinds
  <1>2. /\ Program["open"] = CreateAndx /\ Program["create_dir"] = CreateAndx \o <<"close">>
        /\ Program["remove_file"] = DeleteOnClose
        /\ Program["remove_dir"] = DeleteOnClose \o QueryPath
        /\ Program["metadata"] = QueryPath /\ Program["exists"] = QueryPath
    BY DEF Program
  <1>3. /\ Program["read"] = CreateAndx \o <<"data", "close">>
        /\ Program["write"] = CreateAndx \o <<"data", "close">>
        /\ Program["rename"] = <<"rename">> /\ Program["set_path"] = <<"set">>
        /\ Program["set_len"] = <<"length">>
        /\ Program["statistics"] = <<"size", "allocation">>
        /\ Program["close_file"] = <<"close">>
    BY DEF Program
  <1>4. CreateAndx \o <<"close">> = <<"create", "close">>
    BY ShortJoins DEF CreateAndx
  <1>5. DeleteOnClose \o QueryPath = <<"create", "close", "basic", "standard">>
    <2>1. DeleteOnClose = <<"create", "close">>
      BY <1>4 DEF DeleteOnClose
    <2>2. <<"create", "close">> \o <<"basic", "standard">>
            = <<"create", "close", "basic", "standard">>
      BY JoinedPairs
    <2> QED
      BY <2>1, <2>2 DEF QueryPath
  <1>6. CreateAndx \o <<"data", "close">> = <<"create", "data", "close">>
    BY ShortJoins DEF CreateAndx
  <1>7. /\ CreateAndx = <<"create">> /\ DeleteOnClose = CreateAndx \o <<"close">>
        /\ QueryPath = <<"basic", "standard">>
    BY DEF CreateAndx, DeleteOnClose, QueryPath
  <1> QED
    BY <1>1, <1>2, <1>3, <1>4, <1>5, <1>6, <1>7

\* The step after one of a program: the one behind it, where no other is the same.
Differ(steps) == \A i, j \in 1 .. Len(steps) : steps[i] = steps[j] => i = j

LEMMA StepAfter ==
    ASSUME NEW kind, NEW steps, Program[kind] = steps,
           Differ(steps), NEW i \in 1 .. Len(steps)
    PROVE  NextStep(kind, steps[i]) = IF i = Len(steps) THEN "none" ELSE steps[i + 1]
  <1> DEFINE program == Program[kind]
             place == CHOOSE j \in 1 .. Len(program) : program[j] = steps[i]
  <1>1. NextStep(kind, steps[i]) = IF place = Len(program) THEN "none" ELSE program[place + 1]
    BY DEF NextStep
  <1>2. program = steps
    OBVIOUS
  <1> HIDE DEF program
  <1>3. place = i
    BY <1>2 DEF Differ
  <1> HIDE DEF place
  <1> QED
    BY <1>1, <1>2, <1>3

\* Where each request of a program leads when it succeeds.
LEMMA NextSteps ==
    /\ NextStep("open", "create") = "none"
    /\ \A kind \in {"create_dir", "remove_file"} :
         NextStep(kind, "create") = "close" /\ NextStep(kind, "close") = "none"
    /\ /\ NextStep("remove_dir", "create") = "close"
       /\ NextStep("remove_dir", "close") = "basic"
       /\ NextStep("remove_dir", "basic") = "standard"
       /\ NextStep("remove_dir", "standard") = "none"
    /\ \A kind \in {"metadata", "exists"} :
         NextStep(kind, "basic") = "standard" /\ NextStep(kind, "standard") = "none"
    /\ \A kind \in {"read", "write"} : /\ NextStep(kind, "create") = "data"
                                       /\ NextStep(kind, "data") = "close"
                                       /\ NextStep(kind, "close") = "none"
    /\ NextStep("rename", "rename") = "none" /\ NextStep("set_path", "set") = "none"
    /\ NextStep("set_len", "length") = "none"
    /\ /\ NextStep("statistics", "size") = "allocation"
       /\ NextStep("statistics", "allocation") = "none"
    /\ NextStep("close_file", "close") = "none"
  <1>1. ASSUME NEW kind, NEW a, Program[kind] = <<a>>
        PROVE  NextStep(kind, a) = "none"
    <2> DEFINE steps == <<a>>
    <2>1. Len(steps) = 1 /\ steps[1] = a
      OBVIOUS
    <2> HIDE DEF steps
    <2>2. 1 \in 1 .. Len(steps) /\ Differ(steps)
      BY <2>1 DEF Differ
    <2> QED
      BY <1>1, <2>1, <2>2, StepAfter DEF steps
  <1>2. ASSUME NEW kind, NEW a, NEW b, a # b,
               Program[kind] = <<a, b>>
        PROVE  NextStep(kind, a) = b /\ NextStep(kind, b) = "none"
    <2> DEFINE steps == <<a, b>>
    <2>1. Len(steps) = 2 /\ steps[1] = a /\ steps[2] = b
      OBVIOUS
    <2>2. Program[kind] = steps
      BY <1>2
    <2> HIDE DEF steps
    <2>3. Differ(steps)
      BY <1>2, <2>1 DEF Differ
    <2>4. 1 \in 1 .. Len(steps) /\ 2 \in 1 .. Len(steps)
      BY <2>1
    <2>5. \A i \in 1 .. Len(steps) :
            NextStep(kind, steps[i]) = IF i = Len(steps) THEN "none" ELSE steps[i + 1]
      BY <2>1, <2>2, <2>3, StepAfter
    <2> QED
      BY <2>1, <2>4, <2>5
  <1>3. ASSUME NEW kind, NEW a, NEW b, NEW c,
               a # b, b # c, a # c, Program[kind] = <<a, b, c>>
        PROVE  /\ NextStep(kind, a) = b /\ NextStep(kind, b) = c
               /\ NextStep(kind, c) = "none"
    <2> DEFINE steps == <<a, b, c>>
    <2>1. /\ Len(steps) = 3
          /\ steps[1] = a /\ steps[2] = b /\ steps[3] = c
      OBVIOUS
    <2>2. Program[kind] = steps
      BY <1>3
    <2> HIDE DEF steps
    <2>3. Differ(steps)
      BY <1>3, <2>1 DEF Differ
    <2>4. 1 \in 1 .. Len(steps) /\ 2 \in 1 .. Len(steps) /\ 3 \in 1 .. Len(steps)
      BY <2>1
    <2>5. \A i \in 1 .. Len(steps) :
            NextStep(kind, steps[i]) = IF i = Len(steps) THEN "none" ELSE steps[i + 1]
      BY <2>1, <2>2, <2>3, StepAfter
    <2> QED
      BY <2>1, <2>4, <2>5
  <1>4. ASSUME NEW kind, NEW a, NEW b, NEW c,
               NEW d, a # b, b # c, a # c, a # d, b # d, c # d,
               Program[kind] = <<a, b, c, d>>
        PROVE  /\ NextStep(kind, a) = b /\ NextStep(kind, b) = c
               /\ NextStep(kind, c) = d /\ NextStep(kind, d) = "none"
    <2> DEFINE steps == <<a, b, c, d>>
    <2>1. /\ Len(steps) = 4
          /\ steps[1] = a /\ steps[2] = b /\ steps[3] = c /\ steps[4] = d
      OBVIOUS
    <2>2. Program[kind] = steps
      BY <1>4
    <2> HIDE DEF steps
    <2>3. Differ(steps)
      BY <1>4, <2>1 DEF Differ
    <2>4. \A i \in 1 .. 4 : i \in 1 .. Len(steps)
      BY <2>1
    <2>5. \A i \in 1 .. Len(steps) :
            NextStep(kind, steps[i]) = IF i = Len(steps) THEN "none" ELSE steps[i + 1]
      BY <2>1, <2>2, <2>3, StepAfter
    <2> QED
      BY <2>1, <2>4, <2>5
  <1>5. NextStep("open", "create") = "none"
    BY <1>1, Programs
  <1>6. \A kind \in {"create_dir", "remove_file"} :
          NextStep(kind, "create") = "close" /\ NextStep(kind, "close") = "none"
    BY <1>2, Programs
  <1>7. /\ NextStep("remove_dir", "create") = "close"
        /\ NextStep("remove_dir", "close") = "basic"
        /\ NextStep("remove_dir", "basic") = "standard"
        /\ NextStep("remove_dir", "standard") = "none"
    BY <1>4, Programs
  <1>8. \A kind \in {"metadata", "exists"} :
          NextStep(kind, "basic") = "standard" /\ NextStep(kind, "standard") = "none"
    BY <1>2, Programs
  <1>9. \A kind \in {"read", "write"} : /\ NextStep(kind, "create") = "data"
                                        /\ NextStep(kind, "data") = "close"
                                        /\ NextStep(kind, "close") = "none"
    BY <1>3, Programs
  <1>10. /\ NextStep("rename", "rename") = "none" /\ NextStep("set_path", "set") = "none"
         /\ NextStep("set_len", "length") = "none"
         /\ NextStep("close_file", "close") = "none"
    BY <1>1, Programs
  <1>11. /\ NextStep("statistics", "size") = "allocation"
         /\ NextStep("statistics", "allocation") = "none"
    BY <1>2, Programs
  <1> QED
    BY <1>5, <1>6, <1>7, <1>8, <1>9, <1>10, <1>11
\* What matters of the order: a handle is used between the create and the close.
LEMMA Order ==
    ASSUME NEW kind \in Kinds, NEW step \in StepsOf(kind), NEW next,
           next = NextStep(kind, step)
    PROVE  /\ step \notin {"none", "list", "walk", "done"}
           /\ next = "none" \/ next \in StepsOf(kind)
           /\ next \notin {"list", "walk", "done", "create"}
           /\ next \in {"data", "close"} => step \in {"create", "data"}
           /\ step = "create" => next \in {"data", "close"} \/ (kind = "open" /\ next = "none")
           /\ step = "data" => next = "close" /\ kind \in {"read", "write"}
           /\ kind = "open" => step = "create"
           /\ kind = "remove_file" => step \in {"create", "close"}
           /\ kind = "remove_dir" => /\ step \in {"create", "close", "basic", "standard"}
                                     /\ next = "none" => step = "standard"
           /\ kind \in Deletes /\ step = "create" => next # "none"
  <1>1. CASE kind \in {"open", "rename", "set_path", "set_len", "close_file"}
    BY <1>1, NextSteps DEF StepsOf, Deletes
  <1>2. CASE kind \in {"create_dir", "remove_file"}
    BY <1>2, NextSteps DEF StepsOf, Deletes
  <1>3. CASE kind = "remove_dir"
    BY <1>3, NextSteps DEF StepsOf, Deletes
  <1>4. CASE kind \in {"metadata", "exists"}
    BY <1>4, NextSteps DEF StepsOf, Deletes
  <1>5. CASE kind \in {"read", "write"}
    BY <1>5, NextSteps DEF StepsOf, Deletes
  <1>6. CASE kind = "statistics"
    BY <1>6, NextSteps DEF StepsOf, Deletes
  <1> QED
    BY <1>1, <1>2, <1>3, <1>4, <1>5, <1>6 DEF Kinds

\* A program ends.
LEMMA EndedIs ==
    ASSUME NEW o, IsOp(o), NEW result, NEW q, q = Ended(o, result)
    PROVE  /\ IsOp(q) /\ q.step = "done" /\ q.result = result
           /\ q.verb = o.verb /\ q.kind = o.kind /\ q.node = o.node /\ q.to = o.to
           /\ q.disposition = o.disposition /\ q.fid = o.fid /\ q.failed = o.failed
  <1> DEFINE p == [o EXCEPT !.step = "done"]
  <1>1. q = [p EXCEPT !.result = result]
    BY DEF Ended
  <1>2. /\ IsOp(p) /\ p.step = "done"
        /\ p.verb = o.verb /\ p.kind = o.kind /\ p.node = o.node /\ p.to = o.to
        /\ p.disposition = o.disposition /\ p.fid = o.fid /\ p.failed = o.failed
    BY SMTT(40), SetStep
  <1> HIDE DEF p
  <1> QED
    BY <1>1, <1>2, SetResult

\* Why a program may end short of its last request, and with what.
EndsWith(o, error, result) ==
    /\ o.step # "data"
    /\ o.step = "create" => error # "SUCCESS"
    /\ \/ result = o.failed /\ o.step = "close" /\ o.failed # "none"
       \/ o.step \in {"size", "allocation"}
       \/ /\ o.kind \in {"remove_dir", "exists"}
          /\ o.step \in {"basic", "standard"} /\ NotFound(error)
       \/ result = "DIRECTORY_NOT_EMPTY"
       \/ result = error /\ error # "SUCCESS"

\* What a reply makes of a program: it closes the handle of a read or a write that
\* failed, it ends, or it goes on.
Outcome(o, error, fid, q) ==
    LET next == NextStep(o.kind, o.step)
    IN  \/ /\ o.step = "data" /\ error # "SUCCESS"
           /\ q = [o EXCEPT !.step = "close", !.failed = error]
        \/ \E result : q = Ended(o, result) /\ EndsWith(o, error, result)
        \/ /\ error = "SUCCESS" \/ o.step = "size"
           /\ ~(o.kind = "remove_dir" /\ o.step = "standard")
           /\ q = IF next = "none" THEN Ended([o EXCEPT !.fid = fid], "ok")
                  ELSE [[o EXCEPT !.fid = fid] EXCEPT !.step = next]

LEMMA SuccessIsThere == ~NotFound("SUCCESS")
  BY DEF NotFound, Kind, StatusKind, NotFoundStatuses

LEMMA Replied ==
    ASSUME NEW o, NEW error, NEW fid
    PROVE  Outcome(o, error, fid, Continue(o, error, fid))
  <1> DEFINE next == NextStep(o.kind, o.step)
             q == Continue(o, error, fid)
  <1>1. CASE o.step = "data" /\ error # "SUCCESS"
    BY <1>1 DEF Continue, Outcome
  <1>2. CASE ~(o.step = "data" /\ error # "SUCCESS") /\ o.step = "close" /\ o.failed # "none"
    <2>1. q = Ended(o, o.failed)
      BY <1>2 DEF Continue
    <2> QED
      BY <1>2, <2>1 DEF EndsWith, Outcome
  <1>3. CASE o.step = "size"
    <2>1. \/ q = Ended(o, "ok")
          \/ q = IF next = "none" THEN Ended([o EXCEPT !.fid = fid], "ok")
                 ELSE [[o EXCEPT !.fid = fid] EXCEPT !.step = next]
      BY <1>3 DEF Continue
    <2> QED
      BY <1>3, <2>1 DEF EndsWith, Outcome
  <1>4. CASE o.step = "allocation" /\ error # "SUCCESS"
    <2>1. q = Ended(o, "BothAttemptsFailed")
      BY <1>4 DEF Continue
    <2> QED
      BY <1>4, <2>1 DEF EndsWith, Outcome
  <1>5. CASE o.kind \in {"remove_dir", "exists"} /\ o.step \in {"basic", "standard"}
             /\ NotFound(error)
    <2>1. q = Ended(o, "ok")
      BY <1>5, SuccessIsThere DEF Continue
    <2> QED
      BY <1>5, <2>1 DEF EndsWith, Outcome
  <1> DEFINE others == /\ ~(o.step = "data" /\ error # "SUCCESS")
                       /\ ~(o.step = "close" /\ o.failed # "none")
                       /\ o.step # "size"
                       /\ ~(o.step = "allocation" /\ error # "SUCCESS")
                       /\ ~(o.kind \in {"remove_dir", "exists"}
                            /\ o.step \in {"basic", "standard"} /\ NotFound(error))
  <1>6. CASE others /\ o.kind = "remove_dir" /\ o.step = "standard" /\ error = "SUCCESS"
    <2>1. q = Ended(o, "DIRECTORY_NOT_EMPTY")
      BY <1>6 DEF Continue
    <2> QED
      BY <1>6, <2>1 DEF EndsWith, Outcome
  <1>7. CASE others /\ error # "SUCCESS"
    <2>1. q = Ended(o, error)
      BY <1>7 DEF Continue
    <2> QED
      BY <1>7, <2>1 DEF EndsWith, Outcome
  <1>8. CASE others /\ error = "SUCCESS" /\ ~(o.kind = "remove_dir" /\ o.step = "standard")
    <2>1. q = IF next = "none" THEN Ended([o EXCEPT !.fid = fid], "ok")
              ELSE [[o EXCEPT !.fid = fid] EXCEPT !.step = next]
      BY <1>8 DEF Continue
    <2> QED
      BY <1>8, <2>1 DEF Outcome
  <1> QED
    BY <1>1, <1>2, <1>3, <1>4, <1>5, <1>6, <1>7, <1>8

\* What that says of the handle, and of a delete that says it has deleted.
Continued(o, error, fid, q) ==
    /\ IsOp(q) /\ q.verb = o.verb /\ q.kind = o.kind /\ q.node = o.node /\ q.to = o.to
    /\ q.disposition = o.disposition
    /\ q.step = "done" \/ q.step \in StepsOf(o.kind)
    /\ o.kind \in Deletes => q.failed = o.failed
    /\ Holds(q) => \/ o.step = "data" /\ q.fid \in {o.fid, fid}
                   \/ o.step = "create" /\ error = "SUCCESS" /\ q.fid = fid
    /\ o.step = "create" /\ error = "SUCCESS" => Holds(q) /\ q.fid = fid
    /\ o.step = "data" => Holds(q) /\ q.fid \in {o.fid, fid}
    /\ q.step = "done" /\ q.result = "ok" /\ o.kind \in Deletes /\ o.failed = "none" =>
         \/ o.kind = "remove_file" /\ o.step = "close" /\ error = "SUCCESS"
         \/ /\ o.kind = "remove_dir" /\ o.step \in {"basic", "standard"}
            /\ NotFound(error)

LEMMA ContinueIs ==
    ASSUME NEW o, IsOp(o), o.kind \in Kinds, o.step \in StepsOf(o.kind),
           NEW error, error # "ok", NEW fid
    PROVE  Continued(o, error, fid, Continue(o, error, fid))
  <1> DEFINE next == NextStep(o.kind, o.step)
             q == Continue(o, error, fid)
  <1>1. next = NextStep(o.kind, o.step)
    OBVIOUS
  <1> HIDE DEF next
  <1>2. \/ /\ o.step = "data" /\ error # "SUCCESS"
           /\ q = [o EXCEPT !.step = "close", !.failed = error]
        \/ \E result : q = Ended(o, result) /\ EndsWith(o, error, result)
        \/ /\ error = "SUCCESS" \/ o.step = "size"
           /\ ~(o.kind = "remove_dir" /\ o.step = "standard")
           /\ q = IF next = "none" THEN Ended([o EXCEPT !.fid = fid], "ok")
                  ELSE [[o EXCEPT !.fid = fid] EXCEPT !.step = next]
    <2>1. Outcome(o, error, fid, q)
      BY Replied
    <2> HIDE DEF q
    <2> QED
      BY <1>1, <2>1 DEF Outcome
  <1> SUFFICES Continued(o, error, fid, q)
    OBVIOUS
  <1> HIDE DEF q
  <1>3. CASE o.step = "data" /\ q = [o EXCEPT !.step = "close", !.failed = error]
    <2> DEFINE p == [o EXCEPT !.step = "close"]
    <2>1. q = [p EXCEPT !.failed = error]
      BY <1>3
    <2>2. /\ IsOp(p) /\ p.step = "close"
          /\ p.verb = o.verb /\ p.kind = o.kind /\ p.node = o.node /\ p.to = o.to
          /\ p.disposition = o.disposition /\ p.fid = o.fid
      BY SetStep
    <2> HIDE DEF p
    <2>3. /\ IsOp(q) /\ q.step = "close"
          /\ q.verb = o.verb /\ q.kind = o.kind /\ q.node = o.node /\ q.to = o.to
          /\ q.disposition = o.disposition /\ q.fid = o.fid
      BY <2>1, <2>2, SetFailed
    <2>4. o.kind \in {"read", "write"} /\ "close" \in StepsOf(o.kind)
      BY <1>1, <1>3, Order DEF StepsOf
    <2> QED
      BY <1>3, <2>3, <2>4 DEF Continued, Holds, Deletes
  <1>4. ASSUME NEW result, q = Ended(o, result), EndsWith(o, error, result)
        PROVE  /\ q.step = "done" /\ ~Holds(q)
               /\ q.result = "ok" /\ o.kind \in Deletes /\ o.failed = "none" =>
                    /\ o.kind = "remove_dir" /\ o.step \in {"basic", "standard"}
                    /\ NotFound(error)
    <2>1. q.step = "done" /\ q.result = result /\ q.kind = o.kind
      BY <1>4, EndedIs
    <2>2. /\ o.kind = "open" => o.step = "create"
          /\ o.kind \in Deletes => o.step \in {"create", "close", "basic", "standard"}
      BY <1>1, Order DEF Deletes
    <2>3. o.kind \in Deletes /\ o.kind \in {"remove_dir", "exists"} => o.kind = "remove_dir"
      BY DEF Deletes
    <2>4. ~Holds(q)
      BY <1>4, <2>1, <2>2 DEF Holds, EndsWith
    <2> QED
      BY <1>4, <2>1, <2>2, <2>3, <2>4 DEF EndsWith
  <1>5. CASE \E result : q = Ended(o, result) /\ EndsWith(o, error, result)
    <2>1. PICK result : q = Ended(o, result) /\ EndsWith(o, error, result)
      BY <1>5
    <2>2. /\ IsOp(q) /\ q.verb = o.verb /\ q.kind = o.kind /\ q.node = o.node /\ q.to = o.to
          /\ q.disposition = o.disposition /\ q.failed = o.failed
      BY <2>1, EndedIs
    <2>3. /\ q.step = "done" /\ ~Holds(q)
          /\ q.result = "ok" /\ o.kind \in Deletes /\ o.failed = "none" =>
               /\ o.kind = "remove_dir" /\ o.step \in {"basic", "standard"}
               /\ NotFound(error)
      BY <1>4, <2>1
    <2> QED
      BY <2>1, <2>2, <2>3 DEF Continued, EndsWith
  <1>6. CASE /\ error = "SUCCESS" \/ o.step = "size"
             /\ ~(o.kind = "remove_dir" /\ o.step = "standard")
             /\ q = IF next = "none" THEN Ended([o EXCEPT !.fid = fid], "ok")
                    ELSE [[o EXCEPT !.fid = fid] EXCEPT !.step = next]
    <2> DEFINE p == [o EXCEPT !.fid = fid]
    <2>1. /\ IsOp(p) /\ p.fid = fid
          /\ p.verb = o.verb /\ p.kind = o.kind /\ p.node = o.node /\ p.to = o.to
          /\ p.disposition = o.disposition /\ p.failed = o.failed
      BY SetFid
    <2>2. q = IF next = "none" THEN Ended(p, "ok") ELSE [p EXCEPT !.step = next]
      BY <1>6
    <2> HIDE DEF p
    <2>3. /\ IsOp(q) /\ q.fid = fid
          /\ q.verb = o.verb /\ q.kind = o.kind /\ q.node = o.node /\ q.to = o.to
          /\ q.disposition = o.disposition /\ q.failed = o.failed
          /\ next = "none" => q.step = "done" /\ q.result = "ok"
          /\ next # "none" => q.step = next
      BY <2>1, <2>2, EndedIs, SetStep
    <2>4. /\ next = "none" \/ next \in StepsOf(o.kind)
          /\ next \notin {"list", "walk", "done", "create"}
          /\ next \in {"data", "close"} => o.step \in {"create", "data"}
          /\ o.step = "create" =>
               next \in {"data", "close"} \/ (o.kind = "open" /\ next = "none")
          /\ o.step = "data" => next = "close" /\ o.kind \in {"read", "write"}
          /\ o.kind = "open" => o.step = "create"
          /\ o.kind = "remove_file" => o.step \in {"create", "close"}
          /\ o.kind = "remove_dir" => (next = "none" => o.step = "standard")
          /\ o.kind \in Deletes /\ o.step = "create" => next # "none"
      BY <1>1, Order
    <2>5. o.step = "create" \/ o.step = "data" \/ o.step = "close" => error = "SUCCESS"
      BY <1>6
    <2>6. Holds(q) => o.step \in {"data", "create"}
      BY <2>3, <2>4 DEF Holds
    <2>7. o.step \in {"create", "data"} => Holds(q)
      BY <2>3, <2>4 DEF Holds
    <2>8. q.step = "done" /\ q.result = "ok" /\ o.kind \in Deletes =>
            o.kind = "remove_file" /\ o.step = "close"
      BY <1>6, <2>3, <2>4 DEF Deletes
    <2> QED
      BY <2>3, <2>4, <2>5, <2>6, <2>7, <2>8 DEF Continued
  <1> QED
    BY <1>3, <1>5, <1>6, <1>2
-----------------------------------------------------------------------------
(* The answers. *)

LEMMA Failures ==
    /\ \A status \in {"ACCESS_DENIED", "NETWORK_NAME_DELETED"} :
         Refused(status) \notin {"ok", "SUCCESS"} /\ ~NotFound(Refused(status))
    /\ \A failure \in {"Timeout", "Wire"} :
         FromConnection(failure) \notin {"ok", "SUCCESS"} /\ ~NotFound(FromConnection(failure))
  BY DEF Refused, FromConnection, NotFound, Kind, StatusKind, NotFoundStatuses

\* A status the server gives is success or a refusal that reads as one.
LEMMA Statuses ==
    ASSUME NEW o, NEW status \in Spellings(StatusOf(o))
    PROVE  /\ Refused(status) # "ok"
           /\ Refused(status) = "SUCCESS" <=> status = "SUCCESS"
           /\ status = "SUCCESS" => StatusOf(o) = "SUCCESS"
  <1> DEFINE others == {"SUCCESS", "DELETE_PENDING", "OBJECT_NAME_COLLISION",
                        "NOT_A_DIRECTORY", "FILE_IS_A_DIRECTORY", "SHARING_VIOLATION"}
  <1>1. \A node : PathStatus(node) \in others \cup NotFoundStatuses
    BY DEF PathStatus, NotFoundStatuses
  <1>2. CreateStatus(o) \in others \cup NotFoundStatuses
    BY DEF CreateStatus, NotFoundStatuses
  <1>3. RenameStatus(o.node, o.to) \in others \cup NotFoundStatuses
    BY <1>1 DEF RenameStatus, NotFoundStatuses
  <1>4. StatusOf(o) \in others \cup NotFoundStatuses
    BY <1>1, <1>2, <1>3 DEF StatusOf
  <1>5. /\ status \in others \cup NotFoundStatuses
        /\ status = "SUCCESS" => StatusOf(o) = "SUCCESS"
    BY <1>4 DEF Spellings, NotFoundStatuses
  <1>6. \A x \in others \cup NotFoundStatuses : Refused(x) = x /\ x # "ok"
    BY DEF Refused, NotFoundStatuses
  <1> QED
    BY <1>5, <1>6

\* A query that is answered that there is nothing there is right.
LEMMA NotThere ==
    ASSUME NEW o, o.step \in {"basic", "standard"}, NEW status \in Spellings(StatusOf(o)),
           NotFound(Refused(status))
    PROVE  o.node \notin exists /\ status # "SUCCESS"
  <1>1. StatusOf(o) = PathStatus(o.node)
    BY DEF StatusOf
  <1>2. o.node \in exists => PathStatus(o.node) \in {"DELETE_PENDING", "SUCCESS"}
    BY DEF PathStatus
  <1>3. \A x \in {"DELETE_PENDING", "SUCCESS"} : Spellings(x) = {x} /\ ~NotFound(Refused(x))
    BY DEF Spellings, NotFoundStatuses, Refused, NotFound, Kind, StatusKind
  <1>4. status # "SUCCESS"
    BY <1>3
  <1> QED
    BY <1>1, <1>2, <1>3, <1>4

\* What a create that succeeds is on.
LEMMA Created ==
    ASSUME NEW o, CreateStatus(o) = "SUCCESS"
    PROVE  /\ o.kind \in {"open", "read", "write"} => o.node \notin Dirs
           /\ o.kind \in Deletes /\ o.disposition = "FILE_OPEN" =>
                /\ o.node \in exists \ doomed
                /\ o.kind = "remove_file" => o.node \notin Dirs
  BY DEF CreateStatus, Deletes
-----------------------------------------------------------------------------
(* The records of the listing and of the server. *)

LEMMA ListingState ==
    ASSUME NEW l, IsListing(l), NEW v, NEW q, q = [l EXCEPT !.state = v]
    PROVE  /\ IsListing(q) /\ q.state = v
           /\ q.dir = l.dir /\ q.sid = l.sid /\ q.finished = l.finished /\ q.page = l.page
  BY DEF IsListing

LEMMA ListingDir ==
    ASSUME NEW l, IsListing(l), NEW v, NEW q, q = [l EXCEPT !.dir = v]
    PROVE  /\ IsListing(q) /\ q.dir = v
           /\ q.state = l.state /\ q.sid = l.sid /\ q.finished = l.finished /\ q.page = l.page
  BY DEF IsListing

LEMMA ListingSid ==
    ASSUME NEW l, IsListing(l), NEW v, NEW q, q = [l EXCEPT !.sid = v]
    PROVE  /\ IsListing(q) /\ q.sid = v
           /\ q.state = l.state /\ q.dir = l.dir /\ q.finished = l.finished /\ q.page = l.page
  BY DEF IsListing

LEMMA ListingFinished ==
    ASSUME NEW l, IsListing(l), NEW v, NEW q, q = [l EXCEPT !.finished = v]
    PROVE  /\ IsListing(q) /\ q.finished = v
           /\ q.state = l.state /\ q.dir = l.dir /\ q.sid = l.sid /\ q.page = l.page
  BY DEF IsListing

LEMMA ListingPage ==
    ASSUME NEW l, IsListing(l), NEW v, NEW q, q = [l EXCEPT !.page = v]
    PROVE  /\ IsListing(q) /\ q.page = v
           /\ q.state = l.state /\ q.dir = l.dir /\ q.sid = l.sid /\ q.finished = l.finished
  BY DEF IsListing

LEMMA GoneIs ==
    /\ IsListing(Gone) /\ Gone.state = "none" /\ Gone.sid = NoSid /\ Gone.finished = FALSE
    /\ Owed(Gone) = <<>>
  <1> DEFINE shut == FALSE
             empty == <<>>
  <1>1. Gone = [state |-> "none", dir |-> Share, sid |-> NoSid, finished |-> shut,
                page |-> empty]
    BY DEF Gone
  <1>2. ~shut
    OBVIOUS
  <1> HIDE DEF shut, empty
  <1>3. IsListing(Gone) /\ Gone.state = "none" /\ Gone.sid = NoSid /\ Gone.finished = shut
    BY <1>1 DEF IsListing
  <1>4. Owed(Gone) = <<>>
    BY <1>3 DEF Owed
  <1>5. Gone.finished = FALSE
    BY <1>3 DEF shut
  <1> QED
    BY <1>3, <1>4, <1>5

\* What is owed for a listing is the close of its search, or nothing.
LEMMA OwedIs ==
    ASSUME NEW l
    PROVE  /\ l.sid # NoSid /\ ~l.finished => Owed(l) = <<SearchClose(l.sid)>>
           /\ ~(l.sid # NoSid /\ ~l.finished) => Owed(l) = <<>>
  BY DEF Owed, SearchClose

\* What page_in makes of a listing.
PagedTo(l, reply, block, sid, failed, q) ==
    /\ IsListing(q) /\ q.state \in {l.state, failed}
    /\ \/ reply.status = "NO_MORE_FILES" /\ q.sid = l.sid /\ q.finished = TRUE
       \/ /\ reply.status \notin {"SUCCESS", "NO_MORE_FILES"}
          /\ q.sid = l.sid /\ q.finished = l.finished /\ q.state = failed
       \/ /\ reply.status = "SUCCESS" /\ Unreadable(reply, block) /\ q.sid = sid
          /\ q.finished = l.finished /\ q.state = failed
       \/ /\ reply.status = "SUCCESS" /\ ~Unreadable(reply, block)
          /\ q.sid = sid /\ q.finished = reply.end

LEMMA PagedIs ==
    ASSUME NEW l, IsListing(l), NEW reply, NEW block, NEW sid, NEW failed
    PROVE  PagedTo(l, reply, block, sid, failed, PagedIn(l, reply, block, sid, failed))
  <1> DEFINE q == PagedIn(l, reply, block, sid, failed)
  <1> DEFINE found == WalkEntries(block.data, block.count)
  <1>1. CASE reply.status = "NO_MORE_FILES"
    <2>1. q = [l EXCEPT !.finished = TRUE]
      BY <1>1 DEF PagedIn, Unreadable
    <2> QED
      BY <1>1, <2>1, ListingFinished DEF PagedTo
  <1>2. CASE reply.status \notin {"SUCCESS", "NO_MORE_FILES"}
    <2>1. q = [l EXCEPT !.state = failed]
      BY <1>2 DEF PagedIn, Unreadable
    <2> QED
      BY <1>2, <2>1, ListingState DEF PagedTo
  <1>3. CASE reply.status = "SUCCESS" /\ Unreadable(reply, block)
    <2> DEFINE p == [l EXCEPT !.sid = sid]
    <2>1. q = [p EXCEPT !.state = failed]
      BY <1>3 DEF PagedIn, Unreadable
    <2>2. IsListing(p) /\ p.sid = sid /\ p.finished = l.finished
      BY ListingSid
    <2> HIDE DEF p
    <2> QED
      BY <1>3, <2>1, <2>2, ListingState DEF PagedTo
  <1>4. CASE reply.status = "SUCCESS" /\ ~Unreadable(reply, block)
    <2> DEFINE p1 == [l EXCEPT !.sid = sid]
               kept == p1.page \o Kept(found.names)
               p2 == [p1 EXCEPT !.page = kept]
               p3 == [p2 EXCEPT !.finished = reply.end]
               state == IF ~reply.end /\ found.names = <<>> THEN failed ELSE p3.state
    <2>1. p1 = [l EXCEPT !.sid = sid]
      OBVIOUS
    <2>7. p2 = [p1 EXCEPT !.page = kept]
      OBVIOUS
    <2>8. p3 = [p2 EXCEPT !.finished = reply.end]
      OBVIOUS
    <2>2. q = [p3 EXCEPT !.state = state]
      BY <1>4 DEF PagedIn, Unreadable
    <2>3. state \in {p3.state, failed}
      OBVIOUS
    <2> HIDE DEF p1, p2, p3, kept, state
    <2>4. IsListing(p1) /\ p1.sid = sid /\ p1.state = l.state
      BY <2>1, ListingSid
    <2>5. IsListing(p2) /\ p2.sid = sid /\ p2.state = l.state
      BY <2>7, <2>4, ListingPage
    <2>6. /\ IsListing(p3) /\ p3.sid = sid /\ p3.state = l.state
          /\ p3.finished = reply.end
      BY <2>8, <2>5, ListingFinished
    <2> QED
      BY <1>4, <2>2, <2>3, <2>6, ListingState DEF PagedTo
  <1> QED
    BY <1>1, <1>2, <1>3, <1>4

LEMMA SearchIs ==
    /\ IsSearch(NoSearch) /\ NoSearch.owner = "nobody"
    /\ LET other == [NoSearch EXCEPT !.owner = "other"]
       IN  IsSearch(other) /\ other.owner = "other"
    /\ \A dir : LET search == [owner |-> "listing", dir |-> dir, returned |-> {}]
                IN  IsSearch(search) /\ search.owner = "listing"
  BY DEF NoSearch, IsSearch

\* A reply leaves a search to its owner, or closes it.
LEMMA SearchAfterIs ==
    ASSUME NEW search, IsSearch(search), NEW reply
    PROVE  /\ IsSearch(SearchAfter(search, reply))
           /\ reply.end => SearchAfter(search, reply) = NoSearch
           /\ ~reply.end => SearchAfter(search, reply).owner = search.owner
  <1>1. CASE reply.end
    BY <1>1, SearchIs DEF SearchAfter
  <1>2. CASE ~reply.end
    <2> DEFINE returned == search.returned \cup reply.names
               q == [search EXCEPT !.returned = returned]
    <2>1. SearchAfter(search, reply) = q
      BY <1>2 DEF SearchAfter
    <2>2. IsSearch(q) /\ q.owner = search.owner
      BY DEF IsSearch
    <2> QED
      BY <1>2, <2>1, <2>2
  <1> QED
    BY <1>1, <1>2

LEMMA ReplyIs ==
    ASSUME NEW search, NEW reply \in ServerReplies(search)
    PROVE  \/ reply = Deleted
           \/ /\ ~disconnected /\ reply # Deleted
              /\ \/ reply.status = "SUCCESS" /\ reply.end \in BOOLEAN
                 \/ reply.status = "NO_MORE_FILES" /\ reply.end = TRUE
                 \/ reply.status = "REFUSED" /\ reply.end = FALSE
  <1>1. CASE disconnected
    BY <1>1 DEF ServerReplies
  <1>2. CASE ~disconnected /\ reply \in Pages(search)
    BY <1>2 DEF Pages, Deleted
  <1>3. ASSUME NEW status \in {"SUCCESS", "NO_MORE_FILES", "REFUSED"}, NEW names, NEW end,
               reply = [status |-> status, names |-> names, end |-> end]
        PROVE  reply # Deleted /\ reply.status = status /\ reply.end = end
    BY <1>3 DEF Deleted
  <1>4. CASE ~disconnected /\ reply = [status |-> "SUCCESS", names |-> {}, end |-> TRUE]
    BY <1>3, <1>4
  <1>5. CASE ~disconnected /\ reply = [status |-> "NO_MORE_FILES", names |-> {}, end |-> TRUE]
    BY <1>3, <1>5
  <1>6. CASE ~disconnected /\ reply = [status |-> "SUCCESS", names |-> {}, end |-> FALSE]
    BY <1>3, <1>6
  <1>7. CASE ~disconnected /\ reply = [status |-> "REFUSED", names |-> {}, end |-> FALSE]
    BY <1>3, <1>7
  <1> QED
    BY <1>1, <1>2, <1>4, <1>5, <1>6, <1>7 DEF ServerReplies

LEMMA DeletedIs == Deleted.status = "NETWORK_NAME_DELETED" /\ Deleted.end = TRUE
  BY DEF Deleted

LEMMA DiscardedIs ==
    ASSUME searches = [s \in Sids |-> searches[s]], \A s \in Sids : IsSearch(searches[s])
    PROVE  /\ Discarded = [s \in Sids |-> Discarded[s]]
           /\ \A s \in Sids : IsSearch(Discarded[s]) /\ Discarded[s].owner # "listing"
  BY SearchIs DEF Discarded

\* A handle that is opened is not the absence of one.
LEMMA HandleIs ==
    /\ IsHandle(NoHandle) /\ ~NoHandle.deletes
    /\ \A node, deletes : LET h == [node |-> node, deletes |-> deletes]
                          IN  /\ IsHandle(h) /\ h.node = node /\ h.deletes = deletes
                              /\ node # Share => h # NoHandle
  BY DEF IsHandle, NoHandle
-----------------------------------------------------------------------------
(* The searches. *)

\* A step that leaves the searches, their closes and what the listing owes alone.
LEMMA SearchesKept ==
    ASSUME SearchesInv, UNCHANGED <<searches, disconnected, strayed>>, lost => lost',
           \A s \in Sids : SearchClose(s) \in Queued' <=> SearchClose(s) \in Queued,
           Once(closes, "search") => Once(closes', "search"),
           Owes' <=> Owes, Owes => listing'.sid = listing.sid /\ listing.sid \in Sids
    PROVE  SearchesInv'
  <1>1. CASE lost'
    BY <1>1 DEF SearchesInv
  <1>2. CASE ~lost' /\ disconnected
    BY <1>2 DEF SearchesInv
  <1>3. CASE ~lost' /\ ~disconnected
    BY <1>3 DEF SearchesInv
  <1> QED
    BY <1>1, <1>2, <1>3

\* One that a reply was lost in owes the searches no more than their shape.
LEMMA SearchesLost ==
    ASSUME lost', searches' = [s \in Sids |-> searches'[s]],
           \A s \in Sids : IsSearch(searches'[s])
    PROVE  SearchesInv'
  BY DEF SearchesInv

\* The server says that the tree is gone.
LEMMA SearchesDiscarded ==
    ASSUME SearchesInv, searches' = Discarded, disconnected' = TRUE,
           strayed' = strayed, lost => lost'
    PROVE  SearchesInv'
  <1>1. /\ searches' = [s \in Sids |-> searches'[s]]
        /\ \A s \in Sids : IsSearch(searches'[s]) /\ searches'[s].owner # "listing"
    BY DiscardedIs DEF SearchesInv
  <1> QED
    BY <1>1 DEF SearchesInv

\* The ReadDir goes, and what it owes is queued.
LEMMA SearchesDropped ==
    ASSUME QueueInv, ListingInv, SearchesInv, DropListing,
           UNCHANGED <<searches, disconnected, strayed, lost>>
    PROVE  /\ QueueInv' /\ SearchesInv'
           /\ \A f \in Fids : HandleClose(f) \in Queued' <=> HandleClose(f) \in Queued
           /\ Once(closes, "handle") => Once(closes', "handle")
           /\ Queued \subseteq Queued'
  <1>1. ~Owes'
    BY GoneIs DEF DropListing, Owes
  <1>2. CASE ~Owes
    <2>1. closes' = closes
      BY <1>2, OwedIs DEF DropListing, QueueInv, Owes
    <2> QED
      BY <1>1, <1>2, <2>1, SearchesKept DEF QueueInv, Queued
  <1>3. CASE Owes
    <2> DEFINE c == SearchClose(listing.sid)
    <2>1. c \in Closings /\ c.kind = "search" /\ listing.sid \in Sids
      BY <1>3, ClosesDiffer DEF Owes, ListingInv
    <2>2. closes' = Append(closes, c)
      BY <1>3, <2>1, OwedIs, AppendIsConcat DEF DropListing, QueueInv, Owes
    <2>3. /\ QueueInv' /\ Queued' = Queued \cup {c}
          /\ \A kind : Once(closes, kind) /\ (c.kind = kind => c \notin Queued) =>
                         Once(closes', kind)
      BY <2>1, <2>2, QueuedSet DEF QueueInv, Queued
    <2>4. ~lost /\ ~disconnected => c \notin Queued /\ searches[listing.sid].owner = "listing"
      BY <1>3 DEF SearchesInv
    <2>5. \A s \in Sids : SearchClose(s) \in Queued' <=>
            SearchClose(s) \in Queued \/ s = listing.sid
      BY <2>3, ClosesDiffer
    <2>6. SearchesInv'
      <3>1. CASE lost
        BY <3>1 DEF SearchesInv
      <3>2. CASE ~lost /\ disconnected
        BY <3>2 DEF SearchesInv
      <3>3. CASE ~lost /\ ~disconnected
        BY <1>1, <1>3, <2>1, <2>3, <2>4, <2>5, <3>3 DEF SearchesInv
      <3> QED
        BY <3>1, <3>2, <3>3
    <2>7. \A f \in Fids : HandleClose(f) \in Queued' <=> HandleClose(f) \in Queued
      BY <2>3, ClosesDiffer
    <2>8. Once(closes, "handle") => Once(closes', "handle")
      BY <2>1, <2>3
    <2> QED
      BY <2>3, <2>6, <2>7, <2>8
  <1> QED
    BY <1>2, <1>3

\* A search that is closed, by its id, when that is right.
LEMMA SearchesFreed ==
    ASSUME SearchesInv, NEW sid \in Sids, FindClose(sid), UNCHANGED <<disconnected, lost>>,
           ~lost /\ ~disconnected =>
             /\ searches[sid].owner = "listing"
             /\ \A s \in Sids \ {sid} : SearchClose(s) \in Queued' <=> SearchClose(s) \in Queued
             /\ SearchClose(sid) \notin Queued' /\ Once(closes', "search")
             /\ Owes' => /\ Owes /\ listing'.sid = listing.sid
                         /\ listing.sid \in Sids \ {sid}
             /\ Owes => Owes' \/ listing.sid = sid
    PROVE  SearchesInv'
  <1>1. /\ searches' = [s \in Sids |-> searches'[s]]
        /\ \A s \in Sids : IsSearch(searches'[s])
    BY SearchIs DEF FindClose, SearchesInv
  <1>2. CASE lost
    BY <1>1, <1>2 DEF SearchesInv
  <1>3. CASE ~lost /\ disconnected
    BY <1>1, <1>3 DEF SearchesInv, FindClose
  <1>4. CASE ~lost /\ ~disconnected
    <2>1. searches' = [searches EXCEPT ![sid] = NoSearch] /\ ~strayed'
      BY <1>4 DEF FindClose, SearchesInv
    <2>2. /\ searches'[sid].owner = "nobody"
          /\ \A s \in Sids \ {sid} : searches'[s] = searches[s]
      BY <2>1, SearchIs DEF SearchesInv
    <2>3. \A s \in Sids : searches'[s].owner = "listing" =>
            SearchClose(s) \in Queued' \/ (Owes' /\ s = listing'.sid)
      BY <1>4, <2>2 DEF SearchesInv
    <2>4. \A s \in Sids : SearchClose(s) \in Queued' => searches'[s].owner = "listing"
      BY <1>4, <2>2 DEF SearchesInv
    <2>5. Owes' => /\ searches'[listing'.sid].owner = "listing"
                   /\ SearchClose(listing'.sid) \notin Queued'
      <3> SUFFICES ASSUME Owes'
                   PROVE  /\ searches'[listing'.sid].owner = "listing"
                          /\ SearchClose(listing'.sid) \notin Queued'
        OBVIOUS
      <3>1. Owes /\ listing'.sid = listing.sid /\ listing.sid \in Sids \ {sid}
        BY <1>4
      <3>2. searches[listing.sid].owner = "listing" /\ SearchClose(listing.sid) \notin Queued
        BY <1>4, <3>1 DEF SearchesInv
      <3> QED
        BY <1>4, <2>2, <3>1, <3>2
    <2> QED
      BY <1>1, <1>4, <2>1, <2>3, <2>4, <2>5 DEF SearchesInv
  <1> QED
    BY <1>2, <1>3, <1>4

\* ReadDir::close: the search that is owed is this client's, and nobody else owes it.
LEMMA SearchesClosed ==
    ASSUME ListingInv, SearchesInv, CloseListing, op' = op
    PROVE  ListingInv' /\ SearchesInv'
  <1> DEFINE closed == [Gone EXCEPT !.state = "closed"]
  <1>1. /\ listing' = closed
        /\ UNCHANGED <<closes, disconnected, lost>>
        /\ listing.state \in {"held", "drained", "error"}
    BY DEF CloseListing
  <1>2. /\ IsListing(closed) /\ closed.state = "closed" /\ closed.sid = NoSid
        /\ closed.finished = FALSE
    BY GoneIs, ListingState
  <1> HIDE DEF closed
  <1>3. op.step = "list"
    BY <1>1, GoneIs DEF ListingInv
  <1>4. ListingInv' /\ ~Owes'
    BY <1>1, <1>2, <1>3 DEF ListingInv, Owes
  <1>5. CASE ~Owes
    <2>1. UNCHANGED <<searches, strayed>>
      BY <1>5, OwedIs DEF CloseListing, Owes
    <2> QED
      BY <1>1, <1>4, <1>5, <2>1, SearchesKept DEF Queued
  <1>6. CASE Owes
    <2>1. listing.sid \in Sids /\ FindClose(listing.sid)
      BY <1>6, OwedIs DEF CloseListing, Owes, ListingInv
    <2>2. ~lost /\ ~disconnected =>
            /\ searches[listing.sid].owner = "listing"
            /\ SearchClose(listing.sid) \notin Queued /\ Once(closes, "search")
      BY <1>6 DEF SearchesInv
    <2>3. Queued' = Queued /\ (Once(closes, "search") => Once(closes', "search"))
      BY <1>1 DEF Queued
    <2> QED
      BY <1>1, <1>4, <2>1, <2>2, <2>3, SearchesFreed
  <1> QED
    BY <1>5, <1>6

\* The actor sends a FIND_CLOSE2 that was queued.
LEMMA SearchesSent ==
    ASSUME QueueInv, ListingInv, SearchesInv, SendFindClose
    PROVE  /\ QueueInv' /\ SearchesInv'
           /\ \A f \in Fids : HandleClose(f) \in Queued' <=> HandleClose(f) \in Queued
           /\ Once(closes, "handle") => Once(closes', "handle")
           /\ Queued' \subseteq Queued
  <1> DEFINE c == Head(closes)
  <1>1. /\ closes # <<>> /\ c.kind = "search" /\ closes' = Tail(closes) /\ FindClose(c.id)
        /\ UNCHANGED <<disconnected, listing, lost>>
    BY DEF SendFindClose
  <1>2. /\ QueueInv' /\ c \in Closings /\ c \in Queued /\ Queued' \subseteq Queued
        /\ \A x \in Queued : x = c \/ x \in Queued'
        /\ \A kind : Once(closes, kind) => /\ Once(closes', kind)
                                           /\ c.kind = kind => c \notin Queued'
    BY <1>1, SentSet DEF QueueInv, Queued
  <1> HIDE DEF c
  <1>3. c.id \in Sids /\ c = SearchClose(c.id)
    BY <1>1, <1>2, Closing
  <1>4. \A f \in Fids : HandleClose(f) \in Queued' <=> HandleClose(f) \in Queued
    BY <1>2, <1>3, ClosesDiffer
  <1>5. \A s \in Sids \ {c.id} : SearchClose(s) \in Queued' <=> SearchClose(s) \in Queued
    BY <1>2, <1>3, ClosesDiffer
  <1>6. ~lost /\ ~disconnected =>
          /\ searches[c.id].owner = "listing"
          /\ SearchClose(c.id) \notin Queued' /\ Once(closes', "search")
          /\ Owes => listing.sid # c.id
    BY <1>1, <1>2, <1>3 DEF SearchesInv
  <1>7. (Owes' <=> Owes) /\ (Owes => listing.sid \in Sids)
    BY <1>1 DEF Owes, ListingInv
  <1>8. SearchesInv'
    BY <1>1, <1>3, <1>5, <1>6, <1>7, SearchesFreed
  <1> QED
    BY <1>2, <1>4, <1>8

\* Someone else's search takes an id that is free.
LEMMA SearchesOthers ==
    ASSUME ListingInv, SearchesInv, OtherSearch
    PROVE  SearchesInv'
  <1> DEFINE other == [NoSearch EXCEPT !.owner = "other"]
  <1>1. PICK s \in Sids : searches[s] = NoSearch /\ searches' = [searches EXCEPT ![s] = other]
    BY DEF OtherSearch
  <1>2. UNCHANGED <<disconnected, listing, closes, lost, strayed>>
    BY DEF OtherSearch
  <1>3. IsSearch(other) /\ other.owner = "other" /\ NoSearch.owner = "nobody"
    BY SearchIs
  <1> HIDE DEF other
  <1>4. (Owes' <=> Owes) /\ Queued' = Queued /\ (Owes => listing.sid \in Sids)
    BY <1>2 DEF Owes, Queued, ListingInv
  <1>5. /\ searches' = [t \in Sids |-> searches'[t]] /\ \A t \in Sids : IsSearch(searches'[t])
        /\ \A t \in Sids \ {s} : searches'[t] = searches[t]
        /\ searches'[s].owner = "other" /\ searches[s].owner = "nobody"
    BY <1>1, <1>3 DEF SearchesInv
  <1>6. CASE lost
    BY <1>2, <1>5, <1>6 DEF SearchesInv
  <1>7. CASE ~lost /\ disconnected
    BY <1>2, <1>5, <1>7 DEF SearchesInv
  <1>8. CASE ~lost /\ ~disconnected
    <2>1. \A t \in Sids : searches[t].owner = "listing" <=> searches'[t].owner = "listing"
      BY <1>5
    <2> QED
      BY <1>2, <1>4, <1>5, <1>8, <2>1 DEF SearchesInv
  <1> QED
    BY <1>6, <1>7, <1>8
\* A FIND is answered: the search stays open and the listing owes its close, or the
\* server has closed it and the listing owes nothing.
LEMMA SearchesFound ==
    ASSUME ListingInv, SearchesInv, op.step = "list", UNCHANGED <<op, closes, strayed>>,
           NEW search, IsSearch(search), search.owner = "listing" \/ disconnected,
           NEW sid \in Sids, NEW failed \in {"held", "error"}, FindReply(search, sid, failed),
           \/ listing.state = "first" /\ searches[sid] = NoSearch
           \/ listing.state = "next" /\ listing.sid = sid
    PROVE  ListingInv' /\ SearchesInv' /\ (lost => lost')
  <1> DEFINE l == [listing EXCEPT !.state = "held"]
  <1>1. PICK reply, block :
          /\ reply \in ServerReplies(search)
          /\ listing' = PagedIn(l, reply, block, sid, failed)
          /\ searches' = IF reply = Deleted THEN Discarded
                         ELSE IF sid = listing.sid \/ reply.status = "SUCCESS"
                         THEN [searches EXCEPT ![sid] = SearchAfter(search, reply)]
                         ELSE searches
          /\ disconnected' = (disconnected \/ reply = Deleted)
          /\ lost' = (lost \/ (reply.end /\ Unreadable(reply, block)))
    BY DEF FindReply
  <1>2. /\ IsListing(l) /\ l.state = "held" /\ l.sid = listing.sid
        /\ l.finished = FALSE
        /\ listing.state = "first" => listing.sid = NoSid
    BY ListingState DEF ListingInv
  <1>3. sid # NoSid
    BY TreeAssumption
  <1> HIDE DEF l
  <1>4. /\ IsListing(listing') /\ listing'.state \in {"held", "error"}
        /\ \/ reply.status = "NO_MORE_FILES" /\ listing'.sid = listing.sid
              /\ listing'.finished = TRUE
           \/ /\ reply.status \notin {"SUCCESS", "NO_MORE_FILES"}
              /\ listing'.sid = listing.sid /\ listing'.finished = FALSE
           \/ /\ reply.status = "SUCCESS" /\ listing'.sid = sid
              /\ listing'.finished = FALSE /\ Unreadable(reply, block)
           \/ reply.status = "SUCCESS" /\ listing'.sid = sid /\ listing'.finished = reply.end
    <2> DEFINE q == PagedIn(l, reply, block, sid, failed)
    <2>1. PagedTo(l, reply, block, sid, failed, q)
      BY <1>2, PagedIs
    <2>2. listing' = q
      BY <1>1
    <2> HIDE DEF q
    <2> QED
      BY <1>2, <2>1, <2>2 DEF PagedTo
  <1>5. \/ reply = Deleted
        \/ /\ ~disconnected /\ reply # Deleted
           /\ \/ reply.status = "SUCCESS" /\ reply.end \in BOOLEAN
              \/ reply.status = "NO_MORE_FILES" /\ reply.end = TRUE
              \/ reply.status = "REFUSED" /\ reply.end = FALSE
    BY <1>1, ReplyIs
  <1>6. ListingInv'
    <2>1. listing'.sid \in Sids \cup {NoSid}
      BY <1>2, <1>4 DEF ListingInv
    <2>2. listing'.finished \in BOOLEAN
      BY <1>4, <1>5, DeletedIs
    <2> QED
      BY <1>4, <2>1, <2>2 DEF ListingInv
  <1>7. CASE reply = Deleted
    <2>1. searches' = Discarded /\ disconnected' = TRUE /\ (lost => lost')
      BY <1>1, <1>7
    <2> QED
      BY <1>6, <2>1, SearchesDiscarded
  <1>8. CASE reply # Deleted
    <2>1. /\ ~disconnected /\ ~disconnected' /\ (lost => lost')
          /\ search.owner = "listing"
      BY <1>1, <1>5, <1>8
    <2>2. /\ IsSearch(SearchAfter(search, reply))
          /\ reply.end => SearchAfter(search, reply) = NoSearch
          /\ ~reply.end => SearchAfter(search, reply).owner = "listing"
          /\ NoSearch.owner = "nobody"
      BY <2>1, SearchAfterIs, SearchIs
    <2>3. /\ searches' = [s \in Sids |-> searches'[s]]
          /\ \A s \in Sids : IsSearch(searches'[s])
          /\ \A s \in Sids \ {sid} : searches'[s] = searches[s]
      BY <1>1, <1>8, <2>2 DEF SearchesInv
    <2>4. CASE lost'
      BY <1>6, <2>1, <2>3, <2>4, SearchesLost
    <2>5. CASE ~lost'
      <3>1. /\ ~lost /\ ~strayed' /\ ~(reply.end /\ Unreadable(reply, block))
            /\ Queued' = Queued /\ Once(closes', "search")
        BY <1>1, <1>8, <2>1, <2>5 DEF SearchesInv, Queued
      <3>2. /\ SearchClose(sid) \notin Queued
            /\ \A s \in Sids \ {sid} : searches[s].owner = "listing" => SearchClose(s) \in Queued
            /\ \A s \in Sids : SearchClose(s) \in Queued => searches[s].owner = "listing"
        BY <1>2, <1>3, <2>1, <2>2, <3>1 DEF SearchesInv, Owes, ListingInv
      <3>3. \/ Owes' /\ listing'.sid = sid /\ searches'[sid].owner = "listing"
            \/ ~Owes' /\ searches'[sid].owner # "listing"
        <4>1. CASE reply.status = "NO_MORE_FILES"
          <5>1. searches'[sid] = NoSearch
            BY <1>1, <1>3, <1>5, <1>8, <2>2, <4>1 DEF SearchesInv
          <5> QED
            BY <1>4, <2>2, <4>1, <5>1 DEF Owes
        <4>2. CASE reply.status = "REFUSED" /\ listing.state = "first"
          <5>1. searches' = searches /\ listing'.sid = NoSid
            BY <1>1, <1>2, <1>3, <1>4, <1>8, <4>2
          <5> QED
            BY <2>2, <4>2, <5>1 DEF Owes
        <4>3. CASE reply.status = "REFUSED" /\ listing.sid = sid
          <5>1. searches'[sid].owner = "listing"
            BY <1>1, <1>5, <1>8, <2>2, <4>3 DEF SearchesInv
          <5> QED
            BY <1>3, <1>4, <4>3, <5>1 DEF Owes
        <4>4. CASE reply.status = "SUCCESS" /\ reply.end
          <5>1. searches'[sid] = NoSearch
            BY <1>1, <1>8, <2>2, <4>4 DEF SearchesInv
          <5>2. listing'.finished
            BY <1>4, <3>1, <4>4
          <5> QED
            BY <2>2, <5>1, <5>2 DEF Owes
        <4>5. CASE reply.status = "SUCCESS" /\ ~reply.end
          <5>1. searches'[sid].owner = "listing"
            BY <1>1, <1>8, <2>2, <4>5 DEF SearchesInv
          <5>2. listing'.sid = sid /\ ~listing'.finished
            BY <1>4, <4>5
          <5> QED
            BY <1>3, <5>1, <5>2 DEF Owes
        <4> QED
          BY <1>5, <1>8, <4>1, <4>2, <4>3, <4>4, <4>5
      <3>4. \A s \in Sids : searches'[s].owner = "listing" =>
              SearchClose(s) \in Queued' \/ (Owes' /\ s = listing'.sid)
        BY <2>3, <3>1, <3>2, <3>3
      <3>5. \A s \in Sids : SearchClose(s) \in Queued' => searches'[s].owner = "listing"
        BY <2>3, <3>1, <3>2
      <3>6. Owes' => /\ searches'[listing'.sid].owner = "listing"
                     /\ SearchClose(listing'.sid) \notin Queued'
        BY <3>1, <3>2, <3>3
      <3> QED
        BY <1>6, <2>1, <2>3, <3>1, <3>4, <3>5, <3>6 DEF SearchesInv
    <2> QED
      BY <2>4, <2>5
  <1> QED
    BY <1>7, <1>8
-----------------------------------------------------------------------------
(* A verb begins. *)

LEMMA IdleIs ==
    /\ IsOp(Idle) /\ Idle.verb = "none" /\ Idle.kind = "none" /\ Idle.step = "none"
    /\ Idle.failed = "none" /\ Idle.result = "none" /\ Idle.disposition = "FILE_OPEN"
    /\ Idle.node = Share /\ Idle.to = Share /\ ~Holds(Idle)
  <1> DEFINE none == "none"
             open == "FILE_OPEN"
  <1>1. Idle = [verb |-> none, kind |-> none, node |-> Share, to |-> Share,
                disposition |-> open, step |-> none, fid |-> NoFid,
                failed |-> none, result |-> none]
    BY DEF Idle
  <1> HIDE DEF none, open
  <1>2. /\ IsOp(Idle) /\ Idle.verb = none /\ Idle.kind = none /\ Idle.step = none
        /\ Idle.failed = none /\ Idle.result = none /\ Idle.disposition = open
        /\ Idle.node = Share /\ Idle.to = Share
    BY <1>1 DEF IsOp
  <1> QED
    BY <1>2 DEF none, open, Holds

\* The first request of each program.
LEMMA FirstSteps ==
    /\ \A kind \in {"open", "create_dir", "remove_file", "remove_dir", "read", "write"} :
         Head(Program[kind]) = "create"
    /\ \A kind \in {"metadata", "exists"} : Head(Program[kind]) = "basic"
    /\ Head(Program["rename"]) = "rename" /\ Head(Program["set_path"]) = "set"
    /\ Head(Program["set_len"]) = "length" /\ Head(Program["statistics"]) = "size"
    /\ Head(Program["close_file"]) = "close"
  <1>1. \A a : Head(<<a>>) = a
    OBVIOUS
  <1>2. \A a, b : Head(<<a, b>>) = a
    OBVIOUS
  <1>3. \A a, b, c : Head(<<a, b, c>>) = a
    OBVIOUS
  <1>4. \A a, b, c, d : Head(<<a, b, c, d>>) = a
    OBVIOUS
  <1> QED
    BY <1>1, <1>2, <1>3, <1>4, Programs

LEMMA FirstStep ==
    ASSUME NEW kind \in Kinds
    PROVE  /\ Head(Program[kind]) \in StepsOf(kind)
           /\ Head(Program[kind]) \notin {"none", "list", "walk", "done", "data"}
           /\ Head(Program[kind]) = "close" => kind = "close_file"
  BY FirstSteps DEF Kinds, StepsOf

\* A program that begins is at its first request, or has ended for its path.
LEMMA BeginIs ==
    ASSUME NEW verb, NEW kind \in Kinds, NEW path, NEW to, NEW fid,
           NEW q, q = Begin(verb, kind, path, to, fid)
    PROVE  /\ IsOp(q) /\ q.verb = verb /\ q.kind = kind /\ q.fid = fid
           /\ q.failed = "none" /\ q.disposition = "FILE_OPEN"
           /\ \/ /\ q.step = "done" /\ q.result # "ok" /\ (InvalidPath(path) \/ InvalidPath(to))
                 /\ q.node = Share /\ q.to = Share
              \/ /\ q.step = Head(Program[kind]) /\ ~InvalidPath(path) /\ ~InvalidPath(to)
                 /\ q.node = NodeAt(path) /\ q.to = NodeAt(to)
  <1> DEFINE p1 == [Idle EXCEPT !.verb = verb]
             p2 == [p1 EXCEPT !.kind = kind]
             p3 == [p2 EXCEPT !.fid = fid]
             n == NodeAt(path)
             m == NodeAt(to)
             p4 == [p3 EXCEPT !.node = n]
             p5 == [p4 EXCEPT !.to = m]
             s == Head(Program[kind])
             p6 == [p5 EXCEPT !.step = s]
  <1>1. q = IF InvalidPath(path) \/ InvalidPath(to) THEN Ended(p3, "InvalidPath") ELSE p6
    BY DEF Begin
  <1>2. p1 = [Idle EXCEPT !.verb = verb]
    OBVIOUS
  <1>3. p2 = [p1 EXCEPT !.kind = kind]
    OBVIOUS
  <1>4. p3 = [p2 EXCEPT !.fid = fid]
    OBVIOUS
  <1>5. p4 = [p3 EXCEPT !.node = n]
    OBVIOUS
  <1>6. p5 = [p4 EXCEPT !.to = m]
    OBVIOUS
  <1>7. p6 = [p5 EXCEPT !.step = s]
    OBVIOUS
  <1>8. s = Head(Program[kind]) /\ n = NodeAt(path) /\ m = NodeAt(to)
    OBVIOUS
  <1> HIDE DEF p1, p2, p3, n, m, p4, p5, s, p6
  <1>9. /\ IsOp(p1) /\ p1.verb = verb /\ p1.failed = "none" /\ p1.disposition = "FILE_OPEN"
        /\ p1.node = Share /\ p1.to = Share
    BY <1>2, IdleIs, SetVerb
  <1>10. /\ IsOp(p2) /\ p2.verb = verb /\ p2.failed = "none" /\ p2.disposition = "FILE_OPEN"
        /\ p2.kind = kind /\ p2.node = Share /\ p2.to = Share
    BY <1>3, <1>9, SetKind
  <1>11. /\ IsOp(p3) /\ p3.verb = verb /\ p3.failed = "none" /\ p3.disposition = "FILE_OPEN"
        /\ p3.kind = kind /\ p3.fid = fid /\ p3.node = Share /\ p3.to = Share
    BY <1>4, <1>10, SetFid
  <1>12. /\ IsOp(p4) /\ p4.verb = verb /\ p4.failed = "none" /\ p4.disposition = "FILE_OPEN"
        /\ p4.kind = kind /\ p4.fid = fid /\ p4.node = n
    BY <1>5, <1>11, SetNode
  <1>13. /\ IsOp(p5) /\ p5.verb = verb /\ p5.failed = "none" /\ p5.disposition = "FILE_OPEN"
        /\ p5.kind = kind /\ p5.fid = fid /\ p5.node = n /\ p5.to = m
    BY <1>6, <1>12, SetTo
  <1>14. /\ IsOp(p6) /\ p6.verb = verb /\ p6.failed = "none" /\ p6.disposition = "FILE_OPEN"
        /\ p6.kind = kind /\ p6.fid = fid /\ p6.step = s /\ p6.node = n /\ p6.to = m
    BY <1>7, <1>13, SetStep
  <1>15. CASE InvalidPath(path) \/ InvalidPath(to)
    <2>1. q = Ended(p3, "InvalidPath")
      BY <1>1, <1>15
    <2> QED
      BY <1>11, <1>15, <2>1, EndedIs
  <1>16. CASE ~(InvalidPath(path) \/ InvalidPath(to))
    BY <1>1, <1>8, <1>14, <1>16
  <1> QED
    BY <1>15, <1>16

LEMMA RootIsValid == ~InvalidPath(<<>>)
  BY DEF InvalidPath, Normalized, EscapesShareRoot, ToSet

-----------------------------------------------------------------------------
(* The handles. *)

\* Once the tree is gone there are none, whoever thinks he has one.
LEMMA HandlesOff ==
    ASSUME HandlesInv, disconnected', file' \in Fids \cup {NoFid},
           (disconnected /\ handles' = handles) \/ handles' = [f \in Fids |-> NoHandle],
           Holds(op') => op'.fid \in Fids
    PROVE  HandlesInv'
  <1>1. /\ handles' = [f \in Fids |-> handles'[f]]
        /\ \A f \in Fids : IsHandle(handles'[f]) /\ handles'[f] = NoHandle
    BY HandleIs DEF HandlesInv
  <1> QED
    BY <1>1 DEF HandlesInv

\* A step that leaves the handles and their owners alone.
LEMMA HandlesKept ==
    ASSUME HandlesInv, UNCHANGED <<handles, file>>, disconnected' <=> disconnected,
           lost => lost',
           \A f \in Fids : HandleClose(f) \in Queued' <=> HandleClose(f) \in Queued,
           Once(closes, "handle") => Once(closes', "handle"),
           Holds(op') => /\ Holds(op) /\ op'.fid = op.fid /\ op'.kind = op.kind
                         /\ op'.node = op.node,
           ~disconnected /\ Holds(op) => lost' \/ Holds(op'),
           ~disconnected /\ Holds(op') /\ op.kind \in Deletes => op.node \in exists' \ doomed'
    PROVE  HandlesInv'
  <1>1. CASE disconnected
    <2>1. Holds(op') => op'.fid \in Fids
      BY DEF HandlesInv
    <2>2. disconnected' /\ file' \in Fids \cup {NoFid} /\ handles' = handles
      BY <1>1 DEF HandlesInv
    <2> QED
      BY <1>1, <2>1, <2>2, HandlesOff
  <1>2. CASE ~disconnected
    <2>1. /\ handles' = [f \in Fids |-> handles'[f]] /\ \A f \in Fids : IsHandle(handles'[f])
          /\ file' \in Fids \cup {NoFid} /\ (Holds(op') => op'.fid \in Fids)
          /\ \A f : Plain(f)' <=> Plain(f)
      BY DEF HandlesInv, Plain
    <2>2. Holds(op') =>
            /\ op'.fid # file' /\ HandleClose(op'.fid) \notin Queued'
            /\ op'.kind \in {"open", "read", "write"} => Plain(op.fid)'
            /\ op'.kind \in Deletes =>
                 /\ handles'[op'.fid].node = op'.node /\ handles'[op'.fid].deletes
                 /\ op'.node \in exists' \ doomed'
                 /\ op'.kind = "remove_file" => op'.node \notin Dirs
      BY <1>2, <2>1 DEF HandlesInv
    <2>3. ~lost' => \A f \in Fids : handles'[f] # NoHandle =>
            f = file' \/ HandleClose(f) \in Queued' \/ (Holds(op') /\ f = op'.fid)
      BY <1>2, <2>1 DEF HandlesInv
    <2>4. /\ file' # NoFid => Plain(file)'
          /\ \A f \in Fids : HandleClose(f) \in Queued' => Plain(f)' /\ f # file'
          /\ Once(closes', "handle")
      BY <1>2, <2>1 DEF HandlesInv
    <2> QED
      BY <1>2, <2>1, <2>2, <2>3, <2>4 DEF HandlesInv, Plain
  <1> QED
    BY <1>1, <1>2

\* The server opens a handle for a verb that had none.
LEMMA HandlesOpened ==
    ASSUME HandlesInv, ~disconnected, UNCHANGED <<file, disconnected>>, lost => lost',
           \A f \in Fids : HandleClose(f) \in Queued' <=> HandleClose(f) \in Queued,
           Once(closes, "handle") => Once(closes', "handle"),
           ~Holds(op), NEW fid \in Fids \ OpenFids, NEW h, IsHandle(h),
           handles' = [handles EXCEPT ![fid] = h],
           \/ lost' /\ ~Holds(op')
           \/ /\ Holds(op') /\ op'.fid = fid
              /\ op'.kind \in {"open", "read", "write"} => h # NoHandle /\ ~h.deletes
              /\ op'.kind \in Deletes => /\ h.node = op'.node /\ h.deletes
                                         /\ op'.node \in exists' \ doomed'
                                         /\ op'.kind = "remove_file" => op'.node \notin Dirs
    PROVE  HandlesInv'
  <1>1. handles[fid] = NoHandle /\ fid # file /\ HandleClose(fid) \notin Queued
    <2>1. handles[fid] = NoHandle
      BY DEF OpenFids
    <2> QED
      BY <2>1, CallsAssumption DEF HandlesInv, Plain
  <1>2. /\ handles' = [f \in Fids |-> handles'[f]] /\ \A f \in Fids : IsHandle(handles'[f])
        /\ handles'[fid] = h /\ \A f \in Fids \ {fid} : handles'[f] = handles[f]
    BY DEF HandlesInv
  <1>3. /\ file' \in Fids \cup {NoFid} /\ (file' # NoFid => Plain(file)')
        /\ \A f \in Fids : HandleClose(f) \in Queued' => Plain(f)' /\ f # file'
        /\ Once(closes', "handle")
    BY <1>1, <1>2 DEF HandlesInv, Plain
  <1>4. Holds(op') =>
          /\ op'.fid \in Fids /\ op'.fid # file' /\ HandleClose(op'.fid) \notin Queued'
          /\ op'.kind \in {"open", "read", "write"} => Plain(op.fid)'
          /\ op'.kind \in Deletes =>
               /\ handles'[op'.fid].node = op'.node /\ handles'[op'.fid].deletes
               /\ op'.node \in exists' \ doomed'
               /\ op'.kind = "remove_file" => op'.node \notin Dirs
    BY <1>1, <1>2 DEF HandlesInv, Plain
  <1>5. ~lost' => \A f \in Fids : handles'[f] # NoHandle =>
          f = file' \/ HandleClose(f) \in Queued' \/ (Holds(op') /\ f = op'.fid)
    BY <1>1, <1>2 DEF HandlesInv
  <1> QED
    BY <1>2, <1>3, <1>4, <1>5 DEF HandlesInv, Plain

\* The server closes a handle that its owner has given up.
LEMMA HandlesFreed ==
    ASSUME HandlesInv, ~disconnected, UNCHANGED <<file, disconnected>>, lost => lost',
           NEW fid \in Fids, handles' = [handles EXCEPT ![fid] = NoHandle], fid # file,
           \A f \in Fids \ {fid} : HandleClose(f) \in Queued' <=> HandleClose(f) \in Queued,
           HandleClose(fid) \notin Queued', Once(closes, "handle") => Once(closes', "handle"),
           Holds(op') => Holds(op) /\ op' = op /\ op.fid # fid /\ UNCHANGED <<exists, doomed>>,
           Holds(op) => Holds(op') \/ op.fid = fid \/ lost'
    PROVE  HandlesInv'
  <1>1. /\ handles' = [f \in Fids |-> handles'[f]] /\ \A f \in Fids : IsHandle(handles'[f])
        /\ handles'[fid] = NoHandle /\ \A f \in Fids \ {fid} : handles'[f] = handles[f]
    BY HandleIs DEF HandlesInv
  <1>2. /\ file' \in Fids \cup {NoFid} /\ (file' # NoFid => Plain(file)')
        /\ \A f \in Fids : HandleClose(f) \in Queued' => Plain(f)' /\ f # file'
        /\ Once(closes', "handle")
    BY <1>1 DEF HandlesInv, Plain
  <1>3. Holds(op') =>
          /\ op'.fid \in Fids /\ op'.fid # file' /\ HandleClose(op'.fid) \notin Queued'
          /\ op'.kind \in {"open", "read", "write"} => Plain(op.fid)'
          /\ op'.kind \in Deletes =>
               /\ handles'[op'.fid].node = op'.node /\ handles'[op'.fid].deletes
               /\ op'.node \in exists' \ doomed'
               /\ op'.kind = "remove_file" => op'.node \notin Dirs
    BY <1>1 DEF HandlesInv, Plain
  <1>4. ~lost' => \A f \in Fids : handles'[f] # NoHandle =>
          f = file' \/ HandleClose(f) \in Queued' \/ (Holds(op') /\ f = op'.fid)
    BY <1>1 DEF HandlesInv
  <1> QED
    BY <1>1, <1>2, <1>3, <1>4 DEF HandlesInv, Plain

\* What becomes of the handle a verb held when the verb ends at its close.
LEMMA Closed ==
    ASSUME NEW f \in Fids, CloseHandle(f)
    PROVE  /\ handles' = [handles EXCEPT ![f] = NoHandle]
           /\ exists' \subseteq exists /\ doomed \subseteq doomed'
           /\ ~handles[f].deletes => UNCHANGED <<exists, present, doomed, touched>>
           /\ handles[f].deletes /\ handles[f].node \in exists
                /\ Children(handles[f].node) = {} =>
                handles[f].node \notin exists' \/ handles[f].node \in doomed'
  BY DEF CloseHandle
-----------------------------------------------------------------------------
(* The listing's steps. *)

LEMMA ListingRests ==
    ASSUME ListingInv, listing' = listing, op.step = "list" => op'.step = "list"
    PROVE  ListingInv'
  BY DEF ListingInv

LEMMA ListingGone ==
    ASSUME listing' = Gone
    PROVE  ListingInv' /\ ~Owes'
  BY GoneIs DEF ListingInv, Owes

LEMMA OpRests ==
    ASSUME OpInv, UNCHANGED <<op, file, inherited>>, Queued' \subseteq Queued
    PROVE  OpInv'
  BY DEF OpInv

\* The handles of a step of the listing: they go with the tree.
LEMMA HandlesListed ==
    ASSUME HandlesInv, UNCHANGED <<op, file, doomed, exists>>, disconnected => disconnected',
           handles' = IF disconnected' THEN [f \in Fids |-> NoHandle] ELSE handles,
           lost => lost',
           \A f \in Fids : HandleClose(f) \in Queued' <=> HandleClose(f) \in Queued,
           Once(closes, "handle") => Once(closes', "handle")
    PROVE  HandlesInv'
  <1>1. (Holds(op') <=> Holds(op)) /\ (Holds(op) => op.fid \in Fids)
    BY DEF HandlesInv
  <1>2. CASE disconnected'
    BY <1>1, <1>2, HandlesOff DEF HandlesInv
  <1>3. CASE ~disconnected'
    <2>1. UNCHANGED <<handles, file>> /\ (disconnected' <=> disconnected)
      BY <1>3
    <2>2. Holds(op) /\ ~disconnected /\ op.kind \in Deletes => op.node \in exists' \ doomed'
      BY DEF HandlesInv
    <2> QED
      BY <1>1, <2>1, <2>2, HandlesKept
  <1> QED
    BY <1>2, <1>3

\* What a step of the listing does to the rest.
Aside ==
    /\ handles' = IF disconnected' THEN [f \in Fids |-> NoHandle] ELSE handles
    /\ UNCHANGED <<op, levels, file, held, doomed, calls, touched, inherited>>

\* Those in which nothing is queued or sent.
LEMMA ListedInv ==
    ASSUME Inv, Aside, UNCHANGED <<closes, exists>>, disconnected => disconnected',
           lost => lost', ListingInv', SearchesInv'
    PROVE  Inv'
  <1>1. /\ UNCHANGED <<op, file, doomed, inherited>>
        /\ handles' = IF disconnected' THEN [f \in Fids |-> NoHandle] ELSE handles
    BY DEF Aside
  <1>2. Queued' = Queued /\ (\A kind : Once(closes, kind) => Once(closes', kind)) /\ QueueInv'
    BY DEF Queued, QueueInv, Inv
  <1>3. OpInv'
    BY <1>1, <1>2, OpRests DEF Inv
  <1>4. HandlesInv'
    BY <1>1, <1>2, HandlesListed DEF Inv
  <1> QED
    BY <1>2, <1>3, <1>4 DEF Inv

\* Those that only move the listing on: it owes what it owed.
LEMMA ListedOn ==
    ASSUME Inv, Aside, UNCHANGED <<closes, exists, disconnected, searches, strayed, lost>>,
           IsListing(listing'), listing'.sid = listing.sid, listing'.finished = listing.finished,
           listing # Gone,
           \/ listing'.state \in {"held", "drained", "error"}
           \/ listing'.state = "next" /\ ~listing.finished /\ listing.sid # NoSid
    PROVE  Inv'
  <1>1. ListingInv'
    <2>1. op' = op /\ op.step = "list"
      BY DEF Aside, Inv, ListingInv
    <2> QED
      BY <2>1 DEF Inv, ListingInv
  <1>2. (Owes' <=> Owes) /\ (Owes => listing.sid \in Sids)
    BY DEF Owes, Inv, ListingInv
  <1>3. Queued' = Queued /\ (\A kind : Once(closes, kind) => Once(closes', kind))
    BY DEF Queued
  <1>4. SearchesInv'
    BY <1>2, <1>3, SearchesKept DEF Inv
  <1> QED
    BY <1>1, <1>4, ListedInv

LEMMA FindFirstStep ==
    ASSUME Inv, FindFirst, Aside
    PROVE  Inv'
  <1>1. /\ FindFirst /\ op' = op
        /\ UNCHANGED <<exists, closes, strayed>>
    BY DEF Aside, FindFirst
  <1>2. op.step = "list" /\ listing # Gone /\ listing.state = "first"
    BY <1>1, GoneIs DEF FindFirst, Inv, ListingInv
  <1>3. CASE listing.dir \in exists \cap Dirs
    <2> DEFINE search == [owner |-> "listing", dir |-> listing.dir, returned |-> {}]
    <2>1. PICK sid \in Sids : searches[sid] = NoSearch /\ FindReply(search, sid, "error")
      BY <1>1, <1>3 DEF FindFirst
    <2>2. IsSearch(search) /\ search.owner = "listing"
      BY SearchIs
    <2> HIDE DEF search
    <2>3. ListingInv' /\ SearchesInv' /\ (lost => lost')
      BY <1>1, <1>2, <2>1, <2>2, SearchesFound DEF Inv
    <2>4. disconnected => disconnected'
      BY <2>1 DEF FindReply
    <2> QED
      BY <1>1, <2>3, <2>4, ListedInv
  <1>4. CASE listing.dir \notin exists \cap Dirs
    <2>1. /\ listing' = [listing EXCEPT !.state = "error"]
          /\ UNCHANGED <<searches, disconnected, lost>>
      BY <1>1, <1>4 DEF FindFirst
    <2>2. /\ IsListing(listing') /\ listing'.state = "error"
          /\ listing'.sid = listing.sid /\ listing'.finished = listing.finished
      BY <2>1, ListingState DEF Inv, ListingInv
    <2> QED
      BY <1>1, <1>2, <2>1, <2>2, ListedOn
  <1> QED
    BY <1>3, <1>4

LEMMA NextEntryStep ==
    ASSUME Inv, NextEntry, Aside
    PROVE  Inv'
  <1> DEFINE page == Tail(listing.page)
  <1>1. /\ listing.state = "held" /\ listing' = [listing EXCEPT !.page = page]
        /\ UNCHANGED <<closes, exists, disconnected, searches, strayed, lost>>
    BY DEF Aside, NextEntry
  <1> HIDE DEF page
  <1>2. /\ IsListing(listing') /\ listing'.state = "held" /\ listing # Gone
        /\ listing'.sid = listing.sid /\ listing'.finished = listing.finished
    <2>1. IsListing(listing)
      BY DEF Inv, ListingInv
    <2>2. /\ IsListing(listing') /\ listing'.state = listing.state
          /\ listing'.sid = listing.sid /\ listing'.finished = listing.finished
      BY <1>1, <2>1, ListingPage
    <2> QED
      BY <1>1, <2>2, GoneIs
  <1> QED
    BY <1>1, <1>2, ListedOn

LEMMA NextIsNoneStep ==
    ASSUME Inv, NextIsNone, Aside
    PROVE  Inv'
  <1>1. /\ listing.state = "held" /\ listing' = [listing EXCEPT !.state = "drained"]
        /\ UNCHANGED <<closes, exists, disconnected, searches, strayed, lost>>
    BY DEF Aside, NextIsNone
  <1>2. /\ IsListing(listing') /\ listing'.state = "drained" /\ listing # Gone
        /\ listing'.sid = listing.sid /\ listing'.finished = listing.finished
    BY <1>1, ListingState, GoneIs DEF Inv, ListingInv
  <1> QED
    BY <1>1, <1>2, ListedOn

LEMMA NextRoundStep ==
    ASSUME Inv, NextRound, Aside
    PROVE  Inv'
  <1>1. /\ listing.state = "held" /\ listing' = [listing EXCEPT !.state = "next"]
        /\ ~listing.finished /\ listing.sid # NoSid
        /\ UNCHANGED <<closes, exists, disconnected, searches, strayed, lost>>
    BY DEF Aside, NextRound
  <1>2. /\ IsListing(listing') /\ listing'.state = "next" /\ listing # Gone
        /\ listing'.sid = listing.sid /\ listing'.finished = listing.finished
    BY <1>1, ListingState, GoneIs DEF Inv, ListingInv
  <1> QED
    BY <1>1, <1>2, ListedOn

LEMMA FindNextStep ==
    ASSUME Inv, NEW failed \in {"held", "error"}, FindNext(failed), Aside
    PROVE  Inv'
  <1>1. /\ FindNext(failed) /\ op' = op
        /\ UNCHANGED <<exists, closes, strayed>>
    BY DEF Aside, FindNext
  <1>2. op.step = "list" /\ listing # Gone /\ listing.state = "next" /\ listing.sid \in Sids
    BY <1>1, GoneIs DEF FindNext, Inv, ListingInv
  <1>3. CASE searches[listing.sid].owner = "listing" \/ disconnected
    <2> DEFINE search == searches[listing.sid]
    <2>1. FindReply(search, listing.sid, failed)
      BY <1>1, <1>3 DEF FindNext
    <2>2. IsSearch(search) /\ (search.owner = "listing" \/ disconnected)
      BY <1>2, <1>3 DEF Inv, SearchesInv
    <2> HIDE DEF search
    <2>3. ListingInv' /\ SearchesInv' /\ (lost => lost')
      BY <1>1, <1>2, <2>1, <2>2, SearchesFound DEF Inv
    <2>4. disconnected => disconnected'
      BY <2>1 DEF FindReply
    <2> QED
      BY <1>1, <2>3, <2>4, ListedInv
  <1>4. CASE searches[listing.sid].owner # "listing" /\ ~disconnected
    <2>1. /\ listing' = [listing EXCEPT !.state = failed]
          /\ UNCHANGED <<searches, disconnected, lost>>
      BY <1>1, <1>4 DEF FindNext
    <2>2. /\ IsListing(listing') /\ listing'.state = failed
          /\ listing'.sid = listing.sid /\ listing'.finished = listing.finished
      BY <2>1, ListingState DEF Inv, ListingInv
    <2> QED
      BY <1>1, <1>2, <2>1, <2>2, ListedOn
  <1> QED
    BY <1>3, <1>4

LEMMA LoseReplyStep ==
    ASSUME Inv, NEW state \in {"held", "error"}, LoseReply(state), Aside
    PROVE  Inv'
  <1> DEFINE kept == IF listing.state = "first" THEN "error" ELSE state
  <1>1. /\ LoseReply(state) /\ op' = op /\ lost'
        /\ listing.state \in {"first", "next"}
        /\ listing' = [listing EXCEPT !.state = kept]
        /\ UNCHANGED <<disconnected, exists, closes, strayed>>
    BY DEF Aside, LoseReply
  <1>2. kept \in {"held", "error"}
    OBVIOUS
  <1> HIDE DEF kept
  <1>3. op.step = "list"
    BY <1>1, GoneIs DEF Inv, ListingInv
  <1>4. ListingInv'
    <2>1. /\ IsListing(listing') /\ listing'.state = kept
          /\ listing'.sid = listing.sid /\ listing'.finished = listing.finished
      BY <1>1, ListingState DEF Inv, ListingInv
    <2> QED
      BY <1>1, <1>2, <1>3, <2>1 DEF Inv, ListingInv
  <1>5. searches' = [s \in Sids |-> searches'[s]] /\ \A s \in Sids : IsSearch(searches'[s])
    <2>1. CASE searches' = searches
      BY <2>1 DEF Inv, SearchesInv
    <2>2. ASSUME NEW sid \in Sids, NEW search, IsSearch(search),
                 searches' = [searches EXCEPT ![sid] = search]
          PROVE  /\ searches' = [s \in Sids |-> searches'[s]]
                 /\ \A s \in Sids : IsSearch(searches'[s])
      BY <2>2 DEF Inv, SearchesInv
    <2>3. CASE /\ listing.state = "next"
               /\ \E reply \in ServerReplies(searches[listing.sid]) :
                    searches' = [searches EXCEPT ![listing.sid] =
                                   SearchAfter(searches[listing.sid], reply)]
      <3>1. listing.sid \in Sids /\ IsSearch(searches[listing.sid])
        BY <2>3 DEF Inv, ListingInv, SearchesInv
      <3>2. PICK reply : searches' = [searches EXCEPT ![listing.sid] =
                                        SearchAfter(searches[listing.sid], reply)]
        BY <2>3
      <3> DEFINE search == SearchAfter(searches[listing.sid], reply)
      <3>3. IsSearch(search) /\ searches' = [searches EXCEPT ![listing.sid] = search]
        BY <3>1, <3>2, SearchAfterIs
      <3> HIDE DEF search
      <3> QED
        BY <2>2, <3>1, <3>3
    <2>4. CASE \E sid \in Sids :
                 searches' = [searches EXCEPT ![sid] =
                   [owner |-> "listing", dir |-> listing.dir, returned |-> {}]]
      <3> DEFINE search == [owner |-> "listing", dir |-> listing.dir, returned |-> {}]
      <3>1. IsSearch(search)
        BY SearchIs
      <3>2. PICK sid \in Sids : searches' = [searches EXCEPT ![sid] = search]
        BY <2>4
      <3> HIDE DEF search
      <3> QED
        BY <2>2, <3>1, <3>2
    <2> QED
      BY <1>1, <2>1, <2>3, <2>4 DEF LoseReply
  <1>6. SearchesInv'
    BY <1>1, <1>5, SearchesLost
  <1> QED
    BY <1>1, <1>4, <1>6, ListedInv

LEMMA CloseListingStep ==
    ASSUME Inv, CloseListing, Aside
    PROVE  Inv'
  <1>1. CloseListing /\ op' = op /\ UNCHANGED <<closes, exists, disconnected, lost>>
    BY DEF Aside, CloseListing
  <1>2. ListingInv' /\ SearchesInv'
    BY <1>1, SearchesClosed DEF Inv
  <1> QED
    BY <1>1, <1>2, ListedInv

LEMMA OtherSearchStep ==
    ASSUME Inv, OtherSearch, Aside
    PROVE  Inv'
  <1>1. OtherSearch /\ op' = op /\ UNCHANGED <<closes, exists, disconnected, lost, listing>>
    BY DEF Aside, OtherSearch
  <1>2. ListingInv' /\ SearchesInv'
    BY <1>1, SearchesOthers, ListingRests DEF Inv
  <1> QED
    BY <1>1, <1>2, ListedInv

LEMMA SendFindCloseStep ==
    ASSUME Inv, SendFindClose, Aside
    PROVE  Inv'
  <1>1. /\ SendFindClose /\ UNCHANGED <<op, file, doomed, inherited>>
        /\ handles' = IF disconnected' THEN [f \in Fids |-> NoHandle] ELSE handles
        /\ UNCHANGED <<exists, disconnected, lost, listing>>
    BY DEF Aside, SendFindClose
  <1>2. /\ QueueInv' /\ SearchesInv'
        /\ \A f \in Fids : HandleClose(f) \in Queued' <=> HandleClose(f) \in Queued
        /\ Once(closes, "handle") => Once(closes', "handle")
        /\ Queued' \subseteq Queued
    BY <1>1, SearchesSent DEF Inv
  <1>3. ListingInv'
    BY <1>1, ListingRests DEF Inv
  <1>4. OpInv'
    BY <1>1, <1>2, OpRests DEF Inv
  <1>5. HandlesInv'
    BY <1>1, <1>2, HandlesListed DEF Inv
  <1> QED
    BY <1>2, <1>3, <1>4, <1>5 DEF Inv
-----------------------------------------------------------------------------
(* The verbs that list. *)

\* A step of a verb that holds no handle, before or after, and no search.
LEMMA VerbInv ==
    ASSUME Inv, UNCHANGED <<closes, searches, strayed, lost, disconnected, handles, file>>,
           OpInv', ListingInv', ~Owes, ~Owes', ~Holds(op), ~Holds(op')
    PROVE  Inv'
  <1>1. Queued' = Queued /\ (\A kind : Once(closes, kind) => Once(closes', kind)) /\ QueueInv'
    BY DEF Queued, QueueInv, Inv
  <1>2. SearchesInv'
    BY <1>1, SearchesKept DEF Inv
  <1>3. HandlesInv'
    BY <1>1, HandlesKept DEF Inv
  <1> QED
    BY <1>1, <1>2, <1>3 DEF Inv

\* One that lets its ReadDir go.
LEMMA DroppedInv ==
    ASSUME Inv, DropListing, op.step = "list", op' = Idle,
           UNCHANGED <<searches, strayed, lost, disconnected, handles, file, exists, doomed>>
    PROVE  Inv'
  <1>1. /\ QueueInv' /\ SearchesInv'
        /\ \A f \in Fids : HandleClose(f) \in Queued' <=> HandleClose(f) \in Queued
        /\ Once(closes, "handle") => Once(closes', "handle")
    BY SearchesDropped DEF Inv
  <1>2. ~Holds(op) /\ ~Holds(op')
    BY IdleIs DEF Holds
  <1>3. OpInv'
    BY IdleIs DEF OpInv, Inv, Deletes
  <1>4. ListingInv'
    BY ListingGone DEF DropListing
  <1>5. HandlesInv'
    BY <1>1, <1>2, HandlesKept DEF Inv
  <1> QED
    BY <1>1, <1>3, <1>4, <1>5 DEF Inv

LEMMA Rests ==
    ASSUME Inv, op.step # "list" \/ listing.state = "closed"
    PROVE  ~Owes
  BY GoneIs DEF Inv, ListingInv, Owes

LEMMA StartsListing ==
    ASSUME NEW dir, StartListing(dir), op'.step = "list"
    PROVE  ListingInv' /\ ~Owes'
  <1> DEFINE l == [Gone EXCEPT !.state = "first"]
  <1>1. listing' = [l EXCEPT !.dir = dir]
    BY DEF StartListing
  <1>2. IsListing(l) /\ l.state = "first" /\ l.sid = NoSid /\ l.finished = FALSE
    BY GoneIs, ListingState
  <1> HIDE DEF l
  <1>3. /\ IsListing(listing') /\ listing'.state = "first" /\ listing'.sid = NoSid
        /\ listing'.finished = FALSE
    BY <1>1, <1>2, ListingDir
  <1> QED
    BY <1>3 DEF ListingInv, Owes

\* A verb that has only got its name, and lists.
Lister(verb) == [Idle EXCEPT !.verb = verb, !.step = "list"]

LEMMA ListsIs ==
    ASSUME NEW verb
    PROVE  /\ IsOp(Lister(verb)) /\ Lister(verb).verb = verb /\ Lister(verb).step = "list"
           /\ Lister(verb).kind = "none" /\ ~Holds(Lister(verb))
           /\ Lister(verb).node = Share /\ Lister(verb).to = Share
  <1> DEFINE p == [Idle EXCEPT !.verb = verb]
             q == [p EXCEPT !.step = "list"]
  <1>1. Lister(verb) = q
    BY DEF Lister
  <1>2. p = [Idle EXCEPT !.verb = verb]
    OBVIOUS
  <1>3. q = [p EXCEPT !.step = "list"]
    OBVIOUS
  <1> HIDE DEF p, q
  <1>4. IsOp(p) /\ p.verb = verb /\ p.kind = "none" /\ p.node = Share /\ p.to = Share
    BY <1>2, IdleIs, SetVerb
  <1>5. /\ IsOp(q) /\ q.verb = verb /\ q.step = "list" /\ q.kind = "none"
        /\ q.node = Share /\ q.to = Share
    BY <1>3, <1>4, SetStep
  <1> QED
    BY <1>1, <1>5 DEF Holds

\* A verb whose path is refused is over at once.
Refusal(verb) == Ended([Idle EXCEPT !.verb = verb], "InvalidPath")

LEMMA RefusalIs ==
    ASSUME NEW verb
    PROVE  /\ IsOp(Refusal(verb)) /\ Refusal(verb).verb = verb /\ Refusal(verb).step = "done"
           /\ Refusal(verb).kind = "none" /\ ~Holds(Refusal(verb))
           /\ Refusal(verb).result = "InvalidPath"
           /\ Refusal(verb).node = Share /\ Refusal(verb).to = Share
  <1> DEFINE p == [Idle EXCEPT !.verb = verb]
  <1>1. p = [Idle EXCEPT !.verb = verb]
    OBVIOUS
  <1>2. Refusal(verb) = Ended(p, "InvalidPath")
    BY DEF Refusal
  <1> HIDE DEF p
  <1>3. IsOp(p) /\ p.verb = verb /\ p.kind = "none" /\ p.node = Share /\ p.to = Share
    BY <1>1, IdleIs, SetVerb
  <1>4. /\ IsOp(Refusal(verb)) /\ Refusal(verb).verb = verb /\ Refusal(verb).step = "done"
        /\ Refusal(verb).kind = "none" /\ Refusal(verb).node = Share
        /\ Refusal(verb).to = Share /\ Refusal(verb).result = "InvalidPath"
    BY <1>2, <1>3, EndedIs
  <1> QED
    BY <1>4 DEF Holds

LEMMA ReadDirStep ==
    ASSUME Inv, ReadDir
    PROVE  Inv'
  <1>1. /\ op = Idle /\ UNCHANGED <<closes, searches, strayed, lost, disconnected, handles, file>>
    BY DEF ReadDir
  <1>2. ~Owes /\ ~Holds(op) /\ op.step = "none" /\ listing = Gone
    BY <1>1, Rests, IdleIs DEF Inv, ListingInv
  <1>3. CASE op' = Refusal("read_dir") /\ listing' = listing
    <2>1. /\ IsOp(op') /\ op'.verb = "read_dir" /\ op'.step = "done" /\ op'.kind = "none"
          /\ ~Holds(op')
      BY <1>3, RefusalIs
    <2>2. OpInv'
      BY <2>1 DEF OpInv, Deletes
    <2>3. ListingInv' /\ ~Owes'
      BY <1>2, <1>3, ListingGone
    <2> QED
      BY <1>1, <1>2, <2>1, <2>2, <2>3, VerbInv
  <1>4. CASE /\ \E dir : StartListing(dir)
             /\ op' = Lister("read_dir")
    <2>1. IsOp(op') /\ op'.verb = "read_dir" /\ op'.step = "list" /\ op'.kind = "none" /\ ~Holds(op')
      BY <1>4, ListsIs
    <2>2. OpInv'
      BY <2>1 DEF OpInv, Deletes
    <2>3. ListingInv' /\ ~Owes'
      BY <1>4, <2>1, StartsListing
    <2> QED
      BY <1>1, <1>2, <2>1, <2>2, <2>3, VerbInv
  <1> QED
    BY <1>3, <1>4 DEF ReadDir, Lister, Refusal

LEMMA LetGoStep ==
    ASSUME Inv, LetGo
    PROVE  Inv'
  <1>1. /\ op' = Idle /\ listing.state \in {"held", "drained", "error", "closed"}
        /\ UNCHANGED <<searches, strayed, lost, disconnected, handles, file, exists, doomed>>
    BY DEF LetGo
  <1>2. op.step = "list"
    BY <1>1, GoneIs DEF Inv, ListingInv
  <1>3. CASE DropListing
    BY <1>1, <1>2, <1>3, DroppedInv
  <1>4. CASE listing.state = "closed" /\ listing' = Gone /\ UNCHANGED closes
    <2>1. ~Owes /\ ~Holds(op) /\ ~Holds(op')
      BY <1>1, <1>2, <1>4, Rests, IdleIs DEF Holds
    <2>2. ListingInv' /\ ~Owes'
      BY <1>4, ListingGone
    <2>3. OpInv'
      BY <1>1, IdleIs DEF OpInv, Inv, Deletes
    <2> QED
      BY <1>1, <1>4, <2>1, <2>2, <2>3, VerbInv
  <1> QED
    BY <1>3, <1>4 DEF LetGo

LEMMA LevelFailsStep ==
    ASSUME Inv, LevelFails
    PROVE  Inv'
  <1>1. /\ op' = Idle /\ listing.state \in {"held", "drained", "error"} /\ DropListing
        /\ UNCHANGED <<searches, strayed, lost, disconnected, handles, file, exists, doomed>>
    BY DEF LevelFails
  <1>2. op.step = "list"
    BY <1>1, GoneIs DEF Inv, ListingInv
  <1> QED
    BY <1>1, <1>2, DroppedInv

LEMMA EntersLevel ==
    ASSUME Inv, op.step # "list", ~Holds(op), NEW path, NEW under, EnterLevel(path, under),
           UNCHANGED <<closes, searches, strayed, lost, disconnected, handles, file>>,
           Queued \subseteq inherited'
    PROVE  Inv'
  <1>1. ~Owes /\ listing = Gone
    BY Rests DEF Inv, ListingInv
  <1>2. CASE op' = Refusal("remove_dir_all") /\ listing' = listing
    <2>1. /\ IsOp(op') /\ op'.verb = "remove_dir_all" /\ op'.step = "done"
          /\ op'.kind = "none" /\ ~Holds(op')
      BY <1>2, RefusalIs
    <2>2. OpInv'
      BY <2>1 DEF OpInv, Deletes, Queued
    <2>3. ListingInv' /\ ~Owes'
      BY <1>1, <1>2, ListingGone
    <2> QED
      BY <1>1, <2>1, <2>2, <2>3, VerbInv
  <1>3. CASE op' = Lister("remove_dir_all") /\ StartListing(DirAt(path))
    <2>1. /\ IsOp(op') /\ op'.verb = "remove_dir_all" /\ op'.step = "list"
          /\ op'.kind = "none" /\ ~Holds(op')
      BY <1>3, ListsIs
    <2>2. OpInv'
      BY <2>1 DEF OpInv, Deletes, Queued
    <2>3. ListingInv' /\ ~Owes'
      BY <1>3, <2>1, StartsListing
    <2> QED
      BY <1>1, <2>1, <2>2, <2>3, VerbInv
  <1> QED
    BY <1>2, <1>3 DEF EnterLevel, Lister, Refusal

LEMMA RemoveDirAllStep ==
    ASSUME Inv, RemoveDirAll
    PROVE  Inv'
  <1>1. /\ op = Idle /\ EnterLevel(TargetPath, <<>>) /\ inherited' = ToSet(closes)
        /\ UNCHANGED <<closes, searches, strayed, lost, disconnected, handles, file>>
    BY DEF RemoveDirAll
  <1>2. op.step # "list" /\ ~Holds(op)
    BY <1>1, IdleIs
  <1>3. Queued \subseteq inherited'
    BY <1>1 DEF Queued
  <1> QED
    BY <1>1, <1>2, <1>3, EntersLevel

LEMMA LevelReadStep ==
    ASSUME Inv, LevelRead
    PROVE  Inv'
  <1>1. /\ op.verb = "remove_dir_all" /\ listing.state = "closed" /\ listing' = Gone
        /\ op' = [op EXCEPT !.step = "walk"]
        /\ UNCHANGED <<closes, searches, strayed, lost, disconnected, handles, file, inherited>>
    BY DEF LevelRead
  <1>2. op.step = "list" /\ ~Owes
    BY <1>1, GoneIs, Rests DEF Inv, ListingInv
  <1>3. /\ IsOp(op') /\ op'.step = "walk" /\ op'.verb = op.verb /\ op'.kind = op.kind
        /\ op'.disposition = op.disposition /\ op'.failed = op.failed
    BY <1>1, SetStep DEF Inv, OpInv
  <1>4. OpInv'
    BY <1>1, <1>3 DEF Inv, OpInv, Queued
  <1>5. ListingInv' /\ ~Owes'
    BY <1>1, ListingGone
  <1>6. ~Holds(op) /\ ~Holds(op')
    BY <1>2, <1>3 DEF Holds
  <1> QED
    BY <1>1, <1>2, <1>4, <1>5, <1>6, VerbInv

\* A delete of the walk begins.
LEMMA DeleteBegins ==
    ASSUME Inv, op.step = "walk", NEW kind \in Deletes, NEW path,
           op' = Begin("remove_dir_all", kind, path, <<>>, NoFid),
           UNCHANGED <<listing, closes, searches, strayed, lost, disconnected, handles, file, inherited>>
    PROVE  Inv'
  <1>1. kind \in Kinds /\ kind \notin {"open", "close_file"}
    BY DEF Deletes, Kinds
  <1>2. /\ IsOp(op') /\ op'.verb = "remove_dir_all" /\ op'.kind = kind
        /\ op'.failed = "none" /\ op'.disposition = "FILE_OPEN"
        /\ op'.step = "done" \/ op'.step = Head(Program[kind])
    BY <1>1, BeginIs
  <1>3. /\ Head(Program[kind]) \in StepsOf(kind)
        /\ Head(Program[kind]) \notin {"close", "data", "list", "walk"}
    BY <1>1, FirstStep
  <1>4. OpInv'
    BY <1>1, <1>2, <1>3 DEF Inv, OpInv, Queued
  <1>5. ~Owes /\ listing = Gone
    BY Rests DEF Inv, ListingInv
  <1>6. ~Holds(op) /\ ~Holds(op')
    BY <1>1, <1>2, <1>3 DEF Holds
  <1>7. ListingInv' /\ ~Owes'
    BY <1>5, ListingGone
  <1> QED
    BY <1>4, <1>5, <1>6, <1>7, VerbInv

LEMMA WalkStep ==
    ASSUME Inv, Walk
    PROVE  Inv'
  <1>1. /\ op.step = "walk"
        /\ UNCHANGED <<closes, searches, strayed, lost, disconnected, handles, file, inherited>>
    BY DEF Walk
  <1>2. /\ op.verb = "remove_dir_all" /\ Queued \subseteq inherited'
        /\ op.step # "list" /\ ~Holds(op)
    BY <1>1 DEF Inv, OpInv, Holds
  <1>3. \/ \E path, under : EnterLevel(path, under)
        \/ \E kind \in Deletes : \E path :
              /\ op' = Begin("remove_dir_all", kind, path, <<>>, NoFid)
              /\ listing' = listing
    BY DEF Walk, Deletes
  <1>4. CASE \E path, under : EnterLevel(path, under)
    BY <1>1, <1>2, <1>4, EntersLevel
  <1>5. CASE \E kind \in Deletes : \E path :
               op' = Begin("remove_dir_all", kind, path, <<>>, NoFid) /\ listing' = listing
    BY <1>1, <1>5, DeleteBegins
  <1> QED
    BY <1>3, <1>4, <1>5

LEMMA RemovedStep ==
    ASSUME Inv, Removed
    PROVE  Inv'
  <1>1. /\ op.verb = "remove_dir_all" /\ op.step = "done" /\ IsOp(op)
        /\ UNCHANGED <<listing, closes, searches, strayed, lost, disconnected, handles, file,
                       inherited>>
    BY DEF Removed, listVars, Inv, OpInv
  <1>2. ~Owes /\ listing = Gone /\ ~Holds(op)
    BY <1>1, Rests DEF Inv, ListingInv, OpInv, Holds
  <1>3. ListingInv' /\ ~Owes'
    BY <1>1, <1>2, ListingGone
  <1>4. OpInv' /\ ~Holds(op')
    <2>1. CASE op' = Idle
      BY <1>1, <2>1, IdleIs DEF Inv, OpInv, Deletes
    <2>2. CASE op' = [op EXCEPT !.kind = "none", !.step = "walk", !.result = "none"]
      <3> DEFINE p1 == [op EXCEPT !.kind = "none"]
                 p2 == [p1 EXCEPT !.step = "walk"]
      <3>1. op' = [p2 EXCEPT !.result = "none"]
        BY <2>2
      <3>2. p2 = [p1 EXCEPT !.step = "walk"]
        OBVIOUS
      <3>3. IsOp(p1) /\ p1.verb = "remove_dir_all" /\ p1.kind = "none"
        BY <1>1, SetKind
      <3> HIDE DEF p1, p2
      <3>4. IsOp(p2) /\ p2.verb = "remove_dir_all" /\ p2.kind = "none" /\ p2.step = "walk"
        BY <3>2, <3>3, SetStep
      <3>5. IsOp(op') /\ op'.verb = "remove_dir_all" /\ op'.kind = "none" /\ op'.step = "walk"
        BY <3>1, <3>4, SetResult
      <3> QED
        BY <1>1, <3>5 DEF Inv, OpInv, Holds, Deletes, Queued
    <2> QED
      BY <2>1, <2>2 DEF Removed
  <1> QED
    BY <1>1, <1>2, <1>3, <1>4, VerbInv
-----------------------------------------------------------------------------
(* The other client, and the handles nobody waits for. *)

\* A step that leaves this client alone, and what it holds to delete.
LEMMA WorldInv ==
    ASSUME Inv, UNCHANGED <<op, listing, closes, searches, strayed, lost, disconnected, handles,
                            file, inherited>>,
           Holds(op) /\ ~disconnected /\ op.kind \in Deletes => op.node \in exists' \ doomed'
    PROVE  Inv'
  <1>1. Queued' = Queued /\ (\A kind : Once(closes, kind) => Once(closes', kind)) /\ QueueInv'
    BY DEF Queued, QueueInv, Inv
  <1>2. (Owes' <=> Owes) /\ (Owes => listing.sid \in Sids) /\ (Holds(op') <=> Holds(op))
    BY DEF Owes, Inv, ListingInv
  <1>3. SearchesInv'
    BY <1>1, <1>2, SearchesKept DEF Inv
  <1>4. HandlesInv'
    BY <1>1, <1>2, HandlesKept DEF Inv
  <1>5. OpInv' /\ ListingInv'
    BY <1>1, OpRests, ListingRests DEF Inv
  <1> QED
    BY <1>1, <1>3, <1>4, <1>5 DEF Inv

\* What a delete holds is on the node it deletes, which is there.
LEMMA HeldIsThere ==
    ASSUME Inv, Holds(op), ~disconnected, op.kind \in Deletes
    PROVE  /\ op.fid \in Fids /\ handles[op.fid].node = op.node /\ handles[op.fid].deletes
           /\ op.node \in exists \ doomed
           /\ op.kind = "remove_file" => op.node \notin Dirs
  BY DEF Inv, HandlesInv

LEMMA OtherActsStep ==
    ASSUME Inv, OtherActs
    PROVE  Inv'
  <1>1. UNCHANGED <<op, listing, closes, searches, strayed, lost, disconnected, handles,
                    file, inherited, doomed>>
    BY DEF OtherActs
  <1>2. \A f \in Fids : handles[f].node \in exists => handles[f].node \in exists'
    BY DEF OtherActs
  <1>3. Holds(op) /\ ~disconnected /\ op.kind \in Deletes => op.node \in exists' \ doomed'
    BY <1>1, <1>2, HeldIsThere
  <1> QED
    BY <1>1, <1>3, WorldInv

LEMMA OtherClosesStep ==
    ASSUME Inv, OtherCloses
    PROVE  Inv'
  <1>1. UNCHANGED <<op, listing, closes, searches, strayed, lost, disconnected, handles,
                    file, inherited>>
    BY DEF OtherCloses
  <1>2. exists \ doomed \subseteq exists' \ doomed'
    BY DEF OtherCloses
  <1>3. Holds(op) /\ ~disconnected /\ op.kind \in Deletes => op.node \in exists' \ doomed'
    BY <1>2, HeldIsThere
  <1> QED
    BY <1>1, <1>3, WorldInv

\* The close of a handle is queued.
LEMMA QueuesHandle ==
    ASSUME QueueInv, NEW fid \in Fids, closes' = Append(closes, HandleClose(fid))
    PROVE  /\ QueueInv' /\ Queued' = Queued \cup {HandleClose(fid)}
           /\ \A s \in Sids : SearchClose(s) \in Queued' <=> SearchClose(s) \in Queued
           /\ \A f \in Fids \ {fid} : HandleClose(f) \in Queued' <=> HandleClose(f) \in Queued
           /\ Once(closes, "search") => Once(closes', "search")
           /\ Once(closes, "handle") /\ HandleClose(fid) \notin Queued => Once(closes', "handle")
  <1> DEFINE c == HandleClose(fid)
  <1>1. c \in Closings /\ c.kind = "handle"
    BY ClosesDiffer
  <1>2. /\ QueueInv' /\ Queued' = Queued \cup {c}
        /\ \A kind : Once(closes, kind) /\ (c.kind = kind => c \notin Queued) =>
                       Once(closes', kind)
    BY <1>1, QueuedSet DEF QueueInv, Queued
  <1> QED
    BY <1>1, <1>2, ClosesDiffer

LEMMA DropFileStep ==
    ASSUME Inv, DropFile
    PROVE  Inv'
  <1>1. /\ op = Idle /\ op' = op /\ file \in Fids /\ file' = NoFid
        /\ closes' = Append(closes, HandleClose(file))
        /\ UNCHANGED <<listing, searches, strayed, lost, disconnected, handles, exists, doomed>>
    BY DEF DropFile, HandleClose, Inv, HandlesInv
  <1>2. ~Holds(op) /\ ~Holds(op') /\ op.verb = "none"
    BY <1>1, IdleIs
  <1>3. /\ QueueInv' /\ Queued' = Queued \cup {HandleClose(file)}
        /\ \A s \in Sids : SearchClose(s) \in Queued' <=> SearchClose(s) \in Queued
        /\ \A f \in Fids \ {file} : HandleClose(f) \in Queued' <=> HandleClose(f) \in Queued
        /\ Once(closes, "search") => Once(closes', "search")
        /\ Once(closes, "handle") /\ HandleClose(file) \notin Queued => Once(closes', "handle")
    BY <1>1, QueuesHandle DEF Inv
  <1>4. (Owes' <=> Owes) /\ (Owes => listing.sid \in Sids)
    BY <1>1 DEF Owes, Inv, ListingInv
  <1>5. SearchesInv'
    BY <1>1, <1>3, <1>4, SearchesKept DEF Inv
  <1>6. ListingInv' /\ OpInv'
    BY <1>1, <1>2, ListingRests DEF Inv, OpInv
  <1>7. HandlesInv'
    <2>1. CASE disconnected
      BY <1>1, <1>2, <2>1, HandlesOff DEF Inv
    <2>2. CASE ~disconnected
      <3>1. Plain(file) /\ HandleClose(file) \notin Queued /\ Once(closes, "handle")
        BY <1>1, <2>2, CallsAssumption DEF Inv, HandlesInv
      <3>2. \A f \in Fids : Plain(f)' <=> Plain(f)
        BY <1>1 DEF Plain
      <3>3. \A f \in Fids : HandleClose(f) \in Queued' => Plain(f)' /\ f # file'
        BY <1>1, <1>3, <2>2, <3>1, <3>2, CallsAssumption DEF Inv, HandlesInv
      <3>4. ~lost' => \A f \in Fids : handles'[f] # NoHandle =>
              f = file' \/ HandleClose(f) \in Queued' \/ (Holds(op') /\ f = op'.fid)
        BY <1>1, <1>2, <1>3, <2>2 DEF Inv, HandlesInv
      <3> QED
        BY <1>1, <1>2, <1>3, <2>2, <3>1, <3>3, <3>4 DEF Inv, HandlesInv
    <2> QED
      BY <2>1, <2>2
  <1> QED
    BY <1>3, <1>5, <1>6, <1>7 DEF Inv

LEMMA SendHandleCloseStep ==
    ASSUME Inv, SendHandleClose
    PROVE  Inv'
  <1> DEFINE c == Head(closes)
  <1>1. /\ closes # <<>> /\ c.kind = "handle" /\ closes' = Tail(closes)
        /\ UNCHANGED <<op, listing, searches, strayed, lost, disconnected, file, inherited>>
        /\ IF disconnected THEN handles' = handles ELSE CloseHandle(c.id)
    BY DEF SendHandleClose, NotServed
  <1>2. /\ QueueInv' /\ c \in Closings /\ c \in Queued /\ Queued' \subseteq Queued
        /\ \A x \in Queued : x = c \/ x \in Queued'
        /\ \A kind : Once(closes, kind) => /\ Once(closes', kind)
                                           /\ c.kind = kind => c \notin Queued'
    BY <1>1, SentSet DEF Inv, QueueInv, Queued
  <1> HIDE DEF c
  <1>3. c.id \in Fids /\ c = HandleClose(c.id)
    BY <1>1, <1>2, Closing
  <1>4. \A s \in Sids : SearchClose(s) \in Queued' <=> SearchClose(s) \in Queued
    BY <1>2, <1>3, ClosesDiffer
  <1>5. \A f \in Fids \ {c.id} : HandleClose(f) \in Queued' <=> HandleClose(f) \in Queued
    BY <1>2, <1>3, ClosesDiffer
  <1>6. (Owes' <=> Owes) /\ (Owes => listing.sid \in Sids) /\ (Holds(op') <=> Holds(op))
    BY <1>1 DEF Owes, Inv, ListingInv
  <1>7. SearchesInv'
    BY <1>1, <1>2, <1>4, <1>6, SearchesKept DEF Inv
  <1>8. ListingInv' /\ OpInv'
    BY <1>1, <1>2, ListingRests, OpRests DEF Inv
  <1>9. HandlesInv'
    <2>1. CASE disconnected
      BY <1>1, <1>6, <2>1, HandlesOff DEF Inv, HandlesInv
    <2>2. CASE ~disconnected
      <3>1. /\ Plain(c.id) /\ c.id # file /\ HandleClose(c.id) \notin Queued'
            /\ Holds(op) => op.fid # c.id
        BY <1>1, <1>2, <1>3, <2>2 DEF Inv, HandlesInv
      <3>2. handles' = [handles EXCEPT ![c.id] = NoHandle] /\ UNCHANGED <<exists, doomed>>
        BY <1>1, <1>3, <2>2, <3>1, Closed DEF Plain
      <3> QED
        BY <1>1, <1>2, <1>3, <1>5, <1>6, <2>2, <3>1, <3>2, HandlesFreed DEF Inv
    <2> QED
      BY <2>1, <2>2
  <1> QED
    BY <1>2, <1>7, <1>8, <1>9 DEF Inv

-----------------------------------------------------------------------------
(* The caller begins a verb and takes what it returns. *)

LEMMA ReturnStep ==
    ASSUME Inv, Return
    PROVE  Inv'
  <1>1. /\ op.step = "done" /\ op' = Idle
        /\ file' = IF op.verb = "open" /\ op.result = "ok" THEN op.fid ELSE file
        /\ UNCHANGED <<listing, closes, searches, strayed, lost, disconnected, handles, exists,
                       doomed>>
    BY DEF Return, listVars
  <1>2. /\ ~Owes /\ listing = Gone /\ ~Holds(op')
        /\ Holds(op) <=> op.verb = "open" /\ op.result = "ok"
    BY <1>1, Rests, IdleIs DEF Inv, ListingInv, OpInv, Holds
  <1>3. ListingInv' /\ ~Owes'
    BY <1>1, <1>2, ListingGone
  <1>4. OpInv'
    BY <1>1, IdleIs DEF OpInv, Deletes
  <1>5. CASE ~Holds(op)
    BY <1>1, <1>2, <1>3, <1>4, <1>5, VerbInv
  <1>6. CASE Holds(op)
    <2>1. Queued' = Queued /\ (\A kind : Once(closes, kind) => Once(closes', kind)) /\ QueueInv'
      BY <1>1 DEF Queued, QueueInv, Inv
    <2>2. SearchesInv'
      BY <1>1, <1>2, <1>3, <2>1, SearchesKept DEF Inv
    <2>3. op.fid \in Fids /\ file' = op.fid /\ op.kind = "open" /\ file = NoFid
      BY <1>1, <1>2, <1>6 DEF Inv, HandlesInv, OpInv
    <2>4. HandlesInv'
      <3>1. CASE disconnected
        BY <1>1, <1>2, <2>3, <3>1, HandlesOff DEF Inv
      <3>2. CASE ~disconnected
        <4>1. \A f : Plain(f)' <=> Plain(f)
          BY <1>1 DEF Plain
        <4>2. Plain(op.fid) /\ HandleClose(op.fid) \notin Queued /\ Once(closes, "handle")
          BY <1>6, <2>3, <3>2 DEF Inv, HandlesInv
        <4>3. \A f \in Fids : HandleClose(f) \in Queued' => Plain(f)' /\ f # file'
          BY <2>1, <2>3, <3>2, <4>1, <4>2 DEF Inv, HandlesInv
        <4>4. ~lost' => \A f \in Fids : handles'[f] # NoHandle =>
                f = file' \/ HandleClose(f) \in Queued' \/ (Holds(op') /\ f = op'.fid)
          BY <1>1, <1>2, <2>1, <2>3, <3>2, CallsAssumption DEF Inv, HandlesInv
        <4>5. Plain(file)'
          BY <2>3, <4>1, <4>2 DEF Plain
        <4> QED
          BY <1>1, <1>2, <2>1, <2>3, <3>2, <4>2, <4>3, <4>4, <4>5 DEF Inv, HandlesInv
      <3> QED
        BY <3>1, <3>2
    <2> QED
      BY <1>3, <1>4, <2>1, <2>2, <2>4 DEF Inv
  <1> QED
    BY <1>5, <1>6
\* A verb on a File takes it over: its handle is the verb's to close.
LEMMA TakesFile ==
    ASSUME Inv, op = Idle, file # NoFid, file' = NoFid, op'.fid = file, op'.step = "close",
           op'.kind = "close_file",
           UNCHANGED <<closes, lost, disconnected, handles>>
    PROVE  HandlesInv'
  <1>1. /\ file \in Fids /\ ~Holds(op) /\ Holds(op') /\ op'.kind \notin Deletes
        /\ op'.kind \notin {"open", "read", "write"}
    BY IdleIs DEF Inv, HandlesInv, Holds, Deletes
  <1>2. Queued' = Queued /\ \A f : Plain(f)' <=> Plain(f)
    BY DEF Queued, Plain
  <1>3. CASE disconnected
    BY <1>1, <1>3, HandlesOff DEF Inv
  <1>4. CASE ~disconnected
    <2>1. /\ HandleClose(op'.fid) \notin Queued' /\ op'.fid # file'
          /\ \A f \in Fids : HandleClose(f) \in Queued' => Plain(f)' /\ f # file'
      BY <1>1, <1>2, <1>4, CallsAssumption DEF Inv, HandlesInv
    <2>2. ~lost' => \A f \in Fids : handles'[f] # NoHandle =>
            f = file' \/ HandleClose(f) \in Queued' \/ (Holds(op') /\ f = op'.fid)
      BY <1>1, <1>2, <1>4 DEF Inv, HandlesInv
    <2> QED
      BY <1>1, <1>2, <1>4, <2>1, <2>2 DEF Inv, HandlesInv
  <1> QED
    BY <1>3, <1>4

LEMMA CallStep ==
    ASSUME Inv, Call
    PROVE  Inv'
  <1>1. /\ op = Idle /\ file' = IF op'.kind = "close_file" THEN NoFid ELSE file
        /\ UNCHANGED <<listing, closes, searches, strayed, lost, disconnected, handles>>
    BY DEF Call, listVars
  <1>2. PICK kind, path, to, disposition :
          /\ kind \in Kinds
          /\ disposition \in Dispositions(kind)
          /\ op' = [Begin(kind, kind, path, to, file) EXCEPT !.disposition = disposition]
          /\ kind = "close_file" => path = <<>> /\ to = <<>> /\ file # NoFid
          /\ kind = "open" => file = NoFid
    <2>1. PICK kind \in DOMAIN Program :
            /\ kind = "close_file" => file # NoFid
            /\ kind = "open" => file = NoFid
            /\ \E path \in IF kind \in Pathless THEN {<<>>} ELSE Paths :
                 \E disposition \in Dispositions(kind),
                    to \in IF kind = "rename" THEN Paths ELSE {<<>>} :
                   op' = [Begin(kind, kind, path, to, file) EXCEPT !.disposition = disposition]
      BY DEF Call
    <2>2. kind \in Kinds
      BY Programs
    <2>3. PICK path \in IF kind \in Pathless THEN {<<>>} ELSE Paths :
            \E disposition \in Dispositions(kind),
               to \in IF kind = "rename" THEN Paths ELSE {<<>>} :
              op' = [Begin(kind, kind, path, to, file) EXCEPT !.disposition = disposition]
      BY <2>1
    <2>4. PICK disposition \in Dispositions(kind), to \in IF kind = "rename" THEN Paths ELSE {<<>>} :
            op' = [Begin(kind, kind, path, to, file) EXCEPT !.disposition = disposition]
      BY <2>3
    <2>5. kind = "close_file" => path = <<>> /\ to = <<>>
      BY DEF Pathless
    <2> QED
      BY <2>1, <2>2, <2>4, <2>5
  <1> DEFINE b == Begin(kind, kind, path, to, file)
  <1>3. op' = [b EXCEPT !.disposition = disposition]
    BY <1>2
  <1>4. /\ IsOp(b) /\ b.verb = kind /\ b.kind = kind /\ b.fid = file /\ b.failed = "none"
        /\ \/ b.step = "done" /\ b.result # "ok" /\ (InvalidPath(path) \/ InvalidPath(to))
           \/ b.step = Head(Program[kind])
    BY <1>2, BeginIs
  <1> HIDE DEF b
  <1>5. /\ IsOp(op') /\ op'.verb = kind /\ op'.kind = kind /\ op'.fid = file
        /\ op'.failed = "none" /\ op'.disposition = disposition
        /\ \/ op'.step = "done" /\ op'.result # "ok" /\ (InvalidPath(path) \/ InvalidPath(to))
           \/ op'.step = Head(Program[kind])
    BY <1>3, <1>4, SetDisposition
  <1>6. /\ Head(Program[kind]) \in StepsOf(kind)
        /\ Head(Program[kind]) \notin {"none", "list", "walk", "done", "data"}
        /\ Head(Program[kind]) = "close" => kind = "close_file"
    BY <1>2, FirstStep
  <1>7. kind \in Deletes => disposition = "FILE_OPEN"
    BY <1>2 DEF Dispositions, Deletes
  <1>8. ~Owes /\ listing = Gone /\ ~Holds(op)
    BY <1>1, Rests, IdleIs DEF Inv, ListingInv
  <1>9. ListingInv' /\ ~Owes'
    BY <1>1, <1>8, ListingGone
  <1>10. OpInv'
    <2>1. kind \in Kinds => kind # "remove_dir_all"
      BY DEF Kinds
    <2>2. op'.step = "done" \/ (op'.step \in StepsOf(op'.kind) /\ op'.step # "walk")
      BY <1>5, <1>6
    <2>3. op'.kind = "open" => file' = NoFid
      BY <1>1, <1>2, <1>5
    <2> QED
      BY <1>2, <1>5, <1>7, <2>1, <2>2, <2>3 DEF OpInv
  <1>11. CASE kind = "close_file"
    <2>1. op'.step = "close" /\ file # NoFid /\ file' = NoFid
      BY <1>1, <1>2, <1>5, <1>11, FirstSteps, RootIsValid
    <2>2. HandlesInv'
      BY <1>1, <1>5, <1>11, <2>1, TakesFile
    <2>3. Queued' = Queued /\ (\A k : Once(closes, k) => Once(closes', k)) /\ QueueInv'
      BY <1>1 DEF Queued, QueueInv, Inv
    <2>4. SearchesInv'
      BY <1>1, <1>8, <1>9, <2>3, SearchesKept DEF Inv
    <2> QED
      BY <1>9, <1>10, <2>2, <2>3, <2>4 DEF Inv
  <1>12. CASE kind # "close_file"
    <2>1. ~Holds(op')
      BY <1>5, <1>6, <1>12 DEF Holds
    <2>2. file' = file
      BY <1>1, <1>5, <1>12
    <2> QED
      BY <1>1, <1>8, <1>9, <1>10, <2>1, <2>2, VerbInv
  <1> QED
    BY <1>11, <1>12

-----------------------------------------------------------------------------
(* A request is answered, lapses or is dropped. *)

LEMMA Requesting ==
    ASSUME Inv, op.step \in Requests
    PROVE  /\ IsOp(op) /\ op.kind \in Kinds /\ op.step \in StepsOf(op.kind)
           /\ listing = Gone /\ ~Owes
           /\ Holds(op) <=> op.step \in {"close", "data"}
           /\ op.step = "data" => op.kind \in {"read", "write"}
           /\ Holds(op) => op.fid \in Fids
  <1>1. IsOp(op) /\ op.kind \in Kinds /\ op.step \in StepsOf(op.kind)
    BY DEF Requests, Inv, OpInv
  <1>2. listing = Gone /\ ~Owes
    BY Rests DEF Requests, Inv, ListingInv
  <1>3. Holds(op) <=> op.step \in {"close", "data"}
    BY DEF Holds, Requests
  <1>4. op.step = "data" => op.kind \in {"read", "write"}
    BY <1>1 DEF StepsOf, Kinds
  <1> QED
    BY <1>1, <1>2, <1>3, <1>4 DEF Inv, HandlesInv

\* What is left of the invariant once the verb and the handles are known.
LEMMA RequestInv ==
    ASSUME Inv, op.step \in Requests, OpInv', HandlesInv', lost => lost',
           UNCHANGED <<listing, closes, strayed>>,
           \/ UNCHANGED <<searches, disconnected>>
           \/ searches' = Discarded /\ disconnected' = TRUE
    PROVE  Inv'
  <1>1. listing = Gone /\ ~Owes
    BY Requesting
  <1>2. ListingInv' /\ ~Owes'
    BY <1>1, ListingGone
  <1>3. Queued' = Queued /\ (\A k : Once(closes, k) => Once(closes', k)) /\ QueueInv'
    BY DEF Queued, QueueInv, Inv
  <1>4. CASE UNCHANGED <<searches, disconnected>>
    BY <1>1, <1>2, <1>3, <1>4, SearchesKept DEF Inv
  <1>5. CASE searches' = Discarded /\ disconnected' = TRUE
    BY <1>2, <1>3, <1>5, SearchesDiscarded DEF Inv
  <1> QED
    BY <1>4, <1>5

\* What a reply makes of the verb.
LEMMA ContinueOp ==
    ASSUME Inv, op.step \in Requests, NEW error, error # "ok", NEW fid,
           op' = Continue(op, error, fid), UNCHANGED <<closes, file, inherited>>
    PROVE  /\ OpInv' /\ op'.kind = op.kind /\ op'.node = op.node
           /\ op'.verb = op.verb /\ op'.to = op.to
           /\ op'.step = "done" \/ op'.step \in StepsOf(op.kind)
           /\ Holds(op') => \/ op.step = "data" /\ op'.fid \in {op.fid, fid}
                            \/ op.step = "create" /\ error = "SUCCESS" /\ op'.fid = fid
           /\ op.step = "create" /\ error = "SUCCESS" => Holds(op') /\ op'.fid = fid
           /\ op.step = "data" => Holds(op') /\ op'.fid \in {op.fid, fid}
           /\ op'.step = "done" /\ op'.result = "ok" /\ op.kind \in Deletes =>
                \/ op.kind = "remove_file" /\ op.step = "close" /\ error = "SUCCESS"
                \/ /\ op.kind = "remove_dir" /\ op.step \in {"basic", "standard"}
                   /\ NotFound(error)
  <1> DEFINE q == Continue(op, error, fid)
  <1>1. IsOp(op) /\ op.kind \in Kinds /\ op.step \in StepsOf(op.kind)
    BY Requesting
  <1>2. Continued(op, error, fid, q)
    BY <1>1, ContinueIs
  <1>3. op' = q
    OBVIOUS
  <1> HIDE DEF q
  <1>4. op.kind \in Deletes => op.failed = "none"
    BY DEF Inv, OpInv
  <1>5. \A step \in StepsOf(op.kind) : step # "walk"
    BY <1>1 DEF StepsOf, Kinds
  <1>6. OpInv'
    BY <1>1, <1>2, <1>3, <1>5 DEF Continued, Inv, OpInv, Queued
  <1> QED
    BY <1>2, <1>3, <1>4, <1>6 DEF Continued
\* A request that the server does not serve, or whose serving is to no handle.
LEMMA HandlesUnserved ==
    ASSUME Inv, op.step \in Requests, UNCHANGED <<handles, closes, file, disconnected>>,
           lost => lost', UNCHANGED <<exists, doomed>> \/ ~Holds(op),
           op'.kind = op.kind, op'.node = op.node,
           Holds(op') <=> op.step = "data", Holds(op') => op'.fid = op.fid,
           op.step = "close" => lost'
    PROVE  HandlesInv'
  <1>1. Queued' = Queued /\ (\A k : Once(closes, k) => Once(closes', k))
    BY DEF Queued
  <1>2. Holds(op) <=> op.step \in {"close", "data"}
    BY Requesting
  <1>3. ~disconnected /\ Holds(op') /\ op.kind \in Deletes => op.node \in exists' \ doomed'
    BY <1>2, HeldIsThere
  <1> QED
    BY <1>1, <1>2, <1>3, HandlesKept DEF Inv

\* A create that the server serves: whoever does not get the handle has missed it.
LEMMA HandlesCreated ==
    ASSUME Inv, op.step = "create", ~disconnected, StatusOf(op) = "SUCCESS",
           NEW fid \in Assignable, Serve(fid), UNCHANGED <<closes, file, disconnected>>,
           lost => lost',
           \/ lost' /\ ~Holds(op')
           \/ Holds(op') /\ op'.fid = fid /\ op'.kind = op.kind /\ op'.node = op.node
    PROVE  HandlesInv'
  <1> DEFINE deletes == op.kind \in Deletes
             h == [node |-> op.node, deletes |-> deletes]
  <1>1. /\ handles' = [handles EXCEPT ![fid] = h] /\ exists' = exists \cup {op.node}
        /\ doomed' = doomed
    BY DEF Serve
  <1>2. fid \in Fids \ OpenFids /\ ~Holds(op)
    BY Requesting DEF Assignable, Requests
  <1>3. /\ op.kind \in {"open", "read", "write"} => op.node \notin Dirs
        /\ op.kind \in Deletes /\ op.disposition = "FILE_OPEN" =>
             /\ op.node \in exists \ doomed
             /\ op.kind = "remove_file" => op.node \notin Dirs
    BY Created DEF StatusOf
  <1>4. op.kind \in Deletes => op.disposition = "FILE_OPEN"
    BY DEF Inv, OpInv
  <1>5. IsHandle(h) /\ h.node = op.node /\ (h.deletes <=> deletes) /\ (op.node # Share => h # NoHandle)
    BY HandleIs
  <1>6. /\ op.kind \in {"open", "read", "write"} => h # NoHandle /\ ~h.deletes
        /\ op.kind \in Deletes => /\ h.node = op.node /\ h.deletes
                                  /\ op.node \in exists' \ doomed'
                                  /\ op.kind = "remove_file" => op.node \notin Dirs
    BY <1>1, <1>3, <1>4, <1>5, TreeAssumption DEF Deletes
  <1> HIDE DEF h, deletes
  <1>7. /\ Queued' = Queued /\ (\A k : Once(closes, k) => Once(closes', k))
        /\ UNCHANGED <<file, disconnected>>
    BY DEF Queued
  <1>8. \/ lost' /\ ~Holds(op')
        \/ /\ Holds(op') /\ op'.fid = fid
           /\ op'.kind \in {"open", "read", "write"} => h # NoHandle /\ ~h.deletes
           /\ op'.kind \in Deletes => /\ h.node = op'.node /\ h.deletes
                                      /\ op'.node \in exists' \ doomed'
                                      /\ op'.kind = "remove_file" => op'.node \notin Dirs
    BY <1>6
  <1> QED
    BY <1>1, <1>2, <1>5, <1>7, <1>8, HandlesOpened DEF Inv

\* A close that the server serves.
LEMMA HandlesClosed ==
    ASSUME Inv, op.step = "close", ~disconnected, NEW fid, Serve(fid),
           UNCHANGED <<closes, file, disconnected>>, lost => lost', ~Holds(op')
    PROVE  HandlesInv'
  <1>1. Holds(op) /\ op.fid \in Fids /\ CloseHandle(op.fid)
    BY Requesting DEF Serve, Requests
  <1>2. handles' = [handles EXCEPT ![op.fid] = NoHandle]
    BY <1>1, Closed
  <1>3. /\ Queued' = Queued /\ (\A k : Once(closes, k) => Once(closes', k))
        /\ op.fid # file /\ HandleClose(op.fid) \notin Queued
    BY <1>1 DEF Queued, Inv, HandlesInv
  <1> QED
    BY <1>1, <1>2, <1>3, HandlesFreed DEF Inv

\* What else a server serves is no handle's business.
LEMMA ServedElse ==
    ASSUME op.step \in Requests \ {"create", "close"}, NEW fid \in Assignable, Serve(fid)
    PROVE  /\ fid = op.fid /\ handles' = handles
           /\ UNCHANGED <<exists, doomed>> \/ op.step = "rename"
  BY DEF Assignable, Serve

LEMMA ReplyStep ==
    ASSUME Inv, Reply
    PROVE  Inv'
  <1>1. op.step \in Requests /\ UNCHANGED <<listing, closes, lost, strayed, file, inherited>>
    BY DEF Reply
  <1>2. /\ Holds(op) <=> op.step \in {"close", "data"}
        /\ Holds(op) => op.fid \in Fids
    BY <1>1, Requesting
  <1>3. ASSUME ~disconnected, NEW fid \in Assignable, NEW status \in Spellings(StatusOf(op)),
               op' = Continue(op, Refused(status), fid),
               IF status = "SUCCESS" THEN Serve(fid) ELSE NotServed,
               UNCHANGED <<searches, disconnected>>
        PROVE  Inv'
    <2> DEFINE error == Refused(status)
    <2>1. /\ error # "ok" /\ (error = "SUCCESS" <=> status = "SUCCESS")
          /\ status = "SUCCESS" => StatusOf(op) = "SUCCESS"
      BY Statuses
    <2>2. op' = Continue(op, error, fid)
      BY <1>3
    <2> HIDE DEF error
    <2>3. /\ OpInv' /\ op'.kind = op.kind /\ op'.node = op.node
          /\ Holds(op') => \/ op.step = "data" /\ op'.fid \in {op.fid, fid}
                           \/ op.step = "create" /\ error = "SUCCESS" /\ op'.fid = fid
          /\ op.step = "create" /\ error = "SUCCESS" => Holds(op') /\ op'.fid = fid
          /\ op.step = "data" => Holds(op') /\ op'.fid \in {op.fid, fid}
      BY <1>1, <2>1, <2>2, ContinueOp
    <2>4. CASE op.step = "create" /\ status = "SUCCESS"
      <3>1. StatusOf(op) = "SUCCESS" /\ Serve(fid) /\ Holds(op') /\ op'.fid = fid
        BY <1>3, <2>1, <2>3, <2>4
      <3>2. HandlesInv'
        BY <1>1, <1>3, <2>3, <2>4, <3>1, HandlesCreated
      <3> QED
        BY <1>1, <1>3, <2>3, <3>2, RequestInv
    <2>5. CASE op.step = "create" /\ status # "SUCCESS"
      <3>1. UNCHANGED <<handles, exists, doomed>> /\ ~Holds(op')
        BY <1>3, <2>1, <2>3, <2>5 DEF NotServed
      <3>2. HandlesInv'
        BY <1>1, <1>3, <2>3, <2>5, <3>1, HandlesUnserved
      <3> QED
        BY <1>1, <1>3, <2>3, <3>2, RequestInv
    <2>6. CASE op.step = "close"
      <3>1. status = "SUCCESS"
        BY <2>6 DEF StatusOf, Spellings, NotFoundStatuses
      <3>2. Serve(fid) /\ ~Holds(op')
        BY <1>3, <2>3, <2>6, <3>1
      <3>3. HandlesInv'
        BY <1>1, <1>3, <2>6, <3>2, HandlesClosed
      <3> QED
        BY <1>1, <1>3, <2>3, <3>3, RequestInv
    <2>7. CASE op.step \notin {"create", "close"}
      <3>1. fid = op.fid /\ handles' = handles /\ (UNCHANGED <<exists, doomed>> \/ op.step = "rename")
        BY <1>1, <1>3, <2>7, ServedElse DEF NotServed, Assignable
      <3>2. UNCHANGED <<exists, doomed>> \/ ~Holds(op)
        BY <1>2, <3>1
      <3>3. (Holds(op') <=> op.step = "data") /\ (Holds(op') => op'.fid = op.fid)
        BY <2>3, <2>7, <3>1
      <3>4. HandlesInv'
        BY <1>1, <1>3, <2>3, <2>7, <3>1, <3>2, <3>3, HandlesUnserved
      <3> QED
        BY <1>1, <1>3, <2>3, <3>4, RequestInv
    <2> QED
      BY <2>4, <2>5, <2>6, <2>7
  <1>4. CASE /\ op.step # "close" /\ op' = Continue(op, Refused("ACCESS_DENIED"), op.fid)
             /\ NotServed /\ UNCHANGED <<searches, disconnected>>
    <2> DEFINE error == Refused("ACCESS_DENIED")
    <2>1. error \notin {"ok", "SUCCESS"} /\ op' = Continue(op, error, op.fid)
      BY <1>4, Failures
    <2> HIDE DEF error
    <2>2. /\ OpInv' /\ op'.kind = op.kind /\ op'.node = op.node
          /\ Holds(op') => op.step = "data" /\ op'.fid = op.fid
          /\ op.step = "data" => Holds(op') /\ op'.fid = op.fid
      BY <1>1, <2>1, ContinueOp
    <2>3. UNCHANGED <<handles, exists, doomed>>
      BY <1>4 DEF NotServed
    <2>4. HandlesInv'
      BY <1>1, <1>4, <2>2, <2>3, HandlesUnserved
    <2> QED
      BY <1>1, <1>4, <2>2, <2>4, RequestInv
  <1>5. CASE /\ op' = Continue(op, Refused("NETWORK_NAME_DELETED"), op.fid)
             /\ disconnected' = TRUE /\ searches' = Discarded
             /\ handles' = [f \in Fids |-> NoHandle]
    <2> DEFINE error == Refused("NETWORK_NAME_DELETED")
    <2>1. error \notin {"ok", "SUCCESS"} /\ op' = Continue(op, error, op.fid)
      BY <1>5, Failures
    <2> HIDE DEF error
    <2>2. OpInv' /\ (Holds(op') => op.step = "data" /\ op'.fid = op.fid)
      BY <1>1, <2>1, ContinueOp
    <2>3. HandlesInv'
      BY <1>1, <1>2, <1>5, <2>2, HandlesOff DEF Inv, HandlesInv
    <2> QED
      BY <1>1, <1>5, <2>2, <2>3, RequestInv
  <1> QED
    BY <1>3, <1>4, <1>5 DEF Reply

LEMMA LapseStep ==
    ASSUME Inv, Lapse
    PROVE  Inv'
  <1>1. /\ op.step \in Requests /\ lost'
        /\ UNCHANGED <<listing, closes, strayed, file, inherited, searches, disconnected>>
    BY DEF Lapse
  <1>2. PICK error : error \notin {"ok", "SUCCESS"} /\ op' = Continue(op, error, op.fid)
    BY Failures DEF Lapse
  <1>3. /\ OpInv' /\ op'.kind = op.kind /\ op'.node = op.node
        /\ Holds(op') => op.step = "data" /\ op'.fid = op.fid
        /\ op.step = "data" => Holds(op') /\ op'.fid = op.fid
    BY <1>1, <1>2, ContinueOp
  <1>4. CASE NotServed
    <2>1. HandlesInv'
      BY <1>1, <1>3, <1>4, HandlesUnserved DEF NotServed
    <2> QED
      BY <1>1, <1>3, <2>1, RequestInv
  <1>5. ASSUME ~disconnected, StatusOf(op) = "SUCCESS", NEW fid \in Assignable, Serve(fid)
        PROVE  Inv'
    <2>1. CASE op.step = "create"
      <3>1. HandlesInv'
        BY <1>1, <1>3, <1>5, <2>1, HandlesCreated
      <3> QED
        BY <1>1, <1>3, <3>1, RequestInv
    <2>2. CASE op.step = "close"
      <3>1. HandlesInv'
        BY <1>1, <1>3, <1>5, <2>2, HandlesClosed
      <3> QED
        BY <1>1, <1>3, <3>1, RequestInv
    <2>3. CASE op.step \notin {"create", "close"}
      <3>1. handles' = handles /\ (UNCHANGED <<exists, doomed>> \/ op.step = "rename")
        BY <1>1, <1>5, <2>3, ServedElse
      <3>2. UNCHANGED <<exists, doomed>> \/ ~Holds(op)
        BY <1>1, <3>1, Requesting
      <3>3. HandlesInv'
        BY <1>1, <1>3, <2>3, <3>1, <3>2, HandlesUnserved
      <3> QED
        BY <1>1, <1>3, <3>3, RequestInv
    <2> QED
      BY <2>1, <2>2, <2>3
  <1> QED
    BY <1>4, <1>5 DEF Lapse
LEMMA CancelStep ==
    ASSUME Inv, Cancel
    PROVE  Inv'
  <1>1. /\ op.step \in Requests /\ op' = Idle /\ closes' = closes \o Abandoned(op)
        /\ lost' = (lost \/ op.step \in {"create", "close"})
        /\ UNCHANGED <<listing, strayed, file, inherited, searches, disconnected>>
    BY DEF Cancel
  <1>2. ~Holds(op') /\ OpInv'
    BY <1>1, IdleIs DEF OpInv, Deletes
  <1>3. CASE op.step = "data"
    <2>1. /\ op.fid \in Fids /\ Holds(op) /\ op.kind \in {"read", "write"}
          /\ listing = Gone /\ ~Owes
      BY <1>1, <1>3, Requesting
    <2>2. closes' = Append(closes, HandleClose(op.fid))
      <3>1. closes' = closes \o <<HandleClose(op.fid)>>
        BY <1>1, <1>3 DEF Abandoned, HandleClose
      <3>2. HandleClose(op.fid) \in Closings
        BY <2>1, ClosesDiffer
      <3> QED
        BY <3>1, <3>2, AppendIsConcat DEF Inv, QueueInv
    <2>3. /\ QueueInv' /\ Queued' = Queued \cup {HandleClose(op.fid)}
          /\ \A s \in Sids : SearchClose(s) \in Queued' <=> SearchClose(s) \in Queued
          /\ \A f \in Fids \ {op.fid} : HandleClose(f) \in Queued' <=> HandleClose(f) \in Queued
          /\ Once(closes, "search") => Once(closes', "search")
          /\ Once(closes, "handle") /\ HandleClose(op.fid) \notin Queued => Once(closes', "handle")
      BY <2>1, <2>2, QueuesHandle DEF Inv
    <2>4. handles' = handles
      BY <1>1, <1>3, ServedElse DEF Cancel, NotServed
    <2>5. ListingInv' /\ ~Owes'
      BY <1>1, <2>1, ListingGone
    <2>6. SearchesInv'
      BY <1>1, <2>1, <2>3, <2>5, SearchesKept DEF Inv
    <2>7. HandlesInv'
      <3>1. CASE disconnected
        BY <1>1, <1>2, <2>4, <3>1, HandlesOff DEF Inv, HandlesInv
      <3>2. CASE ~disconnected
        <4>1. \A f : Plain(f)' <=> Plain(f)
          BY <2>4 DEF Plain
        <4>2. /\ Plain(op.fid) /\ op.fid # file /\ HandleClose(op.fid) \notin Queued
              /\ Once(closes, "handle")
          BY <2>1, <3>2 DEF Inv, HandlesInv
        <4>3. \A f \in Fids : HandleClose(f) \in Queued' => Plain(f)' /\ f # file'
          BY <1>1, <2>3, <3>2, <4>1, <4>2 DEF Inv, HandlesInv
        <4>4. ~lost' => \A f \in Fids : handles'[f] # NoHandle =>
                f = file' \/ HandleClose(f) \in Queued' \/ (Holds(op') /\ f = op'.fid)
          BY <1>1, <2>3, <2>4, <3>2 DEF Inv, HandlesInv
        <4> QED
          BY <1>1, <1>2, <2>3, <2>4, <3>2, <4>1, <4>2, <4>3, <4>4 DEF Inv, HandlesInv, Plain
      <3> QED
        BY <3>1, <3>2
    <2> QED
      BY <1>2, <2>3, <2>5, <2>6, <2>7 DEF Inv
  <1>4. CASE op.step # "data"
    <2>1. closes' = closes
      BY <1>1, <1>4 DEF Abandoned, Inv, QueueInv
    <2>2. /\ Holds(op) => op.step = "close"
          /\ Queued' = Queued /\ (\A k : Once(closes, k) => Once(closes', k))
      BY <1>1, <1>4, <2>1, Requesting DEF Queued
    <2>3. CASE handles' = handles
      <3>1. HandlesInv'
        BY <1>1, <1>2, <2>2, <2>3, HandlesKept DEF Inv
      <3> QED
        BY <1>1, <1>2, <2>1, <3>1, RequestInv
    <2>4. ASSUME ~disconnected, StatusOf(op) = "SUCCESS", NEW fid \in Assignable, Serve(fid)
          PROVE  Inv'
      <3>1. CASE op.step = "create"
        <4>1. HandlesInv'
          BY <1>1, <1>2, <2>1, <2>4, <3>1, HandlesCreated
        <4> QED
          BY <1>1, <1>2, <2>1, <4>1, RequestInv
      <3>2. CASE op.step = "close"
        <4>1. HandlesInv'
          BY <1>1, <1>2, <2>1, <2>4, <3>2, HandlesClosed
        <4> QED
          BY <1>1, <1>2, <2>1, <4>1, RequestInv
      <3>3. CASE op.step \notin {"create", "close"}
        <4>1. handles' = handles
          BY <1>1, <2>4, <3>3, ServedElse
        <4> QED
          BY <2>3, <4>1
      <3> QED
        BY <3>1, <3>2, <3>3
    <2> QED
      BY <2>3, <2>4 DEF Cancel, NotServed
  <1> QED
    BY <1>3, <1>4

-----------------------------------------------------------------------------
(* The invariant holds. *)

LEMMA InitInv ==
    ASSUME Init
    PROVE  Inv
  <1>1. /\ searches = [s \in Sids |-> NoSearch] /\ listing = Gone /\ closes = <<>>
        /\ disconnected = FALSE /\ lost = FALSE /\ strayed = FALSE
        /\ op = Idle /\ file = NoFid /\ handles = [f \in Fids |-> NoHandle]
    BY DEF Init, ListingInit
  <1>2. closes \in Seq(Closings) /\ Queued = {}
    <2>1. ToSet(<<>>) = {}
      BY DEF ToSet
    <2> QED
      BY <1>1, <2>1 DEF Queued
  <1>3. \A kind : Once(closes, kind)
    BY <1>1 DEF Once
  <1>4. QueueInv /\ OpInv
    BY <1>1, <1>2, IdleIs DEF QueueInv, OpInv, Deletes
  <1>5. ListingInv /\ ~Owes
    BY <1>1, GoneIs DEF ListingInv, Owes
  <1>6. SearchesInv
    <2>1. /\ searches = [s \in Sids |-> searches[s]]
          /\ \A s \in Sids : IsSearch(searches[s]) /\ searches[s].owner = "nobody"
      BY <1>1, SearchIs
    <2> QED
      BY <1>1, <1>2, <1>3, <1>5, <2>1 DEF SearchesInv
  <1>7. HandlesInv
    <2>1. /\ handles = [f \in Fids |-> handles[f]]
          /\ \A f \in Fids : IsHandle(handles[f]) /\ handles[f] = NoHandle
      BY <1>1, HandleIs
    <2> QED
      BY <1>1, <1>2, <1>3, <2>1, IdleIs DEF HandlesInv
  <1> QED
    BY <1>4, <1>5, <1>6, <1>7 DEF Inv

LEMMA NextInv ==
    ASSUME Inv, [Next]_vars
    PROVE  Inv'
  <1>1. CASE Call
    BY <1>1, CallStep
  <1>2. CASE Reply
    BY <1>2, ReplyStep
  <1>3. CASE Lapse
    BY <1>3, LapseStep
  <1>4. CASE Cancel
    BY <1>4, CancelStep
  <1>5. CASE Return
    BY <1>5, ReturnStep
  <1>6. CASE DropFile
    BY <1>6, DropFileStep
  <1>7. CASE SendHandleClose
    BY <1>7, SendHandleCloseStep
  <1>8. CASE ReadDir
    BY <1>8, ReadDirStep
  <1>9. CASE LetGo
    BY <1>9, LetGoStep
  <1>10. CASE RemoveDirAll
    BY <1>10, RemoveDirAllStep
  <1>11. CASE LevelRead
    BY <1>11, LevelReadStep
  <1>12. CASE Walk
    BY <1>12, WalkStep
  <1>13. CASE Removed
    BY <1>13, RemovedStep
  <1>14. CASE LevelFails
    BY <1>14, LevelFailsStep
  <1>15. CASE Listed(FindFirst)
    BY <1>15, FindFirstStep DEF Listed, Aside
  <1>16. CASE Listed(NextEntry)
    BY <1>16, NextEntryStep DEF Listed, Aside
  <1>17. CASE Listed(NextIsNone)
    BY <1>17, NextIsNoneStep DEF Listed, Aside
  <1>18. CASE Listed(NextRound)
    BY <1>18, NextRoundStep DEF Listed, Aside
  <1>19. CASE Listed(FindNext(OnFailure))
    <2> DEFINE failed == OnFailure
    <2>1. failed \in {"held", "error"}
      BY DEF OnFailure
    <2>2. FindNext(failed) /\ Aside
      BY <1>19 DEF Listed, Aside
    <2> HIDE DEF failed
    <2> QED
      BY <2>1, <2>2, FindNextStep
  <1>20. CASE Listed(SendFindClose)
    BY <1>20, SendFindCloseStep DEF Listed, Aside
  <1>21. CASE Listed(OtherSearch)
    BY <1>21, OtherSearchStep DEF Listed, Aside
  <1>22. CASE Listed(LoseReply(OnFailure))
    <2> DEFINE failed == OnFailure
    <2>1. failed \in {"held", "error"}
      BY DEF OnFailure
    <2>2. LoseReply(failed) /\ Aside
      BY <1>22 DEF Listed, Aside
    <2> HIDE DEF failed
    <2> QED
      BY <2>1, <2>2, LoseReplyStep
  <1>23. CASE Listed((op.verb = "read_dir" \/ listing.state = "drained") /\ CloseListing)
    BY <1>23, CloseListingStep DEF Listed, Aside
  <1>24. CASE OtherActs
    BY <1>24, OtherActsStep
  <1>25. CASE OtherCloses
    BY <1>25, OtherClosesStep
  <1>26. CASE UNCHANGED vars
    <2>1. UNCHANGED <<op, listing, closes, searches, strayed, lost, disconnected, handles,
                      file, inherited, exists, doomed>>
      BY <1>26 DEF vars, listVars, treeVars
    <2> QED
      BY <2>1, WorldInv, HeldIsThere
  <1> QED
    BY <1>1, <1>2, <1>3, <1>4, <1>5, <1>6, <1>7, <1>8, <1>9, <1>10, <1>11, <1>12, <1>13,
       <1>14, <1>15, <1>16, <1>17, <1>18, <1>19, <1>20, <1>21, <1>22, <1>23, <1>24, <1>25,
       <1>26 DEF Next

\* src/src/tree.rs, listing.rs and file.rs: whoever owns a search or a handle on the
\* server, the verb, the caller's File or the queue of closes, owns it alone.
THEOREM Invariance == Spec => []Inv
  BY InitInv, NextInv, PTL DEF Spec

-----------------------------------------------------------------------------
(* The theorems. *)

\* listing.rs:17 and file.rs:670: with no verb running, no ReadDir and no File held
\* and the queue sent, the server holds no search and no handle of this tree's, and
\* no search of someone else's was closed, unless a reply was lost.
THEOREM NothingIsLeft == Spec => []NothingLeftOpen
  <1>1. Inv => NothingLeftOpen
    <2> SUFFICES ASSUME Inv, ~lost
                 PROVE  NothingLeftOpen
      BY DEF NothingLeftOpen
    <2>1. ~strayed
      BY DEF Inv, SearchesInv
    <2>2. ASSUME op = Idle, file = NoFid, closes = <<>>
          PROVE  (\A s \in Sids : searches[s].owner # "listing") /\ OpenFids = {}
      <3>1. Queued = {}
        <4>1. ToSet(<<>>) = {}
          BY DEF ToSet
        <4> QED
          BY <2>2, <4>1 DEF Queued
      <3>2. ~Owes /\ ~Holds(op)
        BY <2>2, IdleIs, Rests
      <3>3. \A s \in Sids : searches[s].owner # "listing"
        BY <3>1, <3>2 DEF Inv, SearchesInv
      <3>4. \A f \in Fids : handles[f] = NoHandle
        BY <2>2, <3>1, <3>2, CallsAssumption DEF Inv, HandlesInv
      <3> QED
        BY <3>3, <3>4 DEF OpenFids
    <2> QED
      BY <2>1, <2>2 DEF NothingLeftOpen
  <1> QED
    BY <1>1, Invariance, PTL
\* The server has nothing that is not of the share.
NodesInv == exists \subseteq Nodes

LEMMA ServedNodes ==
    ASSUME NodesInv, StatusOf(op) = "SUCCESS", NEW fid, Serve(fid)
    PROVE  NodesInv'
  <1>1. CASE op.step = "create"
    <2>1. op.node \in exists \/ op.node \in Nodes
      BY <1>1 DEF StatusOf, CreateStatus
    <2>2. exists' = exists \cup {op.node}
      BY <1>1 DEF Serve
    <2> QED
      BY <2>1, <2>2 DEF NodesInv
  <1>2. CASE op.step = "close"
    <2>1. exists' \subseteq exists
      BY <1>2 DEF Serve, CloseHandle
    <2> QED
      BY <2>1 DEF NodesInv
  <1>3. CASE op.step = "rename"
    <2>1. op.to \in Nodes
      BY <1>3 DEF StatusOf, RenameStatus
    <2>2. exists' = (exists \ {op.node}) \cup {op.to}
      BY <1>3 DEF Serve
    <2> QED
      BY <2>1, <2>2 DEF NodesInv
  <1>4. CASE op.step \notin {"create", "close", "rename"}
    BY <1>4 DEF Serve, NodesInv
  <1> QED
    BY <1>1, <1>2, <1>3, <1>4

LEMMA NextNodes ==
    ASSUME NodesInv, [Next]_vars
    PROVE  NodesInv'
  <1>1. CASE exists' \subseteq exists
    BY <1>1 DEF NodesInv
  <1>2. CASE Reply
    <2>1. CASE \E fid \in Assignable : \E status \in Spellings(StatusOf(op)) :
                 IF status = "SUCCESS" THEN Serve(fid) ELSE NotServed
      BY <2>1, Statuses, ServedNodes DEF NotServed, NodesInv
    <2>2. CASE exists' = exists
      BY <2>2 DEF NodesInv
    <2> QED
      BY <1>2, <2>1, <2>2 DEF Reply, NotServed
  <1>3. CASE Lapse
    BY <1>3, ServedNodes DEF Lapse, NotServed, NodesInv
  <1>4. CASE Cancel
    BY <1>4, ServedNodes DEF Cancel, NotServed, NodesInv
  <1>5. CASE SendHandleClose
    BY <1>1, <1>5 DEF SendHandleClose, NotServed, CloseHandle
  <1>6. CASE OtherActs
    BY <1>6 DEF OtherActs, NodesInv
  <1>7. CASE OtherCloses
    BY <1>1, <1>7 DEF OtherCloses
  <1>8. CASE Call \/ Return \/ LetGo \/ Removed \/ UNCHANGED vars
    BY <1>1, <1>8 DEF Call, Return, LetGo, Removed, vars, listVars
  <1>9. CASE DropFile \/ ReadDir \/ RemoveDirAll \/ LevelRead \/ Walk \/ LevelFails
    BY <1>1, <1>9 DEF DropFile, ReadDir, RemoveDirAll, LevelRead, Walk, LevelFails
  <1>10. CASE \/ Listed(FindFirst) \/ Listed(NextEntry) \/ Listed(NextIsNone)
              \/ Listed(NextRound) \/ Listed(FindNext(OnFailure))
    BY <1>1, <1>10 DEF Listed, FindFirst, NextEntry, NextIsNone, NextRound, FindNext
  <1>11. CASE Listed(SendFindClose) \/ Listed(OtherSearch)
    BY <1>1, <1>11 DEF Listed, SendFindClose, OtherSearch
  <1>12. CASE Listed(LoseReply(OnFailure))
    BY <1>1, <1>12 DEF Listed, LoseReply
  <1>13. CASE Listed((op.verb = "read_dir" \/ listing.state = "drained") /\ CloseListing)
    BY <1>1, <1>13 DEF Listed, CloseListing
  <1> QED
    BY <1>2, <1>3, <1>4, <1>5, <1>6, <1>7, <1>8, <1>9, <1>10, <1>11, <1>12, <1>13 DEF Next

LEMMA NodesAreReal == Spec => []NodesInv
  <1>1. Init => NodesInv
    BY DEF Init, ListingInit, NodesInv
  <1> QED
    BY <1>1, NextNodes, PTL DEF Spec

\* Every step whose verb ends well has removed what it was to remove.
GoneWhenDone ==
    op' # op /\ op'.step = "done" /\ op'.result = "ok" /\ op'.kind \in Deletes =>
      \/ op'.node \notin exists'
      \/ op'.kind = "remove_file" /\ op'.node \in doomed'

\* A delete's close is answered.
LEMMA CloseRemoves ==
    ASSUME Inv, NodesInv, ~disconnected, op.step = "close", op.kind = "remove_file",
           NEW fid, Serve(fid)
    PROVE  op.node \notin exists' \/ op.node \in doomed'
  <1>1. /\ op.fid \in Fids /\ handles[op.fid].node = op.node /\ handles[op.fid].deletes
        /\ op.node \in exists \ doomed /\ op.node \notin Dirs
    BY HeldIsThere DEF Holds, Deletes
  <1>2. Children(op.node) = {}
    BY <1>1, TreeAssumption DEF Children, NodesInv
  <1>3. CloseHandle(op.fid)
    BY DEF Serve
  <1> QED
    BY <1>1, <1>2, <1>3, Closed

LEMMA ReplyGone ==
    ASSUME Inv, NodesInv, Reply
    PROVE  GoneWhenDone
  <1>1. op.step \in Requests /\ UNCHANGED <<closes, file, inherited>>
    BY DEF Reply
  <1>2. ASSUME ~disconnected, NEW fid \in Assignable, NEW status \in Spellings(StatusOf(op)),
               op' = Continue(op, Refused(status), fid),
               IF status = "SUCCESS" THEN Serve(fid) ELSE NotServed
        PROVE  GoneWhenDone
    <2> DEFINE error == Refused(status)
    <2>1. /\ error # "ok" /\ (error = "SUCCESS" <=> status = "SUCCESS")
      BY Statuses
    <2>2. op' = Continue(op, error, fid)
      BY <1>2
    <2>3. op.step \in {"basic", "standard"} /\ NotFound(error) =>
            op.node \notin exists /\ status # "SUCCESS"
      BY NotThere
    <2> HIDE DEF error
    <2>4. /\ op'.kind = op.kind /\ op'.node = op.node
          /\ op'.step = "done" /\ op'.result = "ok" /\ op.kind \in Deletes =>
               \/ op.kind = "remove_file" /\ op.step = "close" /\ error = "SUCCESS"
               \/ /\ op.kind = "remove_dir" /\ op.step \in {"basic", "standard"}
                  /\ NotFound(error)
      BY <1>1, <2>1, <2>2, ContinueOp
    <2>5. CASE op.kind = "remove_file" /\ op.step = "close" /\ error = "SUCCESS"
      <3>1. Serve(fid)
        BY <1>2, <2>1, <2>5
      <3>2. op.node \notin exists' \/ op.node \in doomed'
        BY <1>2, <2>5, <3>1, CloseRemoves
      <3> QED
        BY <2>4, <2>5, <3>2 DEF GoneWhenDone
    <2>6. CASE op.kind = "remove_dir" /\ op.step \in {"basic", "standard"} /\ NotFound(error)
      <3>1. op.node \notin exists'
        BY <1>2, <2>3, <2>6 DEF NotServed
      <3> QED
        BY <2>4, <3>1 DEF GoneWhenDone
    <2> QED
      BY <2>4, <2>5, <2>6 DEF GoneWhenDone
  <1>3. ASSUME NEW error, error \notin {"ok", "SUCCESS"}, ~NotFound(error),
               op' = Continue(op, error, op.fid)
        PROVE  GoneWhenDone
    BY <1>1, <1>3, ContinueOp DEF GoneWhenDone
  <1>4. CASE op' = Continue(op, Refused("ACCESS_DENIED"), op.fid)
    BY <1>3, <1>4, Failures
  <1>5. CASE op' = Continue(op, Refused("NETWORK_NAME_DELETED"), op.fid)
    BY <1>3, <1>5, Failures
  <1> QED
    BY <1>2, <1>4, <1>5 DEF Reply

LEMMA LapseGone ==
    ASSUME Inv, Lapse
    PROVE  GoneWhenDone
  <1>1. op.step \in Requests /\ UNCHANGED <<closes, file, inherited>>
    BY DEF Lapse
  <1>2. PICK error : /\ error \notin {"ok", "SUCCESS"} /\ ~NotFound(error)
                     /\ op' = Continue(op, error, op.fid)
    BY Failures DEF Lapse
  <1> QED
    BY <1>1, <1>2, ContinueOp DEF GoneWhenDone

\* A verb that begins has not ended well.
LEMMA BeginsNotGone ==
    ASSUME NEW verb, NEW kind \in Kinds, NEW path, NEW to, NEW fid,
           NEW q, q = Begin(verb, kind, path, to, fid)
    PROVE  IsOp(q) /\ ~(q.step = "done" /\ q.result = "ok")
  <1>1. IsOp(q) /\ ((q.step = "done" /\ q.result # "ok") \/ q.step = Head(Program[kind]))
    BY BeginIs
  <1>2. Head(Program[kind]) # "done"
    BY FirstStep
  <1> QED
    BY <1>1, <1>2

LEMMA CallGone ==
    ASSUME Call
    PROVE  GoneWhenDone
  <1>1. PICK kind \in DOMAIN Program : \E path, to, disposition :
          op' = [Begin(kind, kind, path, to, file) EXCEPT !.disposition = disposition]
    BY DEF Call
  <1>2. PICK path, to, disposition :
          op' = [Begin(kind, kind, path, to, file) EXCEPT !.disposition = disposition]
    BY <1>1
  <1> DEFINE b == Begin(kind, kind, path, to, file)
  <1>3. IsOp(b) /\ ~(b.step = "done" /\ b.result = "ok")
    BY BeginsNotGone, Programs
  <1>4. op' = [b EXCEPT !.disposition = disposition]
    BY <1>2
  <1> HIDE DEF b
  <1> QED
    BY <1>3, <1>4, SetDisposition DEF GoneWhenDone

LEMMA WalkGone ==
    ASSUME Walk
    PROVE  GoneWhenDone
  <1>1. CASE \E path, under : EnterLevel(path, under)
    <2>1. op' = Lister("remove_dir_all") \/ op' = Refusal("remove_dir_all")
      BY <1>1 DEF EnterLevel, Lister, Refusal
    <2> QED
      BY <2>1, ListsIs, RefusalIs DEF GoneWhenDone
  <1>2. CASE \E kind \in Deletes : \E path :
               op' = Begin("remove_dir_all", kind, path, <<>>, NoFid)
    <2>1. PICK kind, path :
            kind \in Deletes /\ op' = Begin("remove_dir_all", kind, path, <<>>, NoFid)
      BY <1>2
    <2>2. kind \in Kinds
      BY <2>1 DEF Deletes, Kinds
    <2> QED
      BY <2>1, <2>2, BeginsNotGone DEF GoneWhenDone
  <1> QED
    BY <1>1, <1>2 DEF Walk, Deletes

LEMMA NextGone ==
    ASSUME Inv, NodesInv, [Next]_vars
    PROVE  GoneWhenDone
  <1>1. CASE Call \/ Reply \/ Lapse \/ Walk
    BY <1>1, CallGone, ReplyGone, LapseGone, WalkGone
  <1>2. CASE op' = op
    BY <1>2 DEF GoneWhenDone
  <1>3. CASE op' = Idle
    BY <1>3, IdleIs DEF GoneWhenDone
  <1>4. CASE ReadDir
    <2>1. CASE op' = Refusal("read_dir")
      BY <2>1, RefusalIs DEF GoneWhenDone
    <2>2. CASE op' = Lister("read_dir")
      BY <2>2, ListsIs DEF GoneWhenDone
    <2> QED
      BY <1>4, <2>1, <2>2 DEF ReadDir, Lister, Refusal
  <1>5. CASE RemoveDirAll
    <2>1. op' = Lister("remove_dir_all") \/ op' = Refusal("remove_dir_all")
      BY <1>5 DEF RemoveDirAll, EnterLevel, Lister, Refusal
    <2> QED
      BY <2>1, ListsIs, RefusalIs DEF GoneWhenDone
  <1>6. CASE LevelRead
    <2>1. op' = [op EXCEPT !.step = "walk"] /\ IsOp(op)
      BY <1>6 DEF LevelRead, Inv, OpInv
    <2>2. op'.step = "walk"
      BY <2>1, SetStep
    <2> QED
      BY <2>2 DEF GoneWhenDone
  <1>7. CASE Removed
    <2>1. CASE op' = [op EXCEPT !.kind = "none", !.step = "walk", !.result = "none"]
      <3> DEFINE p1 == [op EXCEPT !.kind = "none"]
                 p2 == [p1 EXCEPT !.step = "walk"]
      <3>1. op' = [p2 EXCEPT !.result = "none"]
        BY <2>1
      <3>2. p2 = [p1 EXCEPT !.step = "walk"]
        OBVIOUS
      <3>3. IsOp(p1)
        BY SetKind DEF Inv, OpInv
      <3> HIDE DEF p1, p2
      <3>4. IsOp(p2)
        BY <3>2, <3>3, SetStep
      <3>5. op'.result = "none"
        BY <3>1, <3>4, SetResult
      <3> QED
        BY <3>5 DEF GoneWhenDone
    <2> QED
      BY <1>3, <1>7, <2>1 DEF Removed
  <1>8. CASE Cancel \/ Return \/ LetGo \/ LevelFails
    BY <1>3, <1>8 DEF Cancel, Return, LetGo, LevelFails
  <1>9. CASE \/ DropFile \/ SendHandleClose \/ OtherActs \/ OtherCloses \/ UNCHANGED vars
    BY <1>2, <1>9 DEF DropFile, SendHandleClose, OtherActs, OtherCloses, vars, treeVars
  <1>10. CASE \/ Listed(FindFirst) \/ Listed(NextEntry) \/ Listed(NextIsNone)
              \/ Listed(NextRound) \/ Listed(FindNext(OnFailure)) \/ Listed(SendFindClose)
              \/ Listed(OtherSearch)
              \/ Listed(LoseReply(OnFailure))
              \/ Listed((op.verb = "read_dir" \/ listing.state = "drained") /\ CloseListing)
    BY <1>2, <1>10 DEF Listed
  <1> QED
    BY <1>1, <1>4, <1>5, <1>6, <1>7, <1>8, <1>9, <1>10 DEF Next

\* src/src/tree.rs:376: a remove that returns Ok has removed: a directory is gone at
\* that moment with all that was in it, and a file is gone or goes with the last handle
\* another client has on it, whatever the statuses of the delete said.
THEOREM RemovedIsGone == Spec => RemovedMeansGone
  <1>1. Inv /\ NodesInv /\ [Next]_vars => [GoneWhenDone]_vars
    BY NextGone
  <1>2. Spec => [][GoneWhenDone]_vars
    BY <1>1, NodesAreReal, Invariance, PTL DEF Spec
  <1>3. RemovedMeansGone <=> [][GoneWhenDone]_vars
    BY DEF RemovedMeansGone, GoneWhenDone
  <1> QED
    BY <1>2, <1>3, PTL

\* src/src/tree.rs:389: nothing is unlinked from a directory while the walk's own search
\* of it is open.  One that an earlier verb left is queued to be closed, and was when
\* the walk began.
THEOREM ClosedFirst == Spec => ClosedBeforeTouched
  <1> DEFINE Closed1 ==
               op.verb = "remove_dir_all" /\ ~lost /\ op.step = "close" =>
                 \A n \in touched' \ touched, s \in Sids :
                   searches[s].owner = "listing" /\ searches[s].dir = Parent[n] =>
                     [kind |-> "search", id |-> s] \in inherited \cap ToSet(closes)
  <1>1. Inv => Closed1
    <2> SUFFICES ASSUME Inv, op.verb = "remove_dir_all", ~lost, op.step = "close",
                        NEW s \in Sids, searches[s].owner = "listing"
                 PROVE  SearchClose(s) \in inherited \cap Queued
      BY DEF SearchClose, Queued
    <2>1. ~Owes
      BY Rests
    <2>2. SearchClose(s) \in Queued
      BY <2>1 DEF Inv, SearchesInv
    <2> QED
      BY <2>2 DEF Inv, OpInv
  <1>2. Spec => [][Closed1]_vars
    <2>1. Inv /\ [Next]_vars => [Closed1]_vars
      BY <1>1
    <2> QED
      BY <2>1, Invariance, PTL DEF Spec
  <1> QED
    BY <1>2 DEF ClosedBeforeTouched

-----------------------------------------------------------------------------
(* The chain of a page is read back as it was written. *)

\* Where entry i of a block stands.
At(stride, i) == stride * (i - 1)

\* Entries stand apart.
LEMMA Apart ==
    ASSUME NEW stride \in Nat \ {0}, NEW i \in Nat, NEW j \in Nat, i < j
    PROVE  stride * i + stride <= stride * j
  <1>1. PICK d \in Nat : j = i + 1 + d
    <2>1. j - i - 1 \in Nat /\ j = i + 1 + (j - i - 1)
      OBVIOUS
    <2> QED
      BY <2>1
  <1>2. stride * j = stride * i + stride + stride * d
    BY <1>1
  <1>3. stride * d >= 0 /\ stride * i \in Nat /\ stride * d \in Nat
    OBVIOUS
  <1> QED
    BY <1>2, <1>3

LEMMA OnePlace ==
    ASSUME NEW stride \in Nat \ {0}, NEW i \in Nat \ {0}, NEW j \in Nat \ {0},
           At(stride, i) = At(stride, j)
    PROVE  i = j
  <1>1. /\ i - 1 \in Nat /\ j - 1 \in Nat
        /\ stride * (i - 1) \in Nat /\ stride * (j - 1) \in Nat
        /\ stride * (i - 1) = stride * (j - 1)
    BY DEF At
  <1>2. CASE i < j
    <2>1. stride * (i - 1) + stride <= stride * (j - 1)
      BY <1>1, <1>2, Apart
    <2> QED
      BY <1>1, <2>1
  <1>3. CASE j < i
    <2>1. stride * (j - 1) + stride <= stride * (i - 1)
      BY <1>1, <1>3, Apart
    <2> QED
      BY <1>1, <2>1
  <1> QED
    BY <1>2, <1>3

\* What stands in a block.
Written(names, stride, ending, data) ==
    /\ data.length = stride * Len(names)
    /\ DOMAIN data.at = {At(stride, i) : i \in 1 .. Len(names)}
    /\ \A i \in 1 .. Len(names) :
         /\ data.at[At(stride, i)].name = names[i]
         /\ data.at[At(stride, i)].size = 1
         /\ data.at[At(stride, i)].next =
              IF i = Len(names) /\ ending = "zero" THEN 0 ELSE stride

LEMMA BlockIs ==
    ASSUME NEW S, NEW names \in Seq(S), NEW pad \in {0, 1}, NEW ending \in {"zero", "end"},
           NEW data, data = Block(names, pad, ending),
           NEW stride, stride = MinEntryLen + 1 + pad
    PROVE  Written(names, stride, ending, data)
  <1> DEFINE n == Len(names)
             entry(i) == [name |-> names[i], size |-> 1,
                          next |-> IF i = n /\ ending = "zero" THEN 0 ELSE stride]
             at == [offset \in {stride * (i - 1) : i \in 1 .. n} |->
                      entry(CHOOSE i \in 1 .. n : offset = stride * (i - 1))]
  <1>1. data.length = stride * n /\ data.at = at
    BY DEF Block
  <1>2. stride \in Nat \ {0} /\ n \in Nat
    BY MinEntryLenAssumption
  <1>3. ASSUME NEW i \in 1 .. n
        PROVE  at[At(stride, i)] = entry(i)
    <2>1. \A j \in 1 .. n : At(stride, i) = stride * (j - 1) => j = i
      BY <1>2, OnePlace DEF At
    <2>2. At(stride, i) = stride * (i - 1)
      BY DEF At
    <2>3. (CHOOSE j \in 1 .. n : At(stride, i) = stride * (j - 1)) = i
      BY <2>1, <2>2
    <2> HIDE DEF entry
    <2> QED
      BY <2>2, <2>3
  <1>4. DOMAIN at = {At(stride, i) : i \in 1 .. n}
    BY DEF At
  <1>5. \A i \in 1 .. n : /\ entry(i).name = names[i] /\ entry(i).size = 1
                         /\ entry(i).next = IF i = n /\ ending = "zero" THEN 0 ELSE stride
    OBVIOUS
  <1> HIDE DEF at, entry
  <1> QED
    BY <1>1, <1>3, <1>4, <1>5 DEF Written

\* One step of the walk of a chain, for whoever satisfies its equation.
Walk1(data, f) ==
    [offset \in DOMAIN data.at \cup {data.length} |->
       IF offset = data.length THEN [error |-> "none", names |-> <<>>]
       ELSE IF data.length - offset < MinEntryLen
       THEN [error |-> "Truncated", names |-> <<>>]
       ELSE LET entry == data.at[offset]
                next == IF offset + entry.next > data.length THEN data.length
                        ELSE offset + entry.next
                rest == IF entry.next = 0 THEN [error |-> "none", names |-> <<>>]
                        ELSE f[next]
            IN  IF data.length - offset < MinEntryLen + entry.size
                THEN [error |-> "Truncated", names |-> <<>>]
                ELSE IF entry.next \in 1 .. MinEntryLen - 1
                THEN [error |-> "EntryOffsetTooSmall", names |-> <<>>]
                ELSE IF rest.error # "none" THEN rest
                ELSE [error |-> "none", names |-> <<entry.name>> \o rest.names]]

Walks(data, f) == f = Walk1(data, f)

LEMMA WalksWhen ==
    ASSUME NEW data, NEW g, g = [offset \in DOMAIN g |-> g[offset]],
           DOMAIN Walk1(data, g) = DOMAIN g,
           \A offset \in DOMAIN g : Walk1(data, g)[offset] = g[offset]
    PROVE  Walks(data, g)
  <1> DEFINE step(offset) ==
               IF offset = data.length THEN [error |-> "none", names |-> <<>>]
               ELSE IF data.length - offset < MinEntryLen
               THEN [error |-> "Truncated", names |-> <<>>]
               ELSE LET entry == data.at[offset]
                        next == IF offset + entry.next > data.length THEN data.length
                                ELSE offset + entry.next
                        rest == IF entry.next = 0 THEN [error |-> "none", names |-> <<>>]
                                ELSE g[next]
                    IN  IF data.length - offset < MinEntryLen + entry.size
                        THEN [error |-> "Truncated", names |-> <<>>]
                        ELSE IF entry.next \in 1 .. MinEntryLen - 1
                        THEN [error |-> "EntryOffsetTooSmall", names |-> <<>>]
                        ELSE IF rest.error # "none" THEN rest
                        ELSE [error |-> "none", names |-> <<entry.name>> \o rest.names]
             walk == [offset \in DOMAIN data.at \cup {data.length} |-> step(offset)]
  <1>1. Walk1(data, g) = walk
    BY DEF Walk1
  <1> HIDE DEF step
  <1> QED
    BY <1>1 DEF Walks

\* If the equation has a solution, the walk is one.
LEMMA WalkIs ==
    ASSUME NEW data, NEW count, NEW g, Walks(data, g)
    PROVE  \E f : /\ Walks(data, f)
                  /\ WalkEntries(data, count) =
                       IF f[0].error = "none" /\ Len(f[0].names) # count
                       THEN [error |-> "EntryCountMismatch", names |-> <<>>] ELSE f[0]
  <1> DEFINE f == CHOOSE h : Walks(data, h)
  <1>1. WalkEntries(data, count) =
          IF f[0].error = "none" /\ Len(f[0].names) # count
          THEN [error |-> "EntryCountMismatch", names |-> <<>>] ELSE f[0]
    BY DEF WalkEntries, Walks, Walk1
  <1>2. Walks(data, f)
    OBVIOUS
  <1> HIDE DEF f
  <1> QED
    BY <1>1, <1>2

\* One step of it in a block: an entry and what follows it.
Done == [error |-> "none", names |-> <<>>]

Onto(name, rest) ==
    IF rest.error # "none" THEN rest ELSE [error |-> "none", names |-> <<name>> \o rest.names]

Steps(names, stride, ending, f, walk) ==
    /\ DOMAIN walk = {At(stride, i) : i \in 1 .. Len(names) + 1}
    /\ walk[At(stride, Len(names) + 1)] = Done
    /\ \A i \in 1 .. Len(names) :
         walk[At(stride, i)] =
           Onto(names[i], IF i = Len(names) /\ ending = "zero" THEN Done
                          ELSE f[At(stride, i + 1)])

LEMMA WalksOn ==
    ASSUME NEW S, NEW names \in Seq(S), NEW pad \in {0, 1}, NEW ending \in {"zero", "end"},
           NEW data, data = Block(names, pad, ending),
           NEW stride, stride = MinEntryLen + 1 + pad, NEW f
    PROVE  Steps(names, stride, ending, f, Walk1(data, f))
  <1> DEFINE n == Len(names)
  <1>1. /\ data.length = stride * n
        /\ DOMAIN data.at = {At(stride, i) : i \in 1 .. n}
        /\ \A i \in 1 .. n :
             /\ data.at[At(stride, i)].name = names[i]
             /\ data.at[At(stride, i)].size = 1
             /\ data.at[At(stride, i)].next = IF i = n /\ ending = "zero" THEN 0 ELSE stride
    <2>1. Written(names, stride, ending, data)
      BY BlockIs
    <2> QED
      BY <2>1 DEF Written
  <1>2. stride \in Nat \ {0} /\ n \in Nat /\ stride > MinEntryLen /\ MinEntryLen \in Nat \ {0}
    BY MinEntryLenAssumption
  <1>3. At(stride, n + 1) = data.length
    BY <1>1, <1>2 DEF At
  <1>4. DOMAIN Walk1(data, f) = {At(stride, i) : i \in 1 .. n + 1}
    <2>1. DOMAIN Walk1(data, f) = DOMAIN data.at \cup {data.length}
      BY DEF Walk1
    <2>2. 1 .. n + 1 = (1 .. n) \cup {n + 1}
      BY <1>2
    <2> QED
      BY <1>1, <1>3, <2>1, <2>2
  <1>5. data.length \in Nat
    BY <1>1, <1>2
  <1>6. Walk1(data, f)[data.length] = Done
    BY <1>5 DEF Walk1, Done
  <1>7. ASSUME NEW i \in 1 .. n
        PROVE  Walk1(data, f)[At(stride, i)] =
                 Onto(names[i], IF i = n /\ ending = "zero" THEN Done
                                ELSE f[At(stride, i + 1)])
    <2> DEFINE o == At(stride, i)
               e == data.at[o]
    <2>1. o \in Nat /\ o + stride = At(stride, i + 1)
      <3>1. stride \in Nat /\ i - 1 \in Nat /\ (i + 1) - 1 = (i - 1) + 1
        BY <1>2
      <3>2. stride * (i - 1) \in Nat
        BY <3>1
      <3>3. stride * ((i - 1) + 1) = stride * (i - 1) + stride
        BY <3>1
      <3> QED
        BY <3>1, <3>2, <3>3 DEF At
    <2>2. o + stride <= data.length
      <3>1. i - 1 \in Nat /\ i - 1 < n
        BY <1>2
      <3> QED
        BY <1>1, <1>2, <3>1, Apart DEF At
    <2>3. o \in DOMAIN data.at \cup {data.length}
      BY <1>1
    <2>4. e.name = names[i] /\ e.size = 1
          /\ e.next = IF i = n /\ ending = "zero" THEN 0 ELSE stride
      BY <1>1
    <2> HIDE DEF o, e
    <2>5. /\ o # data.length /\ ~(data.length - o < MinEntryLen)
          /\ ~(data.length - o < MinEntryLen + e.size)
          /\ e.next \notin 1 .. MinEntryLen - 1
      <3>1. data.length - o >= stride /\ data.length - o \in Int
        BY <1>2, <1>5, <2>1, <2>2
      <3>2. stride >= MinEntryLen + 1 /\ stride \in Nat
        BY <1>2
      <3>3. o # data.length
        BY <1>2, <1>5, <2>1, <3>1
      <3>4. e.next \notin 1 .. MinEntryLen - 1
        BY <1>2, <2>4, <3>2
      <3> QED
        BY <1>2, <2>4, <3>1, <3>2, <3>3, <3>4
    <2>6. e.next = 0 <=> i = n /\ ending = "zero"
      BY <1>2, <2>4
    <2>7. e.next # 0 => e.next = stride /\ ~(o + e.next > data.length)
      BY <1>2, <1>5, <2>1, <2>2, <2>4
    <2> DEFINE rest == IF e.next = 0 THEN Done ELSE f[o + stride]
    <2>8. Walk1(data, f)[o] = Onto(e.name, rest)
      BY <2>3, <2>5, <2>7 DEF Walk1, Onto, Done, e
    <2> QED
      BY <2>1, <2>4, <2>6, <2>8 DEF o
  <1> QED
    BY <1>3, <1>4, <1>6, <1>7 DEF Steps

\* What is left of a sequence from its i-th element on.
LEMMA FromOn ==
    ASSUME NEW S, NEW s \in Seq(S), NEW i \in 1 .. Len(s)
    PROVE  <<s[i]>> \o SubSeq(s, i + 1, Len(s)) = SubSeq(s, i, Len(s))
  <1> DEFINE n == Len(s)
             a == <<s[i]>> \o SubSeq(s, i + 1, n)
             b == SubSeq(s, i, n)
  <1>1. n \in Nat /\ i + 1 \in Nat /\ \A k \in 1 .. n : s[k] \in S
    OBVIOUS
  <1>2. /\ SubSeq(s, i + 1, n) \in Seq(S) /\ Len(SubSeq(s, i + 1, n)) = n - i
        /\ \A k \in 1 .. n - i : SubSeq(s, i + 1, n)[k] = s[i + k]
    BY <1>1
  <1>3. /\ b \in Seq(S) /\ Len(b) = n - i + 1
        /\ \A k \in 1 .. n - i + 1 : b[k] = s[i + k - 1]
    BY <1>1
  <1>4. /\ a \in Seq(S) /\ Len(a) = n - i + 1
        /\ a[1] = s[i] /\ \A k \in 2 .. n - i + 1 : a[k] = SubSeq(s, i + 1, n)[k - 1]
    BY <1>1, <1>2
  <1> HIDE DEF a, b
  <1>5. \A k \in 1 .. Len(a) : a[k] = b[k]
    <2> TAKE k \in 1 .. Len(a)
    <2>1. CASE k = 1
      BY <1>1, <1>3, <1>4, <2>1
    <2>2. CASE k # 1
      <3>1. k \in 2 .. n - i + 1 /\ k - 1 \in 1 .. n - i /\ i + (k - 1) = i + k - 1
        BY <1>1, <1>4, <2>2
      <3>2. a[k] = s[i + (k - 1)]
        BY <1>2, <1>4, <3>1
      <3> QED
        BY <1>3, <1>4, <3>1, <3>2
    <2> QED
      BY <2>1, <2>2
  <1>6. a = b
    BY <1>3, <1>4, <1>5, SeqEqual
  <1> QED
    BY <1>6 DEF a, b

\* The chain the server wrote is read as its names, if it holds as many as it says.
LEMMA BlockReads ==
    ASSUME NEW S, NEW names \in Seq(S), NEW pad \in {0, 1}, NEW ending \in {"zero", "end"},
           NEW data, data = Block(names, pad, ending), NEW count
    PROVE  WalkEntries(data, count) =
             IF Len(names) # count THEN [error |-> "EntryCountMismatch", names |-> <<>>]
             ELSE [error |-> "none", names |-> names]
  <1>0. PICK stride : stride = MinEntryLen + 1 + pad
    OBVIOUS
  <1> DEFINE n == Len(names)
             from(i) == [error |-> "none", names |-> SubSeq(names, i, n)]
             g == [offset \in {At(stride, i) : i \in 1 .. n + 1} |->
                     from(CHOOSE i \in 1 .. n + 1 : offset = At(stride, i))]
  <1>1. stride \in Nat \ {0} /\ n \in Nat
    BY <1>0, MinEntryLenAssumption
  <1>2. \A f : /\ DOMAIN Walk1(data, f) = {At(stride, i) : i \in 1 .. n + 1}
               /\ Walk1(data, f)[At(stride, n + 1)] = Done
               /\ \A i \in 1 .. n :
                    Walk1(data, f)[At(stride, i)] =
                      Onto(names[i], IF i = n /\ ending = "zero" THEN Done
                                     ELSE f[At(stride, i + 1)])
    <2> TAKE f
    <2>1. Steps(names, stride, ending, f, Walk1(data, f))
      BY <1>0, WalksOn
    <2> QED
      BY <2>1 DEF Steps
  <1>3. from(n + 1) = Done
    BY <1>1 DEF Done
  <1>4. ASSUME NEW i \in 1 .. n, NEW f, f[At(stride, i + 1)] = from(i + 1)
        PROVE  Onto(names[i], IF i = n /\ ending = "zero" THEN Done
                              ELSE f[At(stride, i + 1)]) = from(i)
    <2>1. (IF i = n /\ ending = "zero" THEN Done ELSE f[At(stride, i + 1)]) = from(i + 1)
      BY <1>3, <1>4
    <2>2. <<names[i]>> \o SubSeq(names, i + 1, n) = SubSeq(names, i, n)
      BY FromOn
    <2>3. from(i + 1).error = "none" /\ from(i + 1).names = SubSeq(names, i + 1, n)
      OBVIOUS
    <2>4. Onto(names[i], from(i + 1)) = from(i)
      BY <2>2, <2>3 DEF Onto
    <2> HIDE DEF from
    <2> QED
      BY <2>1, <2>4
  <1>5. \A i \in 1 .. n + 1 : g[At(stride, i)] = from(i)
    <2> TAKE i \in 1 .. n + 1
    <2>1. \A j \in 1 .. n + 1 : At(stride, i) = At(stride, j) => i = j
      BY <1>1, OnePlace
    <2>2. (CHOOSE j \in 1 .. n + 1 : At(stride, i) = At(stride, j)) = i
      BY <2>1
    <2> HIDE DEF from
    <2> QED
      BY <2>2
  <1>6. DOMAIN g = {At(stride, i) : i \in 1 .. n + 1}
    OBVIOUS
  <1> HIDE DEF g, from
  <1>7. Walks(data, g)
    <2>1. \A i \in 1 .. n + 1 : Walk1(data, g)[At(stride, i)] = g[At(stride, i)]
      <3> TAKE i \in 1 .. n + 1
      <3>1. CASE i = n + 1
        BY <1>1, <1>2, <1>3, <1>5, <3>1
      <3>2. CASE i # n + 1
        <4>1. i \in 1 .. n /\ i + 1 \in 1 .. n + 1
          BY <1>1, <3>2
        <4> QED
          BY <1>2, <1>4, <1>5, <4>1
      <3> QED
        BY <3>1, <3>2
    <2>2. g = [offset \in DOMAIN g |-> g[offset]]
      BY DEF g
    <2>3. DOMAIN Walk1(data, g) = DOMAIN g
      BY <1>2, <1>6
    <2> HIDE DEF n
    <2> QED
      BY <1>6, <2>1, <2>2, <2>3, WalksWhen
  <1>8. PICK f : /\ Walks(data, f)
                 /\ WalkEntries(data, count) =
                      IF f[0].error = "none" /\ Len(f[0].names) # count
                      THEN [error |-> "EntryCountMismatch", names |-> <<>>] ELSE f[0]
    BY <1>7, WalkIs
  <1>9. \A i \in 1 .. n + 1 : f[At(stride, i)] = from(i)
    <2> DEFINE wrong == {k \in 0 .. n : f[At(stride, n + 1 - k)] # from(n + 1 - k)}
    <2>1. CASE wrong = {}
      <3> TAKE i \in 1 .. n + 1
      <3>1. n + 1 - i \in 0 .. n /\ n + 1 - (n + 1 - i) = i
        BY <1>1
      <3> QED
        BY <2>1, <3>1
    <2>2. CASE wrong # {}
      <3>1. PICK k \in wrong : \A j \in wrong : k <= j
        <4>1. wrong \in SUBSET Nat
          BY <1>1
        <4> QED
          BY <2>2, <4>1, Least
      <3>2. k # 0
        BY <1>1, <1>2, <1>3, <1>8, <3>1 DEF Walks
      <3> DEFINE i == n + 1 - k
      <3>3. i \in 1 .. n /\ i + 1 = n + 1 - (k - 1) /\ k - 1 \in 0 .. n /\ k - 1 < k
        BY <1>1, <3>1, <3>2
      <3>4. k - 1 \notin wrong
        BY <1>1, <3>1, <3>3
      <3> HIDE DEF i
      <3>5. f[At(stride, i + 1)] = from(i + 1)
        BY <3>3, <3>4
      <3>6. f[At(stride, i)] = from(i)
        BY <1>2, <1>4, <1>8, <3>3, <3>5 DEF Walks
      <3> QED
        BY <3>1, <3>6 DEF i
    <2> QED
      BY <2>1, <2>2
  <1>10. f[0] = [error |-> "none", names |-> names]
    <2>1. At(stride, 1) = 0 /\ 1 \in 1 .. n + 1
      BY <1>1 DEF At
    <2>2. SubSeq(names, 1, n) = names
      OBVIOUS
    <2> QED
      BY <1>9, <2>1, <2>2 DEF from
  <1> QED
    BY <1>8, <1>10

\* A block that stops inside its only entry is refused.
LEMMA CutIs ==
    ASSUME NEW names, Len(names) = 1, NEW count,
           NEW data, data = [Block(names, 0, "zero") EXCEPT !.length = @ - 1]
    PROVE  WalkEntries(data, count).error = "Truncated"
  <1> DEFINE stride == MinEntryLen + 1 + 0
             block == Block(names, 0, "zero")
             cut == [error |-> "Truncated", names |-> <<>>]
             g == [offset \in {0, MinEntryLen} |-> IF offset = 0 THEN cut ELSE Done]
  <1>1. MinEntryLen \in Nat \ {0} /\ stride = MinEntryLen + 1
    BY MinEntryLenAssumption
  <1>2. /\ block = [length |-> stride * 1, at |-> block.at]
        /\ DOMAIN block.at = {stride * (i - 1) : i \in 1 .. 1}
        /\ block.at[0] = [name |-> names[1], size |-> 1, next |-> 0]
    <2> DEFINE entry(i) == [name |-> names[i], size |-> 1,
                            next |-> IF i = 1 THEN 0 ELSE stride]
               at == [offset \in {stride * (i - 1) : i \in 1 .. 1} |->
                        entry(CHOOSE i \in 1 .. 1 : offset = stride * (i - 1))]
    <2>1. block = [length |-> stride * 1, at |-> at]
      BY DEF Block
    <2>2. stride * (1 - 1) = 0 /\ 0 \in {stride * (i - 1) : i \in 1 .. 1}
      <3>1. 1 - 1 = 0 /\ stride * 0 = 0 /\ 1 \in 1 .. 1
        BY <1>1
      <3> QED
        BY <3>1
    <2>3. (CHOOSE i \in 1 .. 1 : 0 = stride * (i - 1)) = 1
      BY <2>2
    <2>4. at[0] = entry(1)
      BY <2>2, <2>3
    <2> QED
      BY <2>1, <2>4
  <1>3. DOMAIN block.at = {0}
    BY <1>1, <1>2
  <1>4. data.length = MinEntryLen /\ data.at = block.at
    BY <1>1, <1>2
  <1> HIDE DEF block
  <1>5. \A f : /\ DOMAIN Walk1(data, f) = {0, MinEntryLen}
               /\ Walk1(data, f)[0] = cut
               /\ Walk1(data, f)[MinEntryLen] = Done
    <2> TAKE f
    <2> HIDE DEF stride, cut
    <2>1. DOMAIN data.at \cup {data.length} = {0, MinEntryLen} /\ MinEntryLen # 0
      BY <1>1, <1>3, <1>4
    <2>2. DOMAIN Walk1(data, f) = {0, MinEntryLen}
      BY <2>1 DEF Walk1
    <2>3. Walk1(data, f)[MinEntryLen] = Done
      BY <1>4, <2>1 DEF Walk1, Done
    <2>4. data.at[0].size = 1
      BY <1>2, <1>4
    <2>5. ~(MinEntryLen - 0 < MinEntryLen) /\ MinEntryLen - 0 < MinEntryLen + 1
      BY <1>1
    <2>6. Walk1(data, f)[0] = cut
      BY <1>4, <2>1, <2>4, <2>5 DEF Walk1, cut
    <2> QED
      BY <2>2, <2>3, <2>6
  <1>6. g[0] = cut /\ g[MinEntryLen] = Done /\ DOMAIN g = {0, MinEntryLen}
    BY <1>1
  <1> HIDE DEF cut, g
  <1>7. Walks(data, g)
    <2>1. g = [offset \in DOMAIN g |-> g[offset]]
      BY DEF g
    <2> QED
      BY <1>5, <1>6, <2>1, WalksWhen
  <1>8. PICK f : /\ Walks(data, f)
                 /\ WalkEntries(data, count) =
                      IF f[0].error = "none" /\ Len(f[0].names) # count
                      THEN [error |-> "EntryCountMismatch", names |-> <<>>] ELSE f[0]
    BY <1>7, WalkIs
  <1>9. f[0] = cut
    BY <1>5, <1>8 DEF Walks
  <1> QED
    BY <1>8, <1>9 DEF cut

-----------------------------------------------------------------------------
(* The entries of a page. *)

\* Each element stands at one place.
OnceEach(s) == \A i, j \in 1 .. Len(s) : s[i] = s[j] => i = j

\* What a server enumerates, it enumerates once each.
LEMMA EnumeratedIs ==
    ASSUME NEW set, IsFiniteSet(set)
    PROVE  LET names == SetToSeq(set)
           IN  names \in Seq(set) /\ OnceEach(names) /\ ToSet(names) = set
  <1> DEFINE n == Cardinality(set)
             names == SetToSeq(set)
  <1>1. n \in Nat /\ ExistsBijection(1 .. n, set)
    BY FS_CardinalityType
  <1>2. PICK g \in Bijection(1 .. n, set) : TRUE
    BY <1>1 DEF ExistsBijection
  <1>3. g \in [1 .. n -> set] /\ IsInjective(g)
    BY <1>2 DEF Bijection, Injection
  <1>4. names \in [1 .. n -> set] /\ IsInjective(names)
    BY <1>3 DEF SetToSeq
  <1> HIDE DEF names
  <1>5. names \in Injection(1 .. n, set)
    BY <1>4 DEF Injection
  <1>6. IsFiniteSet(1 .. n) /\ Cardinality(1 .. n) = n
    BY <1>1, FS_Interval
  <1>7. names \in Surjection(1 .. n, set)
    BY <1>5, <1>6, FS_Injection
  <1>8. names \in Seq(set) /\ Len(names) = n /\ DOMAIN names = 1 .. n
    BY <1>1, <1>4
  <1>9. OnceEach(names)
    BY <1>4, <1>8 DEF IsInjective, OnceEach
  <1>10. ToSet(names) = set
    <2>1. \A t \in set : \E i \in 1 .. n : names[i] = t
      BY <1>7 DEF Surjection
    <2>2. \A i \in 1 .. n : names[i] \in set
      BY <1>4
    <2> QED
      BY <1>8, <2>1, <2>2 DEF ToSet
  <1> QED
    BY <1>8, <1>9, <1>10 DEF names

\* Whatever block the server wrote of a page, the walk refuses it or reads the page.
LEMMA PageReads ==
    ASSUME NEW reply, IsFiniteSet(reply.names), NEW block \in Blocks(reply)
    PROVE  LET found == WalkEntries(block.data, block.count)
           IN  found.error = "none" => found.names = SetToSeq(reply.names)
  <1> DEFINE names == SetToSeq(reply.names)
             found == WalkEntries(block.data, block.count)
             n == Len(names)
  <1>1. names \in Seq(reply.names) /\ n \in Nat
    BY EnumeratedIs
  <1>2. CASE \E pad \in {0, 1} : \E ending \in {"zero", "end"} :
               block = [data |-> Block(names, pad, ending), count |-> n]
    <2>1. PICK pad \in {0, 1}, ending \in {"zero", "end"} :
            block = [data |-> Block(names, pad, ending), count |-> n]
      BY <1>2
    <2>2. block.data = Block(names, pad, ending) /\ block.count = n
      BY <2>1
    <2> HIDE DEF names
    <2>3. found = [error |-> "none", names |-> names]
      BY <1>1, <2>2, BlockReads
    <2> QED
      BY <2>3 DEF names
  <1>3. CASE /\ n = 1
             /\ block = [data |-> [Block(names, 0, "zero") EXCEPT !.length = @ - 1],
                         count |-> n]
    <2>1. block.data = [Block(names, 0, "zero") EXCEPT !.length = @ - 1]
      BY <1>3
    <2> HIDE DEF names
    <2>2. found.error = "Truncated"
      BY <1>3, <2>1, CutIs
    <2> QED
      BY <2>2
  <1>4. CASE block = [data |-> Block(names, 0, "end"), count |-> n + 1]
    <2>1. block.data = Block(names, 0, "end") /\ block.count = n + 1 /\ n # n + 1
      BY <1>1, <1>4
    <2> HIDE DEF names
    <2>2. found = [error |-> "EntryCountMismatch", names |-> <<>>]
      BY <1>1, <2>1, BlockReads
    <2> QED
      BY <2>2
  <1>5. \/ \E pad \in {0, 1} : \E ending \in {"zero", "end"} :
             block = [data |-> Block(names, pad, ending), count |-> n]
        \/ /\ n = 1
           /\ block = [data |-> [Block(names, 0, "zero") EXCEPT !.length = @ - 1],
                       count |-> n]
        \/ block = [data |-> Block(names, 0, "end"), count |-> n + 1]
    BY DEF Blocks
  <1> QED
    BY <1>2, <1>3, <1>4, <1>5

\* A sequence with one more at its end.
LEMMA OneMore ==
    ASSUME NEW S, NEW s \in Seq(S), OnceEach(s), NEW e \in S, e \notin ToSet(s)
    PROVE  OnceEach(Append(s, e))
  <1>1. /\ Len(s) \in Nat /\ Len(Append(s, e)) = Len(s) + 1
        /\ \A i \in 1 .. Len(s) : Append(s, e)[i] = s[i]
        /\ Append(s, e)[Len(s) + 1] = e
    OBVIOUS
  <1>2. \A i \in 1 .. Len(s) : s[i] # e
    BY InSet
  <1>3. ASSUME NEW i \in 1 .. Len(s) + 1, NEW j \in 1 .. Len(s) + 1,
               Append(s, e)[i] = Append(s, e)[j]
        PROVE  i = j
    <2>1. CASE i \in 1 .. Len(s) /\ j \in 1 .. Len(s)
      BY <1>1, <1>3, <2>1 DEF OnceEach
    <2>2. CASE i = Len(s) + 1 \/ j = Len(s) + 1
      BY <1>1, <1>2, <1>3, <2>2
    <2> QED
      BY <1>1, <2>1, <2>2
  <1> QED
    BY <1>1, <1>3 DEF OnceEach

\* The equation of what page_in keeps of a page.
Dots == {".", ".."}

KeptOf(names, i, kept) == IF names[i] \in Dots THEN kept ELSE Append(kept, names[i])

Keeps(names, f) ==
    f = [i \in 0 .. Len(names) |-> IF i = 0 THEN <<>> ELSE KeptOf(names, i, f[i - 1])]

LEMMA KeptSolved ==
    ASSUME NEW S, NEW names \in Seq(S)
    PROVE  \E f : Keeps(names, f) /\ Kept(names) = f[Len(names)]
  <1> DEFINE n == Len(names)
             Upto(f, k) == /\ f[0] = <<>>
                           /\ \A i \in 1 .. k : f[i] = KeptOf(names, i, f[i - 1])
             wrong == {k \in 0 .. n : ~ \E f : Upto(f, k)}
  <1>1. n \in Nat
    OBVIOUS
  <1>2. wrong = {}
    <2> SUFFICES ASSUME wrong # {} PROVE FALSE
      OBVIOUS
    <2>1. PICK k \in wrong : \A j \in wrong : k <= j
      <3>1. wrong \in SUBSET Nat
        BY <1>1
      <3> QED
        BY <3>1, Least
    <2>2. k \in 0 .. n /\ ~ \E f : Upto(f, k)
      BY <2>1
    <2>3. CASE k = 0
      <3> DEFINE f == [i \in {0} |-> <<>>]
      <3>1. f[0] = <<>> /\ 1 .. 0 = {}
        OBVIOUS
      <3> HIDE DEF f
      <3>2. Upto(f, 0)
        BY <3>1
      <3> QED
        BY <2>2, <2>3, <3>2
    <2>4. CASE k # 0
      <3>1. k - 1 \in 0 .. n /\ k - 1 < k /\ k \in Nat \ {0}
        BY <1>1, <2>2, <2>4
      <3>2. k - 1 \notin wrong
        <4> HIDE DEF wrong
        <4>1. ~(k <= k - 1)
          BY <3>1
        <4> QED
          BY <2>1, <4>1
      <3> HIDE DEF Upto
      <3>3. PICK f : Upto(f, k - 1)
        BY <3>1, <3>2
      <3> DEFINE g == [i \in 0 .. k |-> IF i = k THEN KeptOf(names, k, f[k - 1]) ELSE f[i]]
      <3>4. \A i \in 0 .. k - 1 : g[i] = f[i]
        BY <3>1
      <3>5. g[k] = KeptOf(names, k, f[k - 1])
        BY <3>1
      <3> HIDE DEF g
      <3>6. g[0] = <<>>
        BY <3>1, <3>3, <3>4 DEF Upto
      <3>7. ASSUME NEW i \in 1 .. k PROVE g[i] = KeptOf(names, i, g[i - 1])
        <4>1. i - 1 \in 0 .. k - 1 /\ (i = k \/ i \in 1 .. k - 1)
          BY <3>1
        <4>2. CASE i = k
          BY <3>4, <3>5, <4>1, <4>2
        <4>3. CASE i \in 1 .. k - 1
          <5>1. f[i] = KeptOf(names, i, f[i - 1])
            BY <3>3, <4>3 DEF Upto
          <5>2. g[i] = f[i] /\ g[i - 1] = f[i - 1]
            BY <3>1, <3>4, <4>1, <4>3
          <5> QED
            BY <5>1, <5>2
        <4> QED
          BY <4>1, <4>2, <4>3
      <3>8. Upto(g, k)
        BY <3>6, <3>7 DEF Upto
      <3> QED
        BY <2>2, <3>8
    <2> QED
      BY <2>3, <2>4
  <1>3. PICK g : Upto(g, n)
    BY <1>1, <1>2
  <1> DEFINE f == [i \in 0 .. n |-> g[i]]
  <1>4. Keeps(names, f)
    <2>1. \A i \in 0 .. n : f[i] = IF i = 0 THEN <<>> ELSE KeptOf(names, i, f[i - 1])
      <3> TAKE i \in 0 .. n
      <3>1. f[i] = g[i]
        OBVIOUS
      <3>2. CASE i = 0
        BY <1>3, <3>1, <3>2
      <3>3. CASE i # 0
        <4>1. i \in 1 .. n /\ i - 1 \in 0 .. n
          BY <1>1, <3>3
        <4>2. f[i - 1] = g[i - 1]
          BY <4>1
        <4> HIDE DEF f
        <4> QED
          BY <1>3, <3>1, <3>3, <4>1, <4>2
      <3> QED
        BY <3>2, <3>3
    <2>2. f = [i \in 0 .. n |-> f[i]]
      OBVIOUS
    <2> HIDE DEF f
    <2> QED
      BY <2>1, <2>2 DEF Keeps
  <1> DEFINE h == CHOOSE h : Keeps(names, h)
  <1>5. Keeps(names, h)
    BY <1>4
  <1>6. Kept(names) = h[n]
    BY DEF Kept, Keeps, KeptOf, Dots
  <1> HIDE DEF h
  <1> QED
    BY <1>5, <1>6

\* All but the dot entries is kept of a page, once each.
LEMMA KeptIs ==
    ASSUME NEW S, NEW names \in Seq(S), OnceEach(names)
    PROVE  /\ Kept(names) \in Seq(S \ Dots) /\ OnceEach(Kept(names))
           /\ ToSet(Kept(names)) = ToSet(names) \ Dots
  <1> DEFINE n == Len(names)
             upto(i) == {names[j] : j \in 1 .. i} \ Dots
             Right(s, i) == s \in Seq(S \ Dots) /\ OnceEach(s) /\ ToSet(s) = upto(i)
  <1>1. n \in Nat /\ \A i \in 1 .. n : names[i] \in S
    OBVIOUS
  <1>2. PICK f : Keeps(names, f) /\ Kept(names) = f[n]
    BY KeptSolved
  <1>3. f[0] = <<>> /\ \A i \in 1 .. n : f[i] = KeptOf(names, i, f[i - 1])
    <2>1. \A i \in 0 .. n : f[i] = IF i = 0 THEN <<>> ELSE KeptOf(names, i, f[i - 1])
      BY <1>2 DEF Keeps
    <2> QED
      BY <1>1, <2>1
  <1>4. Right(<<>>, 0)
    <2>1. upto(0) = {} /\ ToSet(<<>>) = {} /\ Len(<<>>) = 0 /\ <<>> \in Seq(S \ Dots)
      BY DEF ToSet
    <2> QED
      BY <2>1 DEF OnceEach
  <1>5. ASSUME NEW i \in 1 .. n, NEW s, Right(s, i - 1)
        PROVE  Right(KeptOf(names, i, s), i)
    <2>1. /\ i - 1 \in Nat /\ names[i] \in S
          /\ \A j \in 1 .. i : j = i \/ j \in 1 .. i - 1
          /\ \A j \in 1 .. i - 1 : j \in 1 .. n /\ j # i /\ j \in 1 .. i
          /\ i \in 1 .. i
      BY <1>1
    <2>2. CASE names[i] \in Dots
      <3>1. upto(i) = upto(i - 1)
        BY <2>1, <2>2
      <3> QED
        BY <1>5, <2>2, <3>1 DEF KeptOf
    <2>3. CASE names[i] \notin Dots
      <3>1. upto(i) = upto(i - 1) \cup {names[i]}
        BY <2>1, <2>3
      <3>2. names[i] \notin upto(i - 1)
        BY <2>1 DEF OnceEach
      <3> HIDE DEF upto
      <3>3. names[i] \in S \ Dots
        BY <2>1, <2>3
      <3>4. OnceEach(Append(s, names[i]))
        BY <1>5, <3>2, <3>3, OneMore
      <3>5. Append(s, names[i]) \in Seq(S \ Dots)
            /\ ToSet(Append(s, names[i])) = ToSet(s) \cup {names[i]}
        BY <1>5, <3>3, QueuedSet
      <3> QED
        BY <1>5, <2>3, <3>1, <3>4, <3>5 DEF KeptOf
    <2> QED
      BY <2>2, <2>3
  <1> DEFINE wrong == {i \in 0 .. n : ~Right(f[i], i)}
  <1> HIDE DEF Right
  <1>6. wrong = {}
    <2> SUFFICES ASSUME wrong # {} PROVE FALSE
      OBVIOUS
    <2>1. PICK k \in wrong : \A j \in wrong : k <= j
      <3>1. wrong \in SUBSET Nat
        BY <1>1
      <3> QED
        BY <3>1, Least
    <2>2. k # 0
      BY <1>3, <1>4, <2>1
    <2>3. k \in 1 .. n /\ k - 1 \in 0 .. n /\ k - 1 < k
      BY <1>1, <2>1, <2>2
    <2>4. Right(f[k - 1], k - 1)
      BY <1>1, <2>1, <2>3
    <2>5. Right(f[k], k)
      BY <1>3, <1>5, <2>3, <2>4
    <2> QED
      BY <2>1, <2>5
  <1>7. Right(f[n], n)
    BY <1>1, <1>6
  <1>8. upto(n) = ToSet(names) \ Dots
    BY InSet
  <1> QED
    BY <1>2, <1>7, <1>8 DEF Right

\* One sequence behind another.
LEMMA Behind ==
    ASSUME NEW S, NEW s \in Seq(S), NEW t \in Seq(S)
    PROVE  /\ s \o t \in Seq(S) /\ ToSet(s \o t) = ToSet(s) \cup ToSet(t)
           /\ OnceEach(s) /\ OnceEach(t) /\ ToSet(s) \cap ToSet(t) = {} => OnceEach(s \o t)
  <1> DEFINE u == s \o t
             m == Len(s)
             n == Len(t)
  <1>1. /\ m \in Nat /\ n \in Nat /\ u \in Seq(S) /\ Len(u) = m + n
        /\ \A i \in 1 .. m + n : u[i] = IF i <= m THEN s[i] ELSE t[i - m]
    BY ConcatProperties
  <1> HIDE DEF u
  <1>2. /\ \A i \in 1 .. m : i \in 1 .. m + n /\ u[i] = s[i]
        /\ \A i \in 1 .. n : m + i \in 1 .. m + n /\ u[m + i] = t[i]
    <2>1. ASSUME NEW i \in 1 .. n PROVE m + i \in 1 .. m + n /\ u[m + i] = t[i]
      <3>1. m + i \in 1 .. m + n /\ ~(m + i <= m) /\ (m + i) - m = i
        BY <1>1
      <3> QED
        BY <1>1, <3>1
    <2> QED
      BY <1>1, <2>1
  <1>3. \A i \in 1 .. m + n : i \in 1 .. m \/ \E j \in 1 .. n : i = m + j
    <2> TAKE i \in 1 .. m + n
    <2>1. i \in 1 .. m \/ (i - m \in 1 .. n /\ i = m + (i - m))
      BY <1>1
    <2> QED
      BY <2>1
  <1>4. \A x : x \in ToSet(u) <=> x \in ToSet(s) \/ x \in ToSet(t)
    <2> TAKE x
    <2>1. x \in ToSet(u) <=> \E i \in 1 .. m + n : x = u[i]
      <3>1. u \in Seq(S) /\ Len(u) = m + n
        BY <1>1
      <3>2. x \in ToSet(u) <=> \E i \in 1 .. Len(u) : x = u[i]
        BY <3>1, InSet
      <3> QED
        BY <3>1, <3>2
    <2>2. x \in ToSet(s) <=> \E i \in 1 .. m : x = s[i]
      BY InSet
    <2>3. x \in ToSet(t) <=> \E i \in 1 .. n : x = t[i]
      BY InSet
    <2>4. (\E i \in 1 .. m : x = s[i]) => \E i \in 1 .. m + n : x = u[i]
      BY <1>2
    <2>5. (\E i \in 1 .. n : x = t[i]) => \E i \in 1 .. m + n : x = u[i]
      BY <1>2
    <2>6. ASSUME NEW i \in 1 .. m + n, x = u[i]
          PROVE  (\E j \in 1 .. m : x = s[j]) \/ (\E j \in 1 .. n : x = t[j])
      BY <1>2, <1>3, <2>6
    <2> QED
      BY <2>1, <2>2, <2>3, <2>4, <2>5, <2>6
  <1>5. ASSUME OnceEach(s), OnceEach(t), ToSet(s) \cap ToSet(t) = {}
        PROVE  OnceEach(u)
    <2>1. ASSUME NEW i \in 1 .. m, NEW j \in 1 .. n, s[i] = t[j] PROVE FALSE
      <3>1. s[i] \in ToSet(s) /\ t[j] \in ToSet(t)
        BY InSet
      <3> QED
        BY <1>5, <2>1, <3>1
    <2>2. ASSUME NEW i \in 1 .. m + n, NEW j \in 1 .. m + n, u[i] = u[j]
          PROVE  i = j
      <3>1. CASE i \in 1 .. m /\ j \in 1 .. m
        BY <1>2, <1>5, <2>2, <3>1 DEF OnceEach
      <3>2. CASE i \in 1 .. m /\ \E k \in 1 .. n : j = m + k
        BY <1>2, <2>1, <2>2, <3>2
      <3>3. CASE j \in 1 .. m /\ \E k \in 1 .. n : i = m + k
        BY <1>2, <2>1, <2>2, <3>3
      <3>4. CASE (\E k \in 1 .. n : i = m + k) /\ (\E k \in 1 .. n : j = m + k)
        <4>1. PICK a \in 1 .. n, b \in 1 .. n : i = m + a /\ j = m + b
          BY <3>4
        <4>2. t[a] = t[b]
          BY <1>2, <2>2, <4>1
        <4>3. a = b
          BY <1>5, <4>2 DEF OnceEach
        <4> QED
          BY <4>1, <4>3
      <3> QED
        BY <1>3, <3>1, <3>2, <3>3, <3>4
    <2> QED
      BY <1>1, <2>2 DEF OnceEach
  <1> QED
    BY <1>1, <1>4, <1>5 DEF u

\* The first of one goes to the end of the one before it.
LEMMA MovedUp ==
    ASSUME NEW S, NEW s \in Seq(S), NEW t \in Seq(S), t # <<>>
    PROVE  /\ Append(s, Head(t)) \in Seq(S) /\ Tail(t) \in Seq(S)
           /\ Append(s, Head(t)) \o Tail(t) = s \o t
  <1> DEFINE a == Append(s, Head(t))
             b == Tail(t)
             m == Len(s)
             n == Len(t)
  <1>1. /\ m \in Nat /\ n \in Nat \ {0} /\ Head(t) = t[1] /\ t[1] \in S
        /\ b \in Seq(S) /\ Len(b) = n - 1 /\ \A i \in 1 .. n - 1 : b[i] = t[i + 1]
    OBVIOUS
  <1>2. /\ a \in Seq(S) /\ Len(a) = m + 1 /\ a[m + 1] = t[1]
        /\ \A i \in 1 .. m : a[i] = s[i]
    BY <1>1
  <1> HIDE DEF a, b
  <1> DEFINE u == a \o b
             v == s \o t
  <1>3. /\ u \in Seq(S) /\ Len(u) = m + n
        /\ \A i \in 1 .. m + n : u[i] = IF i <= m + 1 THEN a[i] ELSE b[i - (m + 1)]
    <2>1. Len(a) + Len(b) = m + n
      BY <1>1, <1>2
    <2>2. /\ u \in Seq(S) /\ Len(u) = Len(a) + Len(b)
          /\ \A i \in 1 .. Len(a) + Len(b) :
               u[i] = IF i <= Len(a) THEN a[i] ELSE b[i - Len(a)]
      BY <1>1, <1>2, ConcatProperties
    <2> HIDE DEF u
    <2> QED
      BY <1>2, <2>1, <2>2
  <1>4. /\ v \in Seq(S) /\ Len(v) = m + n
        /\ \A i \in 1 .. m + n : v[i] = IF i <= m THEN s[i] ELSE t[i - m]
    BY ConcatProperties
  <1> HIDE DEF u, v
  <1>5. ASSUME NEW i \in 1 .. m + n PROVE u[i] = v[i]
    <2> HIDE DEF m, n
    <2>1. CASE i <= m
      <3>1. i \in 1 .. m /\ i <= m + 1
        BY <1>1, <2>1
      <3>2. u[i] = a[i] /\ v[i] = s[i]
        BY <1>3, <1>4, <2>1, <3>1
      <3> QED
        BY <1>2, <3>1, <3>2
    <2>2. CASE i = m + 1
      <3>1. i - m = 1 /\ ~(i <= m) /\ i <= m + 1
        BY <1>1, <2>2
      <3>2. u[i] = a[i] /\ v[i] = t[i - m]
        BY <1>3, <1>4, <3>1
      <3> QED
        BY <1>2, <2>2, <3>1, <3>2
    <2>3. CASE i > m + 1
      <3>1. /\ i - (m + 1) \in 1 .. n - 1 /\ (i - (m + 1)) + 1 = i - m
            /\ ~(i <= m) /\ ~(i <= m + 1)
        BY <1>1, <2>3
      <3>2. b[i - (m + 1)] = t[(i - (m + 1)) + 1]
        BY <1>1, <3>1
      <3> QED
        BY <1>3, <1>4, <3>1, <3>2
    <2> QED
      BY <1>1, <2>1, <2>2, <2>3
  <1>6. u = v
    BY <1>3, <1>4, <1>5, SeqEqual
  <1> QED
    BY <1>1, <1>2, <1>6 DEF u, v, a, b

\* A sequence of elements that stand once each has as many as it is long.
LEMMA CountIs ==
    ASSUME NEW S, NEW s \in Seq(S), OnceEach(s)
    PROVE  Len(s) = Cardinality(ToSet(s))
  <1> DEFINE n == Len(s)
             set == ToSet(s)
  <1>1. n \in Nat /\ s \in [1 .. n -> set] /\ DOMAIN s = 1 .. n
    <2>1. n \in Nat /\ DOMAIN s = 1 .. n /\ s = [i \in 1 .. n |-> s[i]]
      OBVIOUS
    <2>2. \A i \in 1 .. n : s[i] \in set
      BY InSet
    <2> HIDE DEF set, n
    <2> QED
      BY <2>1, <2>2
  <1>2. s \in Surjection(1 .. n, set)
    <2>1. \A x \in set : \E i \in 1 .. n : s[i] = x
      BY InSet
    <2> QED
      BY <1>1, <2>1 DEF Surjection
  <1>3. s \in Injection(1 .. n, set)
    BY <1>1 DEF Injection, IsInjective, OnceEach
  <1>4. IsFiniteSet(1 .. n) /\ Cardinality(1 .. n) = n
    <2>1. n \in Nat
      BY <1>1
    <2> HIDE DEF n, set
    <2>2. IsFiniteSet(1 .. n) /\ Cardinality(1 .. n) = IF 1 > n THEN 0 ELSE n - 1 + 1
      BY <2>1, FS_Interval
    <2> QED
      BY <2>1, <2>2
  <1>5. ExistsBijection(1 .. n, set)
    BY <1>2, <1>3 DEF ExistsBijection, Bijection
  <1> QED
    BY <1>4, <1>5, FS_Bijection

-----------------------------------------------------------------------------
(* What a listing has returned. *)

\* Those it has handed out and those it has in hand.
Returned == ToSet(listed) \cup ToSet(listing.page)

\* A search of the listing's own goes on.
Going == Owes /\ ~disconnected /\ searches[listing.sid].owner = "listing"

\* As long as a search goes on, what it has returned is what the server takes it to
\* have, but for what was on a page the caller was not given; when it has ended, that
\* is all there was from beginning to end.
EntriesInv ==
    /\ listed \in Seq(Nodes) /\ listing.page \in Seq(Nodes)
    /\ listing.state = "first" => listed = <<>> /\ listing.page = <<>>
    /\ listing.state \in {"held", "next", "drained"} =>
         /\ OnceEach(listed \o listing.page)
         /\ listing.state # "held" => listing.page = <<>>
         /\ ~Owes => present \subseteq Returned \cup unread
         /\ Going => /\ searches[listing.sid].dir = listing.dir
                     /\ Returned \subseteq searches[listing.sid].returned
                     /\ searches[listing.sid].returned \ Dots \subseteq Returned \cup unread
                     /\ present \subseteq Children(listing.dir)
         /\ listing.state = "drained" => ~Owes

\* A listing that is not there, or is of no more use.
LEMMA EntriesVoid ==
    ASSUME EntriesInv, listing'.state \notin {"first", "held", "next", "drained"},
           listed' = listed, listing'.page \in {listing.page, <<>>}
    PROVE  EntriesInv'
  <1>1. listing'.page \in Seq(Nodes) /\ listed' \in Seq(Nodes)
    BY EmptySeq DEF EntriesInv
  <1> QED
    BY <1>1 DEF EntriesInv

LEMMA EntriesGone ==
    ASSUME EntriesInv, listed' = listed, listing' = Gone
    PROVE  EntriesInv'
  <1>1. Gone.page = <<>> /\ Gone.state = "none"
    BY DEF Gone
  <1> QED
    BY <1>1, EntriesVoid

\* One that begins.
LEMMA EntriesStart ==
    ASSUME NEW dir, StartListing(dir)
    PROVE  EntriesInv'
  <1>1. Gone.page = <<>>
    BY DEF Gone
  <1> DEFINE l == [Gone EXCEPT !.state = "first"]
  <1>2. listing' = [l EXCEPT !.dir = dir] /\ listed' = <<>>
    BY DEF StartListing
  <1>3. IsListing(l) /\ l.state = "first" /\ l.page = <<>>
    BY <1>1, GoneIs, ListingState
  <1> HIDE DEF l
  <1>4. listing'.state = "first" /\ listing'.page = <<>>
    BY <1>2, <1>3, ListingDir
  <1> QED
    BY <1>2, <1>4, EmptySeq DEF EntriesInv

\* One that stays as it is while the share and the other searches change.
LEMMA EntriesRest ==
    ASSUME EntriesInv, UNCHANGED <<listing, listed, unread>>,
           disconnected => disconnected', present' \subseteq present,
           \A n \in present' : n \in exists => n \in exists',
           Going' => searches'[listing.sid] = searches[listing.sid]
    PROVE  EntriesInv'
  <1> SUFFICES ASSUME listing.state \in {"held", "next", "drained"}
               PROVE  /\ ~Owes' => present' \subseteq Returned' \cup unread'
                      /\ Going' =>
                           /\ searches'[listing'.sid].dir = listing'.dir
                           /\ Returned' \subseteq searches'[listing'.sid].returned
                           /\ searches'[listing'.sid].returned \ Dots
                                \subseteq Returned' \cup unread'
                           /\ present' \subseteq Children(listing.dir)'
                      /\ listing'.state = "drained" => ~Owes'
    BY DEF EntriesInv
  <1>1. Returned' = Returned /\ (Owes' <=> Owes)
    BY DEF Returned, Owes
  <1>2. CASE ~Going'
    BY <1>1, <1>2 DEF EntriesInv
  <1>3. CASE Going'
    <2>1. Going
      BY <1>1, <1>3 DEF Going
    <2>2. /\ listing.state # "drained" /\ Owes
          /\ searches[listing.sid].dir = listing.dir
          /\ Returned \subseteq searches[listing.sid].returned
          /\ searches[listing.sid].returned \ Dots \subseteq Returned \cup unread
          /\ present \subseteq Children(listing.dir)
      BY <2>1 DEF EntriesInv, Going
    <2>3. present' \subseteq Children(listing.dir)'
      <3> SUFFICES ASSUME NEW n \in present'
                   PROVE  n \in Children(listing.dir)'
        OBVIOUS
      <3>1. n \in exists /\ n # Share /\ Parent[n] = listing.dir
        BY <2>2 DEF Children
      <3> QED
        BY <3>1 DEF Children
    <2> QED
      BY <1>1, <1>3, <2>2, <2>3
  <1> QED
    BY <1>2, <1>3

\* An entry is handed out.
LEMMA EntriesNext ==
    ASSUME ListingInv, EntriesInv, NextEntry
    PROVE  EntriesInv'
  <1> DEFINE page == Tail(listing.page)
  <1>1. /\ listing.state = "held" /\ listing' = [listing EXCEPT !.page = page]
        /\ listing.page # <<>> /\ listed' = Append(listed, Head(listing.page))
        /\ UNCHANGED <<disconnected, exists, searches, present, unread>>
    BY DEF NextEntry
  <1>2. listed \in Seq(Nodes) /\ listing.page \in Seq(Nodes)
    BY DEF EntriesInv
  <1>3. /\ listed' \in Seq(Nodes) /\ page \in Seq(Nodes)
        /\ listed' \o page = listed \o listing.page
    <2> HIDE DEF page
    <2>1. ASSUME NEW queue \in Seq(Nodes), queue # <<>>
          PROVE  /\ Append(listed, Head(queue)) \in Seq(Nodes) /\ Tail(queue) \in Seq(Nodes)
                 /\ Append(listed, Head(queue)) \o Tail(queue) = listed \o queue
      BY <1>2, <2>1, MovedUp
    <2> QED
      BY <1>1, <1>2, <2>1 DEF page
  <1> HIDE DEF page
  <1>4. /\ listing'.page = page /\ listing'.state = "held" /\ listing'.sid = listing.sid
        /\ listing'.dir = listing.dir /\ listing'.finished = listing.finished
    BY <1>1, ListingPage DEF ListingInv
  <1>5. Returned' = Returned
    <2>1. Returned = ToSet(listed \o listing.page)
      BY <1>2, Behind DEF Returned
    <2>2. Returned' = ToSet(listed' \o page)
      <3>1. Returned' = ToSet(listed') \cup ToSet(page)
        BY <1>4 DEF Returned
      <3>2. ToSet(listed' \o page) = ToSet(listed') \cup ToSet(page)
        <4>1. listed' \in Seq(Nodes) /\ page \in Seq(Nodes)
          BY <1>3
        <4> QED
          BY ONLY <4>1, Behind
      <3> QED
        BY <3>1, <3>2
    <2> QED
      BY <1>3, <2>1, <2>2
  <1>6. (Owes' <=> Owes) /\ (Going' <=> Going) /\ Children(listing.dir)' = Children(listing.dir)
    BY <1>1, <1>4 DEF Owes, Going, Children
  <1> QED
    BY <1>1, <1>3, <1>4, <1>5, <1>6 DEF EntriesInv

\* The listing has no page in hand, and is at its end or goes on.
LEMMA EntriesTurn ==
    ASSUME ListingInv, EntriesInv, NextIsNone \/ NextRound
    PROVE  EntriesInv'
  <1>1. PICK state \in {"drained", "next"} : listing' = [listing EXCEPT !.state = state]
    BY DEF NextIsNone, NextRound
  <1>2. /\ listing.state = "held" /\ listing.page = <<>>
        /\ NextIsNone => listing.finished \/ listing.sid = NoSid
        /\ UNCHANGED <<disconnected, exists, searches, present, listed, unread>>
    BY DEF NextIsNone, NextRound
  <1>3. /\ listing'.page = listing.page /\ listing'.state = state
        /\ listing'.sid = listing.sid
        /\ listing'.dir = listing.dir /\ listing'.finished = listing.finished
    BY <1>1, ListingState DEF ListingInv
  <1>4. NextRound => listing'.state = "next"
    <2>1. ASSUME NextRound PROVE listing'.state = "next"
      BY <2>1, ListingState DEF ListingInv, NextRound
    <2> QED
      BY <2>1
  <1>5. Returned' = Returned
    BY <1>2, <1>3 DEF Returned
  <1>6. (Owes' <=> Owes) /\ (Going' <=> Going) /\ Children(listing.dir)' = Children(listing.dir)
    BY <1>2, <1>3 DEF Owes, Going, Children
  <1>7. state = "drained" => ~Owes
    BY <1>2, <1>3, <1>4 DEF Owes
  <1> QED
    BY <1>2, <1>3, <1>5, <1>6, <1>7 DEF EntriesInv

\* What there is of a page and of its end in a reply.
LEMMA RepliesAre ==
    ASSUME NodesInv, NEW search, NEW reply \in ServerReplies(search), reply # Deleted
    PROVE  /\ ~disconnected /\ reply.names \subseteq Left(search)
           /\ Left(search) \subseteq Nodes \cup Dots /\ IsFiniteSet(reply.names)
           /\ \/ /\ reply.status = "SUCCESS" /\ reply.end \in BOOLEAN
                 /\ reply.end => reply.names = Left(search)
              \/ /\ reply.status = "NO_MORE_FILES" /\ reply.end = TRUE
                 /\ Left(search) = {} /\ reply.names = {}
              \/ reply.status = "REFUSED" /\ reply.end = FALSE /\ reply.names = {}
  <1>1. Left(search) \subseteq Nodes \cup Dots
    BY DEF Left, Children, NodesInv, Dots
  <1>2. IsFiniteSet(Nodes \cup Dots)
    <2>1. IsFiniteSet(Nodes)
      BY TreeAssumption
    <2>2. IsFiniteSet(Nodes \cup {"."})
      BY <2>1, FS_AddElement
    <2>3. IsFiniteSet((Nodes \cup {"."}) \cup {".."})
      BY <2>2, FS_AddElement
    <2>4. (Nodes \cup {"."}) \cup {".."} = Nodes \cup Dots
      BY DEF Dots
    <2> QED
      BY <2>3, <2>4
  <1>3. ~disconnected
    BY DEF ServerReplies
  <1>4. ASSUME NEW status, NEW names, NEW end,
               reply = [status |-> status, names |-> names, end |-> end]
        PROVE  reply.status = status /\ reply.names = names /\ reply.end = end
    BY <1>4
  <1>5. CASE reply \in Pages(search) /\ (reply.end => reply.names = Left(search))
    <2>1. PICK names \in SUBSET Left(search), end \in BOOLEAN :
            reply = [status |-> "SUCCESS", names |-> names, end |-> end]
      BY <1>5 DEF Pages
    <2>2. reply.status = "SUCCESS" /\ reply.names = names /\ reply.end = end
      BY <2>1, <1>4
    <2>3. IsFiniteSet(names)
      BY <1>1, <1>2, FS_Subset
    <2> QED
      BY <1>1, <1>3, <1>5, <2>2, <2>3
  <1>6. CASE /\ Left(search) = {}
             /\ \/ reply = [status |-> "SUCCESS", names |-> {}, end |-> TRUE]
                \/ reply = [status |-> "NO_MORE_FILES", names |-> {}, end |-> TRUE]
    <2>1. /\ reply.status \in {"SUCCESS", "NO_MORE_FILES"} /\ reply.names = {}
          /\ reply.end = TRUE
      BY <1>6
    <2> QED
      BY <1>1, <1>3, <1>6, <2>1, FS_EmptySet
  <1>7. CASE \/ reply = [status |-> "SUCCESS", names |-> {}, end |-> FALSE]
             \/ reply = [status |-> "REFUSED", names |-> {}, end |-> FALSE]
    <2>1. /\ reply.status \in {"SUCCESS", "REFUSED"} /\ reply.names = {}
          /\ reply.end = FALSE
      BY <1>7
    <2> QED
      BY <1>1, <1>3, <2>1, FS_EmptySet
  <1> QED
    BY <1>3, <1>5, <1>6, <1>7 DEF ServerReplies

\* What a reply adds to the page in hand: what it carries but for the dots, if it can be
\* read.
AddsPage(l, reply, block, q) ==
    /\ q.dir = l.dir
    /\ reply.status = "SUCCESS" /\ ~Unreadable(reply, block) =>
         q.page = l.page \o Kept(SetToSeq(reply.names))
    /\ ~(reply.status = "SUCCESS" /\ ~Unreadable(reply, block)) => q.page = l.page

LEMMA PageAfter ==
    ASSUME NEW l, IsListing(l), NEW reply, IsFiniteSet(reply.names),
           NEW block \in Blocks(reply), NEW sid, NEW failed
    PROVE  AddsPage(l, reply, block, PagedIn(l, reply, block, sid, failed))
  <1> DEFINE q == PagedIn(l, reply, block, sid, failed)
             found == WalkEntries(block.data, block.count)
  <1>1. CASE reply.status = "NO_MORE_FILES"
    <2>1. q = [l EXCEPT !.finished = TRUE]
      BY <1>1 DEF PagedIn, Unreadable
    <2>2. q.dir = l.dir /\ q.page = l.page
      BY <2>1, ListingFinished
    <2>3. reply.status # "SUCCESS"
      BY <1>1
    <2> HIDE DEF q
    <2> QED
      BY <2>2, <2>3 DEF AddsPage, q
  <1>2. CASE reply.status \notin {"SUCCESS", "NO_MORE_FILES"}
    <2>1. q = [l EXCEPT !.state = failed]
      BY <1>2 DEF PagedIn, Unreadable
    <2>2. q.dir = l.dir /\ q.page = l.page
      BY <2>1, ListingState
    <2>3. reply.status # "SUCCESS"
      BY <1>2
    <2> HIDE DEF q
    <2> QED
      BY <2>2, <2>3 DEF AddsPage, q
  <1>3. CASE reply.status = "SUCCESS" /\ Unreadable(reply, block)
    <2> DEFINE p == [l EXCEPT !.sid = sid]
    <2>1. q = [p EXCEPT !.state = failed]
      BY <1>3 DEF PagedIn, Unreadable
    <2>2. IsListing(p) /\ p.dir = l.dir /\ p.page = l.page
      BY ListingSid
    <2> HIDE DEF p, found, q
    <2>3. q.dir = l.dir /\ q.page = l.page
      BY <2>1, <2>2, ListingState
    <2> QED
      BY <1>3, <2>3 DEF AddsPage, q
  <1>4. CASE reply.status = "SUCCESS" /\ ~Unreadable(reply, block)
    <2> DEFINE p1 == [l EXCEPT !.sid = sid]
               kept == p1.page \o Kept(found.names)
               p2 == [p1 EXCEPT !.page = kept]
               p3 == [p2 EXCEPT !.finished = reply.end]
               state == IF ~reply.end /\ found.names = <<>> THEN failed ELSE p3.state
    <2>1. p1 = [l EXCEPT !.sid = sid]
      OBVIOUS
    <2>2. p2 = [p1 EXCEPT !.page = kept]
      OBVIOUS
    <2>3. p3 = [p2 EXCEPT !.finished = reply.end]
      OBVIOUS
    <2>4. q = [p3 EXCEPT !.state = state]
      BY <1>4 DEF PagedIn, Unreadable
    <2>5. kept = p1.page \o Kept(SetToSeq(reply.names))
      BY <1>4, PageReads DEF Unreadable
    <2> HIDE DEF p1, p2, p3, kept, state, found, q
    <2>6. IsListing(p1) /\ p1.dir = l.dir /\ p1.page = l.page
      BY <2>1, ListingSid
    <2>7. IsListing(p2) /\ p2.dir = l.dir /\ p2.page = kept
      BY <2>2, <2>6, ListingPage
    <2>8. IsListing(p3) /\ p3.dir = l.dir /\ p3.page = kept
      BY <2>3, <2>7, ListingFinished
    <2>9. q.dir = l.dir /\ q.page = kept
      BY <2>4, <2>8, ListingState
    <2> QED
      BY <1>4, <2>5, <2>6, <2>9 DEF AddsPage, q
  <1> QED
    BY <1>1, <1>2, <1>3, <1>4

\* What the server takes a search to have returned.
LEMMA ReturnedAfter ==
    ASSUME NEW search, IsSearch(search), NEW reply, ~reply.end
    PROVE  LET after == SearchAfter(search, reply)
           IN  after.dir = search.dir /\ after.returned = search.returned \cup reply.names
  <1> DEFINE returned == search.returned \cup reply.names
             q == [search EXCEPT !.returned = returned]
  <1>1. SearchAfter(search, reply) = q
    BY DEF SearchAfter
  <1>2. q.dir = search.dir /\ q.returned = returned
    BY DEF IsSearch
  <1> QED
    BY <1>1, <1>2

\* A search that is someone's after a reply has not been ended by it.
LEMMA OwnedGoesOn ==
    ASSUME NEW search, NEW reply, SearchAfter(search, reply).owner = "listing"
    PROVE  ~reply.end
  <1>1. NoSearch.owner = "nobody"
    BY SearchIs
  <1>2. SearchAfter(search, reply) = NoSearch => FALSE
    BY <1>1
  <1> QED
    BY <1>2 DEF SearchAfter

\* What a reply to a FIND makes of the listing and of its search.
Says(search, reply) ==
    /\ ~disconnected /\ reply.names \subseteq Left(search)
    /\ Left(search) \subseteq Nodes \cup Dots /\ IsFiniteSet(reply.names)
    /\ \/ /\ reply.status = "SUCCESS" /\ reply.end \in BOOLEAN
          /\ reply.end => reply.names = Left(search)
       \/ /\ reply.status = "NO_MORE_FILES" /\ reply.end = TRUE
          /\ Left(search) = {} /\ reply.names = {}
       \/ reply.status = "REFUSED" /\ reply.end = FALSE /\ reply.names = {}

Makes(reply, block, sid, failed) ==
    /\ listing'.dir = listing.dir
    /\ \/ /\ reply.status = "NO_MORE_FILES" /\ listing'.state = "held"
          /\ listing'.page = listing.page /\ listing'.finished = TRUE
       \/ /\ reply.status \notin {"SUCCESS", "NO_MORE_FILES"} /\ listing'.state = failed
          /\ listing'.page = listing.page /\ listing'.sid = listing.sid
          /\ listing'.finished = listing.finished
       \/ /\ reply.status = "SUCCESS" /\ Unreadable(reply, block) /\ listing'.state = failed
          /\ listing'.page = listing.page /\ listing'.sid = sid
          /\ listing'.finished = listing.finished
       \/ /\ reply.status = "SUCCESS" /\ ~Unreadable(reply, block)
          /\ listing'.state \in {"held", failed}
          /\ listing'.page = listing.page \o Kept(SetToSeq(reply.names))
          /\ listing'.sid = sid /\ listing'.finished = reply.end

LEMMA MakesIs ==
    ASSUME ListingInv, NEW reply, IsFiniteSet(reply.names), NEW block \in Blocks(reply),
           NEW sid, NEW failed, NEW l, l = [listing EXCEPT !.state = "held"],
           listing' = PagedIn(l, reply, block, sid, failed)
    PROVE  Makes(reply, block, sid, failed)
  <1>1. /\ IsListing(l) /\ l.state = "held" /\ l.dir = listing.dir /\ l.page = listing.page
        /\ l.sid = listing.sid /\ l.finished = listing.finished
    BY ListingState DEF ListingInv
  <1>2. PagedTo(l, reply, block, sid, failed, listing')
    BY <1>1, PagedIs
  <1>3. AddsPage(l, reply, block, listing')
    BY <1>1, PageAfter
  <1>4. reply.status = "NO_MORE_FILES" => listing'.state = "held"
    <2> SUFFICES ASSUME reply.status = "NO_MORE_FILES"
                 PROVE  listing'.state = "held"
      OBVIOUS
    <2> DEFINE q == [l EXCEPT !.finished = TRUE]
    <2>1. listing' = q
      BY DEF PagedIn, Unreadable
    <2>2. q.state = l.state
      BY <1>1, ListingFinished
    <2> QED
      BY <1>1, <2>1, <2>2
  <1>5. Unreadable(reply, block) \in BOOLEAN
    BY DEF Unreadable
  <1> QED
    BY <1>1, <1>2, <1>3, <1>4, <1>5 DEF PagedTo, AddsPage, Makes

LEMMA FoundIs ==
    ASSUME ListingInv, NodesInv, NEW search, NEW sid, NEW failed, FindReply(search, sid, failed)
    PROVE  \E reply, block :
             /\ IsFiniteSet(reply.names) /\ Makes(reply, block, sid, failed)
             /\ reply # Deleted => Says(search, reply)
             /\ searches' = IF reply = Deleted THEN Discarded
                            ELSE IF sid = listing.sid \/ reply.status = "SUCCESS"
                            THEN [searches EXCEPT ![sid] = SearchAfter(search, reply)]
                            ELSE searches
             /\ disconnected' = (disconnected \/ reply = Deleted)
             /\ unread' = IF Unreadable(reply, block) THEN unread \cup reply.names ELSE unread
  <1>1. PICK reply, block :
          /\ reply \in ServerReplies(search) /\ block \in Blocks(reply)
          /\ listing' = PagedIn([listing EXCEPT !.state = "held"], reply, block, sid, failed)
          /\ searches' = IF reply = Deleted THEN Discarded
                         ELSE IF sid = listing.sid \/ reply.status = "SUCCESS"
                         THEN [searches EXCEPT ![sid] = SearchAfter(search, reply)]
                         ELSE searches
          /\ disconnected' = (disconnected \/ reply = Deleted)
          /\ unread' = IF Unreadable(reply, block) THEN unread \cup reply.names ELSE unread
    BY DEF FindReply
  <1>2. reply # Deleted => Says(search, reply)
    BY <1>1, RepliesAre DEF Says
  <1>3. IsFiniteSet(reply.names)
    <2>1. IsFiniteSet(Deleted.names)
      BY FS_EmptySet DEF Deleted
    <2> QED
      BY <1>2, <2>1 DEF Says
  <1>4. Makes(reply, block, sid, failed)
    BY <1>1, <1>3, MakesIs
  <1> QED
    BY <1>1, <1>2, <1>3, <1>4

\* A reply to a FIND.
LEMMA EntriesFound ==
    ASSUME ListingInv, EntriesInv, NodesInv, UNCHANGED <<exists, listed>>,
           searches = [s \in Sids |-> searches[s]],
           NEW search, IsSearch(search), NEW sid \in Sids,
           NEW failed \in {"held", "error"}, FindReply(search, sid, failed),
           failed = "held" => listing.sid = sid /\ ~listing.finished,
           OnceEach(listed), listing.page = <<>>,
           ~disconnected =>
             /\ search.owner = "listing" /\ search.dir = listing.dir
             /\ ToSet(listed) \subseteq search.returned
             /\ search.returned \ Dots \subseteq ToSet(listed) \cup unread
             /\ present' \subseteq Children(listing.dir)
    PROVE  EntriesInv'
  <1>1. PICK reply, block :
          /\ IsFiniteSet(reply.names) /\ Makes(reply, block, sid, failed)
          /\ reply # Deleted => Says(search, reply)
          /\ searches' = IF reply = Deleted THEN Discarded
                         ELSE IF sid = listing.sid \/ reply.status = "SUCCESS"
                         THEN [searches EXCEPT ![sid] = SearchAfter(search, reply)]
                         ELSE searches
          /\ disconnected' = (disconnected \/ reply = Deleted)
          /\ unread' = IF Unreadable(reply, block) THEN unread \cup reply.names ELSE unread
    BY FoundIs
  <1>2. reply # Deleted =>
          /\ ~disconnected /\ reply.names \subseteq Left(search)
          /\ Left(search) \subseteq Nodes \cup Dots
          /\ \/ /\ reply.status = "SUCCESS" /\ reply.end \in BOOLEAN
                /\ reply.end => reply.names = Left(search)
             \/ /\ reply.status = "NO_MORE_FILES" /\ reply.end = TRUE
                /\ Left(search) = {} /\ reply.names = {}
             \/ reply.status = "REFUSED" /\ reply.end = FALSE /\ reply.names = {}
    BY <1>1 DEF Says
  <1>3. sid # NoSid /\ listed \in Seq(Nodes) /\ listed \o <<>> = listed /\ ToSet(<<>>) = {}
    <2>1. sid # NoSid
      BY TreeAssumption
    <2>2. listed \in Seq(Nodes)
      BY DEF EntriesInv
    <2>3. ToSet(<<>>) = {}
      BY DEF ToSet
    <2> QED
      BY <2>1, <2>2, <2>3, ConcatEmptySeq
  <1> DEFINE kept == Kept(SetToSeq(reply.names))
  <1>4. reply # Deleted => /\ kept \in Seq(Nodes) /\ OnceEach(kept)
                           /\ ToSet(kept) = reply.names \ Dots
    <2> SUFFICES ASSUME reply # Deleted
                 PROVE  /\ kept \in Seq(Nodes) /\ OnceEach(kept)
                        /\ ToSet(kept) = reply.names \ Dots
      OBVIOUS
    <2> DEFINE names == SetToSeq(reply.names)
    <2>1. names \in Seq(reply.names) /\ OnceEach(names) /\ ToSet(names) = reply.names
      BY <1>1, EnumeratedIs
    <2> HIDE DEF names
    <2>2. /\ Kept(names) \in Seq(reply.names \ Dots) /\ OnceEach(Kept(names))
          /\ ToSet(Kept(names)) = ToSet(names) \ Dots
      BY <2>1, KeptIs
    <2>3. reply.names \ Dots \subseteq Nodes
      BY <1>2
    <2>4. Kept(names) \in Seq(Nodes)
      BY <2>2, <2>3, SeqMonotonic
    <2> QED
      BY <2>1, <2>2, <2>4 DEF names
  <1> HIDE DEF kept
  <1>5. reply.status = "SUCCESS" => reply # Deleted
    BY DEF Deleted
  <1>6. Deleted.status \notin {"SUCCESS", "NO_MORE_FILES"}
    BY DEF Deleted
  \* The page in hand is as it was, and the search goes on or is gone.
  <1>7. ASSUME listing'.page = listing.page, listing'.state \in {"held", "error"},
               listing'.state = "held" => Owes',
               Going' => /\ ~disconnected
                         /\ searches'[listing'.sid].dir = listing'.dir
                         /\ searches'[listing'.sid].returned = search.returned \cup reply.names
                         /\ unread \cup reply.names \subseteq unread'
                         /\ listing'.dir = listing.dir
        PROVE  EntriesInv'
    <2>1. listing'.page \in Seq(Nodes) /\ listed' \in Seq(Nodes)
      BY <1>3, <1>7, EmptySeq
    <2>2. OnceEach(listed' \o listing'.page) /\ Returned' = ToSet(listed)
      BY <1>3, <1>7 DEF Returned
    <2>3. Children(listing.dir)' = {n \in exists : n # Share /\ Parent[n] = listing'.dir}
      BY DEF Children
    <2>4. Going' => /\ Returned' \subseteq searches'[listing'.sid].returned
                    /\ searches'[listing'.sid].returned \ Dots \subseteq Returned' \cup unread'
                    /\ present' \subseteq Children(listing.dir)'
      BY <1>7, <2>2, <2>3 DEF Children
    <2> QED
      BY <1>7, <2>1, <2>2, <2>4 DEF EntriesInv
  <1>8. CASE listing'.state = "error"
    <2>1. listing'.page \in Seq(Nodes)
      BY <1>1, <1>3, <1>4, <1>5, ConcatEmptySeq, EmptySeq DEF Makes, kept
    <2> QED
      BY <1>3, <1>8, <2>1 DEF EntriesInv
  <1>9. CASE reply = Deleted /\ listing'.state # "error"
    <2>1. /\ listing'.state = "held" /\ failed = "held" /\ listing'.page = listing.page
          /\ listing'.sid = listing.sid /\ listing'.finished = listing.finished
      BY <1>1, <1>6, <1>9 DEF Makes
    <2>2. Owes' /\ ~Going'
      BY <1>1, <1>3, <1>9, <2>1 DEF Owes, Going
    <2> QED
      BY <1>7, <2>1, <2>2
  <1>10. CASE reply # Deleted /\ listing'.state # "error"
    <2>1. ~disconnected /\ ~disconnected'
      BY <1>1, <1>2, <1>10
    <2>2. /\ search.owner = "listing" /\ search.dir = listing.dir
          /\ ToSet(listed) \subseteq search.returned
          /\ search.returned \ Dots \subseteq ToSet(listed) \cup unread
          /\ present' \subseteq Children(listing.dir)
      BY <2>1
    <2>3. /\ present' \cap Dots = {} /\ listing'.dir = listing.dir
          /\ Children(listing.dir)' = Children(listing.dir)
      <3>1. listing'.dir = listing.dir
        BY <1>1 DEF Makes
      <3> QED
        BY <2>2, <3>1, TreeAssumption DEF Children, NodesInv, Dots
    <2>4. ~reply.end => /\ SearchAfter(search, reply).dir = listing.dir
                        /\ SearchAfter(search, reply).returned = search.returned \cup reply.names
      BY <2>2, ReturnedAfter
    <2>5. CASE reply.status = "NO_MORE_FILES"
      <3>1. /\ listing'.state = "held" /\ listing'.page = <<>> /\ listing'.finished = TRUE
            /\ Left(search) = {}
        BY <1>1, <1>2, <1>10, <2>5 DEF Makes
      <3>2. ~Owes' /\ ~Going'
        BY <3>1 DEF Owes, Going
      <3>3. unread' = unread
        BY <1>1, <2>5 DEF Unreadable
      <3>4. present' \subseteq Returned' \cup unread'
        BY <1>3, <2>2, <2>3, <3>1, <3>3 DEF Left, Returned
      <3>5. OnceEach(listed' \o listing'.page) /\ listing'.page \in Seq(Nodes)
        BY <1>3, <3>1, EmptySeq
      <3> QED
        BY <1>3, <3>1, <3>2, <3>4, <3>5 DEF EntriesInv
    <2>6. CASE reply.status = "REFUSED"
      <3>1. /\ listing'.state = "held" /\ failed = "held" /\ listing'.page = listing.page
            /\ listing'.sid = sid /\ listing'.finished = listing.finished
            /\ reply.names = {} /\ ~reply.end
        BY <1>1, <1>2, <1>10, <2>6 DEF Makes
      <3>2. Owes'
        BY <1>3, <3>1 DEF Owes
      <3>3. searches'[listing'.sid] = SearchAfter(search, reply)
        BY <1>1, <1>10, <3>1
      <3>4. unread' = unread
        BY <1>1, <2>6 DEF Unreadable
      <3> QED
        BY <1>7, <2>1, <2>3, <2>4, <3>1, <3>2, <3>3, <3>4
    <2>7. CASE reply.status = "SUCCESS" /\ Unreadable(reply, block)
      <3>1. /\ listing'.state = "held" /\ failed = "held" /\ listing'.page = listing.page
            /\ listing'.sid = sid /\ listing'.finished = listing.finished
        BY <1>1, <1>10, <2>7 DEF Makes
      <3>2. Owes'
        BY <1>3, <3>1 DEF Owes
      <3>3. searches'[listing'.sid] = SearchAfter(search, reply)
        BY <1>1, <1>10, <3>1
      <3>4. Going' => ~reply.end
        BY <3>3, OwnedGoesOn DEF Going
      <3>5. unread' = unread \cup reply.names
        BY <1>1, <2>7
      <3> QED
        BY <1>7, <2>1, <2>3, <2>4, <3>1, <3>2, <3>3, <3>4, <3>5
    <2>8. CASE reply.status = "SUCCESS" /\ ~Unreadable(reply, block)
      <3>1. /\ listing'.state = "held" /\ listing'.page = <<>> \o kept
            /\ listing'.sid = sid /\ listing'.finished = reply.end
        BY <1>1, <1>10, <2>8 DEF Makes, kept
      <3>2. listing'.page = kept /\ kept \in Seq(Nodes)
        BY <1>4, <1>10, <3>1, ConcatEmptySeq
      <3>3. ToSet(kept) \cap ToSet(listed) = {}
        <4>1. reply.names \cap search.returned = {}
          BY <1>2, <1>10 DEF Left
        <4> QED
          BY <1>4, <1>10, <2>2, <4>1
      <3>4. OnceEach(listed' \o listing'.page)
        BY <1>3, <1>4, <1>10, <3>2, <3>3, Behind
      <3>5. Returned' = ToSet(listed) \cup (reply.names \ Dots) /\ unread' = unread
        BY <1>1, <1>4, <1>10, <2>8, <3>2 DEF Returned
      <3>6. CASE reply.end
        <4>1. ~Owes' /\ ~Going' /\ reply.names = Left(search)
          BY <1>2, <1>10, <2>8, <3>1, <3>6 DEF Owes, Going
        <4>2. present' \subseteq Returned' \cup unread'
          BY <2>2, <2>3, <3>5, <4>1 DEF Left
        <4> QED
          BY <1>3, <3>1, <3>2, <3>4, <4>1, <4>2 DEF EntriesInv
      <3>7. CASE ~reply.end
        <4>1. searches'[listing'.sid] = SearchAfter(search, reply) /\ Owes'
          BY <1>1, <1>3, <1>10, <2>8, <3>1, <3>7 DEF Owes
        <4>2. /\ searches'[listing'.sid].dir = listing'.dir
              /\ Returned' \subseteq searches'[listing'.sid].returned
              /\ searches'[listing'.sid].returned \ Dots \subseteq Returned' \cup unread'
              /\ present' \subseteq Children(listing.dir)'
          BY <2>2, <2>3, <2>4, <3>5, <3>7, <4>1
        <4> QED
          BY <1>3, <3>1, <3>2, <3>4, <4>1, <4>2 DEF EntriesInv
      <3> QED
        BY <1>2, <1>10, <2>8, <3>6, <3>7
    <2> QED
      BY <1>2, <1>10, <2>5, <2>6, <2>7, <2>8
  <1> QED
    BY <1>8, <1>9, <1>10

\* The first page.
LEMMA EntriesFirst ==
    ASSUME Inv, EntriesInv, NodesInv, FindFirst
    PROVE  EntriesInv'
  <1>1. /\ listing.state = "first" /\ UNCHANGED <<exists, listed>>
        /\ ListingInv /\ searches = [s \in Sids |-> searches[s]]
    BY DEF FindFirst, Inv, SearchesInv
  <1>2. CASE listing.dir \in exists \cap Dirs
    <2>1. present' = Children(listing.dir)
      BY <1>2 DEF FindFirst
    <2>2. PICK sid \in Sids :
            FindReply([owner |-> "listing", dir |-> listing.dir, returned |-> {}], sid, "error")
      BY <1>2 DEF FindFirst
    <2> DEFINE search == [owner |-> "listing", dir |-> listing.dir, returned |-> {}]
    <2>3. /\ FindReply(search, sid, "error") /\ IsSearch(search)
          /\ search.owner = "listing" /\ search.dir = listing.dir /\ search.returned = {}
      BY <2>2, SearchIs
    <2> HIDE DEF search
    <2>4. listing.page = <<>> /\ ToSet(listed) = {} /\ OnceEach(listed)
      <3>1. listing.page = <<>> /\ listed = <<>>
        BY <1>1 DEF EntriesInv
      <3>2. ToSet(<<>>) = {} /\ OnceEach(<<>>)
        BY DEF ToSet, OnceEach
      <3> QED
        BY <3>1, <3>2
    <2> QED
      BY <1>1, <2>1, <2>3, <2>4, EntriesFound
  <1>3. CASE listing.dir \notin exists \cap Dirs
    <2>1. listing' = [listing EXCEPT !.state = "error"]
      BY <1>3 DEF FindFirst
    <2>2. listing'.state = "error" /\ listing'.page = listing.page
      BY <1>1, <2>1, ListingState DEF ListingInv
    <2> QED
      BY <1>1, <2>2, EntriesVoid
  <1> QED
    BY <1>2, <1>3

\* Another page, or an error.
LEMMA EntriesMore ==
    ASSUME Inv, EntriesInv, NodesInv, NEW failed \in {"held", "error"}, FindNext(failed)
    PROVE  EntriesInv'
  <1>1. /\ listing.state = "next" /\ UNCHANGED <<exists, listed, present>>
        /\ ListingInv /\ searches = [s \in Sids |-> searches[s]]
        /\ listing.sid \in Sids /\ ~listing.finished
        /\ listed \in Seq(Nodes) /\ OnceEach(listed \o listing.page) /\ listing.page = <<>>
    BY DEF FindNext, Inv, SearchesInv, ListingInv, EntriesInv
  <1>2. listed \o <<>> = listed /\ ToSet(<<>>) = {}
    BY <1>1, ConcatEmptySeq DEF ToSet
  <1>3. OnceEach(listed) /\ Returned = ToSet(listed) /\ Owes
    BY <1>1, <1>2, TreeAssumption DEF Returned, Owes
  <1>4. CASE searches[listing.sid].owner = "listing" \/ disconnected
    <2>1. FindReply(searches[listing.sid], listing.sid, failed)
      BY <1>4 DEF FindNext
    <2>2. IsSearch(searches[listing.sid])
      BY <1>1 DEF Inv, SearchesInv
    <2>3. ASSUME ~disconnected
          PROVE  /\ searches[listing.sid].owner = "listing"
                 /\ searches[listing.sid].dir = listing.dir
                 /\ ToSet(listed) \subseteq searches[listing.sid].returned
                 /\ searches[listing.sid].returned \ Dots \subseteq ToSet(listed) \cup unread
                 /\ present' \subseteq Children(listing.dir)
      <3>1. Going
        BY <1>3, <1>4, <2>3 DEF Going
      <3> QED
        BY <1>1, <1>3, <3>1 DEF EntriesInv, Going
    <2> QED
      BY <1>1, <1>3, <2>1, <2>2, <2>3, EntriesFound
  <1>5. CASE searches[listing.sid].owner # "listing" /\ ~disconnected
    <2>1. listing' = [listing EXCEPT !.state = failed] /\ UNCHANGED <<searches, disconnected, unread>>
      BY <1>5 DEF FindNext
    <2>2. /\ listing'.state = failed /\ listing'.page = listing.page
          /\ listing'.sid = listing.sid /\ listing'.finished = listing.finished
      BY <1>1, <2>1, ListingState DEF ListingInv
    <2>3. Owes' /\ ~Going'
      BY <1>3, <1>5, <2>1, <2>2 DEF Owes, Going
    <2> QED
      BY <1>1, <2>2, <2>3 DEF EntriesInv
  <1> QED
    BY <1>4, <1>5

\* A reply that is lost: the search may have moved on, or ended.
LEMMA EntriesLost ==
    ASSUME Inv, EntriesInv, NEW failed \in {"held", "error"}, LoseReply(failed)
    PROVE  EntriesInv'
  <1> DEFINE after == IF listing.state = "first" THEN "error" ELSE failed
  <1>1. /\ listing' = [listing EXCEPT !.state = after] /\ listing.state \in {"first", "next"}
        /\ UNCHANGED <<listed, present, exists, disconnected>>
    BY DEF LoseReply
  <1> HIDE DEF after
  <1>2. /\ listing'.page = listing.page /\ listing'.state = after /\ listing'.dir = listing.dir
        /\ listing'.sid = listing.sid /\ listing'.finished = listing.finished
    BY <1>1, ListingState DEF Inv, ListingInv
  <1>3. CASE listing.state = "first"
    <2>1. listing'.state = "error"
      BY <1>2, <1>3 DEF after
    <2> QED
      BY <1>1, <1>2, <2>1, EntriesVoid
  <1>4. CASE listing.state = "next"
    <2>1. /\ listing'.state \in {"held", "error"} /\ listing.page = <<>>
          /\ OnceEach(listed \o listing.page)
      BY <1>2, <1>4 DEF after, EntriesInv
    <2>2. Owes /\ Owes' /\ Returned' = Returned
          /\ Children(listing.dir)' = Children(listing.dir)
      BY <1>1, <1>2, <1>4, TreeAssumption DEF Owes, Returned, Children, Inv, ListingInv
    <2>3. Going' =>
            /\ searches'[listing.sid].dir = listing.dir
            /\ Returned \subseteq searches'[listing.sid].returned
            /\ searches'[listing.sid].returned \ Dots \subseteq Returned \cup unread'
            /\ present \subseteq Children(listing.dir)
      <3> SUFFICES ASSUME Going'
                   PROVE  /\ searches'[listing.sid].dir = listing.dir
                          /\ Returned \subseteq searches'[listing.sid].returned
                          /\ searches'[listing.sid].returned \ Dots \subseteq Returned \cup unread'
                          /\ present \subseteq Children(listing.dir)
        OBVIOUS
      <3>1. /\ Going => /\ searches[listing.sid].dir = listing.dir
                        /\ Returned \subseteq searches[listing.sid].returned
                        /\ searches[listing.sid].returned \ Dots \subseteq Returned \cup unread
                        /\ present \subseteq Children(listing.dir)
            /\ searches'[listing.sid].owner = "listing" /\ ~disconnected
        BY <1>1, <1>2, <1>4 DEF EntriesInv, Going
      <3>2. CASE UNCHANGED <<searches, unread>>
        BY <2>2, <3>1, <3>2 DEF Going
      <3>3. CASE /\ searches[listing.sid].owner = "listing"
                 /\ \E reply \in ServerReplies(searches[listing.sid]) :
                      /\ searches' = [searches EXCEPT ![listing.sid] =
                                        SearchAfter(searches[listing.sid], reply)]
                      /\ unread' = unread \cup reply.names
        <4>1. PICK reply : /\ searches' = [searches EXCEPT ![listing.sid] =
                                              SearchAfter(searches[listing.sid], reply)]
                           /\ unread' = unread \cup reply.names
          BY <3>3
        <4>2. Going /\ IsSearch(searches[listing.sid]) /\ listing.sid \in Sids
              /\ searches = [s \in Sids |-> searches[s]]
          BY <1>4, <2>2, <3>1, <3>3 DEF Going, Inv, SearchesInv, ListingInv
        <4>3. searches'[listing.sid] = SearchAfter(searches[listing.sid], reply)
          BY <4>1, <4>2
        <4>4. ~reply.end
          BY <3>1, <4>3, OwnedGoesOn
        <4>5. /\ searches'[listing.sid].dir = searches[listing.sid].dir
              /\ searches'[listing.sid].returned = searches[listing.sid].returned \cup reply.names
          BY <4>2, <4>3, <4>4, ReturnedAfter
        <4> QED
          BY <3>1, <4>1, <4>2, <4>5
      <3> QED
        BY <1>4, <3>2, <3>3 DEF LoseReply
    <2> QED
      BY <1>1, <1>2, <2>1, <2>2, <2>3 DEF EntriesInv
  <1> QED
    BY <1>1, <1>3, <1>4

\* A queued close ends the search it names, whose it is or not, and no other.
LEMMA EntriesSent ==
    ASSUME Inv, EntriesInv, SendFindClose
    PROVE  EntriesInv'
  <1>1. /\ FindClose(Head(closes).id)
        /\ UNCHANGED <<disconnected, exists, listing, present, listed, unread>>
        /\ searches = [s \in Sids |-> searches[s]]
    BY DEF SendFindClose, Inv, SearchesInv
  <1>2. ASSUME Going' PROVE searches'[listing.sid] = searches[listing.sid]
    <2>1. CASE searches' = searches
      BY <2>1
    <2>2. CASE searches' = [searches EXCEPT ![Head(closes).id] = NoSearch]
      <3>1. searches'[listing.sid].owner = "listing"
        BY <1>1, <1>2 DEF Going
      <3>2. Owes /\ listing.sid \in Sids
        BY <1>1, <1>2 DEF Going, Owes, Inv, ListingInv
      <3> QED
        BY <1>1, <2>2, <3>1, <3>2, SearchIs
    <2> QED
      BY <1>1, <2>1, <2>2 DEF FindClose
  <1> QED
    BY <1>1, <1>2, EntriesRest

\* Someone else's search is under an id that is free.
LEMMA EntriesBeside ==
    ASSUME Inv, EntriesInv, OtherSearch
    PROVE  EntriesInv'
  <1>1. /\ UNCHANGED <<disconnected, exists, listing, present, listed, unread>>
        /\ searches = [s \in Sids |-> searches[s]]
    BY DEF OtherSearch, Inv, SearchesInv
  <1>2. PICK s \in Sids : searches' = [searches EXCEPT ![s] = [NoSearch EXCEPT !.owner = "other"]]
    BY DEF OtherSearch
  <1>3. ASSUME Going' PROVE searches'[listing.sid] = searches[listing.sid]
    <2>1. searches'[listing.sid].owner = "listing" /\ listing.sid \in Sids
      BY <1>1, <1>3 DEF Going, Owes, Inv, ListingInv
    <2>2. s # listing.sid
      BY <1>1, <1>2, <2>1, SearchIs
    <2> QED
      BY <1>1, <1>2, <2>2
  <1> QED
    BY <1>1, <1>3, EntriesRest

\* The share changes, the searches do not.
LEMMA EntriesAround ==
    ASSUME EntriesInv, OtherActs \/ OtherCloses \/ SendHandleClose
    PROVE  EntriesInv'
  <1>1. UNCHANGED <<searches, listing, disconnected, listed, unread>>
    BY DEF OtherActs, OtherCloses, SendHandleClose
  <1>2. \/ present' = present /\ exists \subseteq exists'
        \/ \E n : exists' = exists \ {n} /\ present' = present \ {n}
    BY DEF OtherActs, OtherCloses, SendHandleClose, CloseHandle, NotServed
  <1>3. present' \subseteq present /\ \A n \in present' : n \in exists => n \in exists'
    BY <1>2
  <1> QED
    BY <1>1, <1>3, EntriesRest

LEMMA EntriesInit == Init => EntriesInv
  <1> SUFFICES ASSUME Init PROVE EntriesInv
    OBVIOUS
  <1>1. listing = Gone /\ listed = <<>>
    BY DEF Init, ListingInit
  <1>2. Gone.page = <<>> /\ Gone.state = "none"
    BY DEF Gone
  <1> QED
    BY <1>1, <1>2, EmptySeq DEF EntriesInv

LEMMA EntriesStep ==
    ASSUME Inv, NodesInv, EntriesInv, [Next]_vars
    PROVE  EntriesInv'
  <1>1. ASSUME op.step # "list", UNCHANGED <<listing, listed>> PROVE EntriesInv'
    <2>1. listing' = Gone
      BY <1>1 DEF Inv, ListingInv
    <2> QED
      BY <1>1, <2>1, EntriesGone
  <1>2. CASE Call \/ DropFile
    BY <1>1, <1>2, IdleIs DEF Call, DropFile, listVars
  <1>3. CASE Reply \/ Lapse \/ Cancel
    <2>1. "list" \notin Requests
      BY DEF Requests
    <2> QED
      BY <1>1, <1>3, <2>1 DEF Reply, Lapse, Cancel
  <1>4. CASE Return \/ Removed
    BY <1>1, <1>4 DEF Return, Removed, listVars
  <1>5. CASE SendHandleClose \/ OtherActs \/ OtherCloses
    BY <1>5, EntriesAround
  <1>6. CASE ReadDir
    <2>1. CASE UNCHANGED <<listing, listed>>
      BY <1>1, <1>6, <2>1, IdleIs DEF ReadDir
    <2>2. CASE \E dir : StartListing(dir)
      BY <2>2, EntriesStart
    <2> QED
      BY <1>6, <2>1, <2>2 DEF ReadDir
  <1>7. CASE RemoveDirAll
    <2>1. CASE UNCHANGED <<listing, listed>>
      BY <1>1, <1>7, <2>1, IdleIs DEF RemoveDirAll
    <2>2. CASE \E dir : StartListing(dir)
      BY <2>2, EntriesStart
    <2> QED
      BY <1>7, <2>1, <2>2 DEF RemoveDirAll, EnterLevel
  <1>8. CASE Walk
    <2>1. CASE UNCHANGED <<listing, listed>>
      BY <1>1, <1>8, <2>1 DEF Walk
    <2>2. CASE \E dir : StartListing(dir)
      BY <2>2, EntriesStart
    <2> QED
      BY <1>8, <2>1, <2>2 DEF Walk, EnterLevel
  <1>9. CASE LetGo \/ LevelRead \/ LevelFails
    BY <1>9, EntriesGone DEF LetGo, LevelRead, LevelFails, DropListing
  <1>10. CASE Listed(FindFirst)
    BY <1>10, EntriesFirst DEF Listed
  <1>11. CASE Listed(FindNext(OnFailure))
    <2> DEFINE failed == OnFailure
    <2>1. FindNext(failed) /\ failed \in {"held", "error"}
      BY <1>11 DEF Listed, OnFailure
    <2> HIDE DEF failed
    <2> QED
      BY <2>1, EntriesMore
  <1>12. CASE Listed(NextEntry)
    BY <1>12, EntriesNext DEF Listed, Inv
  <1>13. CASE Listed(NextIsNone) \/ Listed(NextRound)
    BY <1>13, EntriesTurn DEF Listed, Inv
  <1>14. CASE Listed(SendFindClose)
    BY <1>14, EntriesSent DEF Listed
  <1>15. CASE Listed(OtherSearch)
    BY <1>15, EntriesBeside DEF Listed
  <1>16. CASE Listed(LoseReply(OnFailure))
    <2> DEFINE failed == OnFailure
    <2>1. LoseReply(failed) /\ failed \in {"held", "error"}
      BY <1>16 DEF Listed, OnFailure
    <2> HIDE DEF failed
    <2> QED
      BY <2>1, EntriesLost
  <1>17. CASE Listed((op.verb = "read_dir" \/ listing.state = "drained") /\ CloseListing)
    <2>1. listing' = [Gone EXCEPT !.state = "closed"] /\ listed' = listed
      BY <1>17 DEF Listed, CloseListing
    <2>2. Gone.page = <<>>
      BY DEF Gone
    <2>3. listing'.state = "closed" /\ listing'.page = <<>>
      BY <2>1, <2>2, GoneIs, ListingState
    <2> QED
      BY <2>1, <2>3, EntriesVoid
  <1>18. CASE UNCHANGED vars
    <2>1. UNCHANGED <<listing, listed, unread, disconnected, present, exists, searches>>
      BY <1>18 DEF vars, listVars
    <2> QED
      BY <2>1, EntriesRest
  <1> QED
    BY <1>2, <1>3, <1>4, <1>5, <1>6, <1>7, <1>8, <1>9, <1>10, <1>11, <1>12, <1>13, <1>14,
       <1>15, <1>16, <1>17, <1>18 DEF Next

LEMMA EntriesAre == Spec => []EntriesInv
  BY EntriesInit, EntriesStep, NodesAreReal, Invariance, PTL DEF Spec

\* listing.rs:137 and find.rs:301: a listing that reaches its end has returned, once
\* each, every entry there was from beginning to end, whatever the pages were cut into,
\* whatever became of the directory meanwhile and however often a call of it failed or
\* was dropped on the way: what is missing was on a page the caller was not given.
THEOREM ListsEverything == Spec => []ListsAll
  <1>1. EntriesInv => ListsAll
    <2> SUFFICES ASSUME EntriesInv, listing.state = "drained"
                 PROVE  /\ present \subseteq ToSet(listed) \cup unread
                        /\ Len(listed) = Cardinality(ToSet(listed))
      BY DEF ListsAll
    <2>1. /\ listed \in Seq(Nodes) /\ OnceEach(listed \o listing.page)
          /\ listing.page = <<>> /\ present \subseteq Returned \cup unread
      BY DEF EntriesInv
    <2>2. listed \o <<>> = listed /\ ToSet(<<>>) = {}
      BY <2>1, ConcatEmptySeq DEF ToSet
    <2>3. present \subseteq ToSet(listed) \cup unread
      BY <2>1, <2>2 DEF Returned
    <2>4. Len(listed) = Cardinality(ToSet(listed))
      BY <2>1, <2>2, CountIs
    <2> QED
      BY <2>3, <2>4
  <1> QED
    BY <1>1, EntriesAre, PTL

-----------------------------------------------------------------------------
(* Where a path leads. *)

\* One component more.
Deeper(depth, component) ==
    IF component \in {"", "."} THEN depth
    ELSE IF component = ".." THEN depth - 1 ELSE depth + 1

LEMMA ResolvedSolved ==
    ASSUME NEW S, NEW path \in Seq(S)
    PROVE  \E f : /\ f[0] = <<>> /\ \A i \in 1 .. Len(path) : f[i] = Entered(f[i - 1], path[i])
                  /\ Resolved(path) = f[Len(path)]
  <1> DEFINE n == Len(path)
             Upto(f, k) == f[0] = <<>> /\ \A i \in 1 .. k : f[i] = Entered(f[i - 1], path[i])
             wrong == {k \in 0 .. n : ~ \E f : Upto(f, k)}
             Solves(f) == f = [i \in 0 .. n |-> IF i = 0 THEN <<>> ELSE Entered(f[i - 1], path[i])]
  <1>1. n \in Nat
    OBVIOUS
  <1>2. wrong = {}
    <2> SUFFICES ASSUME wrong # {} PROVE FALSE
      OBVIOUS
    <2>1. PICK k \in wrong : \A j \in wrong : k <= j
      <3>1. wrong \in SUBSET Nat
        BY <1>1
      <3> QED
        BY <3>1, Least
    <2>2. k \in 0 .. n /\ ~ \E f : Upto(f, k)
      BY <2>1
    <2>3. CASE k = 0
      <3> DEFINE f == [i \in {0} |-> <<>>]
      <3>1. f[0] = <<>> /\ 1 .. 0 = {}
        OBVIOUS
      <3> HIDE DEF f
      <3>2. Upto(f, 0)
        BY <3>1
      <3> QED
        BY <2>2, <2>3, <3>2
    <2>4. CASE k # 0
      <3>1. k - 1 \in 0 .. n /\ k - 1 < k /\ k \in Nat \ {0}
        BY <1>1, <2>2, <2>4
      <3>2. k - 1 \notin wrong
        <4> HIDE DEF wrong
        <4>1. ~(k <= k - 1)
          BY <3>1
        <4> QED
          BY <2>1, <4>1
      <3> HIDE DEF Upto
      <3>3. PICK f : Upto(f, k - 1)
        BY <3>1, <3>2
      <3> DEFINE i == k
                 last == Entered(f[i - 1], path[i])
                 g == [j \in 0 .. k |-> IF j = k THEN last ELSE f[j]]
      <3>4. \A j \in 0 .. k - 1 : g[j] = f[j]
        BY <3>1
      <3>5. g[k] = last
        BY <3>1
      <3>6. last = Entered(f[k - 1], path[k])
        OBVIOUS
      <3> HIDE DEF g, last, i
      <3>7. g[0] = <<>>
        BY <3>1, <3>3, <3>4 DEF Upto
      <3>8. ASSUME NEW j \in 1 .. k PROVE g[j] = Entered(g[j - 1], path[j])
        <4>1. j - 1 \in 0 .. k - 1 /\ (j = k \/ j \in 1 .. k - 1)
          BY <3>1
        <4>2. CASE j = k
          BY <3>4, <3>5, <3>6, <4>1, <4>2
        <4>3. CASE j \in 1 .. k - 1
          <5>1. f[j] = Entered(f[j - 1], path[j])
            BY <3>3, <4>3 DEF Upto
          <5>2. g[j] = f[j] /\ g[j - 1] = f[j - 1]
            BY <3>1, <3>4, <4>1, <4>3
          <5> QED
            BY <5>1, <5>2
        <4> QED
          BY <4>1, <4>2, <4>3
      <3>9. Upto(g, k)
        BY <3>7, <3>8 DEF Upto
      <3> QED
        BY <2>2, <3>9
    <2> QED
      BY <2>3, <2>4
  <1>3. PICK g : Upto(g, n)
    BY <1>1, <1>2
  <1> DEFINE f == [i \in 0 .. n |-> g[i]]
  <1>4. Solves(f)
    <2>1. \A i \in 0 .. n : f[i] = IF i = 0 THEN <<>> ELSE Entered(f[i - 1], path[i])
      <3> TAKE i \in 0 .. n
      <3>1. f[i] = g[i]
        OBVIOUS
      <3>2. CASE i = 0
        BY <1>3, <3>1, <3>2
      <3>3. CASE i # 0
        <4>1. i \in 1 .. n /\ i - 1 \in 0 .. n
          BY <1>1, <3>3
        <4>2. f[i - 1] = g[i - 1]
          BY <4>1
        <4> HIDE DEF f
        <4> QED
          BY <1>3, <3>1, <3>3, <4>1, <4>2
      <3> QED
        BY <3>2, <3>3
    <2>2. f = [i \in 0 .. n |-> f[i]]
      OBVIOUS
    <2> HIDE DEF f
    <2> QED
      BY <2>1, <2>2
  <1> DEFINE h == CHOOSE h : Solves(h)
  <1> HIDE DEF f
  <1>5. Solves(h)
    BY <1>4
  <1>6. Resolved(path) = h[Len(path)]
    BY DEF Resolved
  <1> HIDE DEF h
  <1>7. \A i \in 0 .. n : h[i] = IF i = 0 THEN <<>> ELSE Entered(h[i - 1], path[i])
    <2> DEFINE e(i) == IF i = 0 THEN <<>> ELSE Entered(h[i - 1], path[i])
    <2>1. h = [i \in 0 .. n |-> e(i)]
      BY <1>5
    <2> HIDE DEF e
    <2>2. \A i \in 0 .. n : h[i] = e(i)
      BY <2>1
    <2> QED
      BY <2>2 DEF e
  <1>8. h[0] = <<>> /\ \A i \in 1 .. n : h[i] = Entered(h[i - 1], path[i])
    BY <1>1, <1>7
  <1> QED
    BY <1>6, <1>8

LEMMA DepthsSolved ==
    ASSUME NEW S, NEW path \in Seq(S)
    PROVE  \E f : /\ f[0] = 0 /\ \A i \in 1 .. Len(path) : f[i] = Deeper(f[i - 1], path[i])
                  /\ \A i \in 0 .. Len(path) : Depths(path)[i] = f[i]
  <1> DEFINE n == Len(path)
             Upto(f, k) == f[0] = 0 /\ \A i \in 1 .. k : f[i] = Deeper(f[i - 1], path[i])
             wrong == {k \in 0 .. n : ~ \E f : Upto(f, k)}
             Solves(f) == f = [i \in 0 .. n |-> IF i = 0 THEN 0 ELSE Deeper(f[i - 1], path[i])]
  <1>1. n \in Nat
    OBVIOUS
  <1>2. wrong = {}
    <2> SUFFICES ASSUME wrong # {} PROVE FALSE
      OBVIOUS
    <2>1. PICK k \in wrong : \A j \in wrong : k <= j
      <3>1. wrong \in SUBSET Nat
        BY <1>1
      <3> QED
        BY <3>1, Least
    <2>2. k \in 0 .. n /\ ~ \E f : Upto(f, k)
      BY <2>1
    <2>3. CASE k = 0
      <3> DEFINE f == [i \in {0} |-> 0]
      <3>1. f[0] = 0 /\ 1 .. 0 = {}
        OBVIOUS
      <3> HIDE DEF f
      <3>2. Upto(f, 0)
        BY <3>1
      <3> QED
        BY <2>2, <2>3, <3>2
    <2>4. CASE k # 0
      <3>1. k - 1 \in 0 .. n /\ k - 1 < k /\ k \in Nat \ {0}
        BY <1>1, <2>2, <2>4
      <3>2. k - 1 \notin wrong
        <4> HIDE DEF wrong
        <4>1. ~(k <= k - 1)
          BY <3>1
        <4> QED
          BY <2>1, <4>1
      <3> HIDE DEF Upto
      <3>3. PICK f : Upto(f, k - 1)
        BY <3>1, <3>2
      <3> DEFINE i == k
                 last == Deeper(f[i - 1], path[i])
                 g == [j \in 0 .. k |-> IF j = k THEN last ELSE f[j]]
      <3>4. \A j \in 0 .. k - 1 : g[j] = f[j]
        BY <3>1
      <3>5. g[k] = last
        BY <3>1
      <3>6. last = Deeper(f[k - 1], path[k])
        OBVIOUS
      <3> HIDE DEF g, last, i
      <3>7. g[0] = 0
        BY <3>1, <3>3, <3>4 DEF Upto
      <3>8. ASSUME NEW j \in 1 .. k PROVE g[j] = Deeper(g[j - 1], path[j])
        <4>1. j - 1 \in 0 .. k - 1 /\ (j = k \/ j \in 1 .. k - 1)
          BY <3>1
        <4>2. CASE j = k
          BY <3>4, <3>5, <3>6, <4>1, <4>2
        <4>3. CASE j \in 1 .. k - 1
          <5>1. f[j] = Deeper(f[j - 1], path[j])
            BY <3>3, <4>3 DEF Upto
          <5>2. g[j] = f[j] /\ g[j - 1] = f[j - 1]
            BY <3>1, <3>4, <4>1, <4>3
          <5> QED
            BY <5>1, <5>2
        <4> QED
          BY <4>1, <4>2, <4>3
      <3>9. Upto(g, k)
        BY <3>7, <3>8 DEF Upto
      <3> QED
        BY <2>2, <3>9
    <2> QED
      BY <2>3, <2>4
  <1>3. PICK g : Upto(g, n)
    BY <1>1, <1>2
  <1> DEFINE f == [i \in 0 .. n |-> g[i]]
  <1>4. Solves(f)
    <2>1. \A i \in 0 .. n : f[i] = IF i = 0 THEN 0 ELSE Deeper(f[i - 1], path[i])
      <3> TAKE i \in 0 .. n
      <3>1. f[i] = g[i]
        OBVIOUS
      <3>2. CASE i = 0
        BY <1>3, <3>1, <3>2
      <3>3. CASE i # 0
        <4>1. i \in 1 .. n /\ i - 1 \in 0 .. n
          BY <1>1, <3>3
        <4>2. f[i - 1] = g[i - 1]
          BY <4>1
        <4> HIDE DEF f
        <4> QED
          BY <1>3, <3>1, <3>3, <4>1, <4>2
      <3> QED
        BY <3>2, <3>3
    <2>2. f = [i \in 0 .. n |-> f[i]]
      OBVIOUS
    <2> HIDE DEF f
    <2> QED
      BY <2>1, <2>2
  <1> DEFINE h == CHOOSE h : Solves(h)
  <1> HIDE DEF f
  <1>5. Solves(h)
    BY <1>4
  <1>6. \A i \in 0 .. Len(path) : Depths(path)[i] = h[i]
    BY DEF Depths, Deeper
  <1> HIDE DEF h
  <1>7. \A i \in 0 .. n : h[i] = IF i = 0 THEN 0 ELSE Deeper(h[i - 1], path[i])
    <2> DEFINE e(i) == IF i = 0 THEN 0 ELSE Deeper(h[i - 1], path[i])
    <2>1. h = [i \in 0 .. n |-> e(i)]
      BY <1>5
    <2> HIDE DEF e
    <2>2. \A i \in 0 .. n : h[i] = e(i)
      BY <2>1
    <2> QED
      BY <2>2 DEF e
  <1>8. h[0] = 0 /\ \A i \in 1 .. n : h[i] = Deeper(h[i - 1], path[i])
    BY <1>1, <1>7
  <1> QED
    BY <1>6, <1>8

\* A sequence without its last, and with it again.
LEMMA FrontIs ==
    ASSUME NEW S, NEW s \in Seq(S), s # <<>>
    PROVE  /\ Front(s) \in Seq(S) /\ Len(Front(s)) = Len(s) - 1
           /\ Last(s) \in S /\ Last(s) = s[Len(s)]
           /\ \A i \in 1 .. Len(s) - 1 : Front(s)[i] = s[i]
           /\ s = Append(Front(s), Last(s))
  <1>1. PICK t \in Seq(S), e \in S : s = Append(t, e)
    BY SequenceEmptyOrAppend
  <1>2. /\ Len(t) \in Nat /\ Len(s) = Len(t) + 1 /\ s[Len(t) + 1] = e
        /\ \A i \in 1 .. Len(t) : s[i] = t[i]
    BY <1>1, AppendProperties
  <1>3. Last(s) = e /\ Last(s) = s[Len(s)]
    BY <1>2 DEF Last
  <1>4. Front(s) = SubSeq(s, 1, Len(t))
    BY <1>2 DEF Front
  <1>5. /\ Front(s) \in Seq(S) /\ Len(Front(s)) = Len(t)
        /\ \A i \in 1 .. Len(t) : Front(s)[i] = s[i]
    <2>1. \A i \in 1 .. Len(t) : s[i] \in S
      BY <1>2
    <2>2. /\ SubSeq(s, 1, Len(t)) \in Seq(S)
          /\ Len(SubSeq(s, 1, Len(t))) = IF 1 <= Len(t) THEN Len(t) - 1 + 1 ELSE 0
          /\ \A i \in 1 .. Len(t) - 1 + 1 : SubSeq(s, 1, Len(t))[i] = s[1 + i - 1]
      BY <1>2, <2>1, SubSeqProperties
    <2>3. Len(t) - 1 + 1 = Len(t) /\ \A i \in 1 .. Len(t) : 1 + i - 1 = i
      BY <1>2
    <2> QED
      BY <1>2, <1>4, <2>2, <2>3
  <1>6. Front(s) = t
    BY <1>2, <1>5, SeqEqual
  <1>7. Len(s) - 1 = Len(t)
    BY <1>2
  <1> QED
    BY <1>1, <1>2, <1>3, <1>5, <1>6, <1>7

\* What has left the share is no sequence of names.
LEMMA EscapedIs ==
    /\ \A T : Escaped \in Seq(T) => ".." \in T
    /\ Escaped # <<>> /\ Escaped \in Seq({".."})
  <1>1. Len(Escaped) = 1 /\ Escaped[1] = ".." /\ Escaped \in Seq({".."})
    BY DEF Escaped
  <1>2. ASSUME NEW T, Escaped \in Seq(T) PROVE ".." \in T
    <2>1. Escaped[1] \in T
      BY <1>1, <1>2
    <2> QED
      BY <1>1, <2>1
  <1> QED
    BY <1>1, <1>2

LEMMA EnteredIs ==
    ASSUME NEW S, NEW names \in Seq(S \cup {".."}), NEW component \in S
    PROVE  Entered(names, component) \in Seq(S \cup {".."})
  <1>1. Escaped \in Seq(S \cup {".."})
    BY DEF Escaped
  <1>2. names # <<>> => Front(names) \in Seq(S \cup {".."})
    BY FrontIs
  <1>3. Append(names, component) \in Seq(S \cup {".."})
    BY AppendProperties
  <1> QED
    BY <1>1, <1>2, <1>3 DEF Entered

\* A path is taken a component at a time.
LEMMA ResolvedOne ==
    ASSUME NEW S, NEW path \in Seq(S), NEW component \in S
    PROVE  Resolved(Append(path, component)) = Entered(Resolved(path), component)
  <1> DEFINE longer == Append(path, component)
             n == Len(path)
  <1>1. /\ n \in Nat /\ longer \in Seq(S) /\ Len(longer) = n + 1
        /\ \A i \in 1 .. n : longer[i] = path[i]
        /\ longer[n + 1] = component
    BY AppendProperties
  <1>2. PICK f : /\ f[0] = <<>> /\ \A i \in 1 .. n : f[i] = Entered(f[i - 1], path[i])
                 /\ Resolved(path) = f[n]
    BY ResolvedSolved
  <1> HIDE DEF longer
  <1>3. PICK g : /\ g[0] = <<>>
                 /\ \A i \in 1 .. n + 1 : g[i] = Entered(g[i - 1], longer[i])
                 /\ Resolved(longer) = g[n + 1]
    <2>1. PICK g : /\ g[0] = <<>>
                   /\ \A i \in 1 .. Len(longer) : g[i] = Entered(g[i - 1], longer[i])
                   /\ Resolved(longer) = g[Len(longer)]
      BY <1>1, ResolvedSolved
    <2> QED
      BY <1>1, <2>1
  <1> DEFINE wrong == {i \in 0 .. n : f[i] # g[i]}
  <1>4. wrong = {}
    <2> SUFFICES ASSUME wrong # {} PROVE FALSE
      OBVIOUS
    <2>1. PICK k \in wrong : \A j \in wrong : k <= j
      <3>1. wrong \in SUBSET Nat
        BY <1>1
      <3> QED
        BY <3>1, Least
    <2>2. k # 0 /\ k \in 0 .. n /\ f[k] # g[k]
      BY <1>2, <1>3, <2>1
    <2>3. k \in 1 .. n /\ k \in 1 .. n + 1 /\ k - 1 \in 0 .. n /\ ~(k <= k - 1)
      BY <1>1, <2>2
    <2>4. f[k - 1] = g[k - 1]
      BY <2>1, <2>3
    <2>5. f[k] = Entered(f[k - 1], path[k])
      BY <1>2, <2>3
    <2>6. g[k] = Entered(g[k - 1], longer[k])
      BY <1>3, <2>3
    <2>7. longer[k] = path[k]
      BY <1>1, <2>3
    <2> QED
      BY <2>2, <2>4, <2>5, <2>6, <2>7
  <1>5. f[n] = g[n] /\ n + 1 \in 1 .. n + 1 /\ n + 1 - 1 = n
    BY <1>1, <1>4
  <1>6. g[n + 1] = Entered(g[n], component)
    BY <1>1, <1>3, <1>5
  <1> QED
    BY <1>2, <1>3, <1>5, <1>6 DEF longer

LEMMA ResolvedIs ==
    ASSUME NEW S, NEW path \in Seq(S)
    PROVE  Resolved(path) \in Seq(S \cup {".."})
  <1> DEFINE n == Len(path)
  <1>1. n \in Nat /\ \A i \in 1 .. n : path[i] \in S
    OBVIOUS
  <1>2. PICK f : /\ f[0] = <<>> /\ \A i \in 1 .. n : f[i] = Entered(f[i - 1], path[i])
                 /\ Resolved(path) = f[n]
    BY ResolvedSolved
  <1> DEFINE wrong == {i \in 0 .. n : f[i] \notin Seq(S \cup {".."})}
  <1>3. wrong = {}
    <2> SUFFICES ASSUME wrong # {} PROVE FALSE
      OBVIOUS
    <2>1. PICK k \in wrong : \A j \in wrong : k <= j
      <3>1. wrong \in SUBSET Nat
        BY <1>1
      <3> QED
        BY <3>1, Least
    <2>2. k # 0
      <3>1. <<>> \in Seq(S \cup {".."})
        OBVIOUS
      <3> QED
        BY <1>2, <2>1, <3>1
    <2>3. k \in 1 .. n /\ k - 1 \in 0 .. n /\ ~(k <= k - 1)
      BY <1>1, <2>1, <2>2
    <2>4. f[k - 1] \in Seq(S \cup {".."})
      BY <2>1, <2>3
    <2>5. f[k] = Entered(f[k - 1], path[k]) /\ path[k] \in S
      BY <1>1, <1>2, <2>3
    <2>6. f[k] \in Seq(S \cup {".."})
      BY <2>4, <2>5, EnteredIs
    <2> QED
      BY <2>1, <2>6
  <1> QED
    BY <1>1, <1>2, <1>3

\* As long as a path is nowhere above the share, it is as deep as it says.
LEMMA DeeperIs ==
    ASSUME NEW T, ".." \notin T, NEW names \in Seq(T), NEW component,
           component \in T \cup {".."}, Deeper(Len(names), component) >= 0
    PROVE  /\ Entered(names, component) \in Seq(T)
           /\ Len(Entered(names, component)) = Deeper(Len(names), component)
  <1>1. names # Escaped /\ Len(names) \in Nat
    BY EscapedIs
  <1>2. CASE component \in {"", "."}
    BY <1>2 DEF Entered, Deeper
  <1>3. CASE component = ".."
    <2>1. Deeper(Len(names), component) = Len(names) - 1
      BY <1>3 DEF Deeper
    <2>2. names # <<>>
      BY <1>1, <2>1
    <2>3. Entered(names, component) = Front(names)
      BY <1>1, <1>3, <2>2 DEF Entered
    <2> QED
      BY <2>1, <2>2, <2>3, FrontIs
  <1>4. CASE component \notin {"", ".", ".."}
    <2>1. Deeper(Len(names), component) = Len(names) + 1 /\ component \in T
      BY <1>4 DEF Deeper
    <2>2. Entered(names, component) = Append(names, component)
      BY <1>1, <1>4 DEF Entered
    <2> QED
      BY <2>1, <2>2, AppendProperties
  <1> QED
    BY <1>2, <1>3, <1>4

LEMMA StaysIn ==
    ASSUME NEW S, NEW path \in Seq(S), ~EscapesShareRoot(path)
    PROVE  Resolved(path) # Escaped
  <1> DEFINE n == Len(path)
             T == S \ {".."}
  <1>1. n \in Nat /\ (\A i \in 1 .. n : path[i] \in T \cup {".."}) /\ ".." \notin T
    OBVIOUS
  <1>2. PICK f : /\ f[0] = <<>> /\ \A i \in 1 .. n : f[i] = Entered(f[i - 1], path[i])
                 /\ Resolved(path) = f[n]
    BY ResolvedSolved
  <1>3. PICK d : /\ d[0] = 0 /\ \A i \in 1 .. n : d[i] = Deeper(d[i - 1], path[i])
                 /\ \A i \in 0 .. n : Depths(path)[i] = d[i]
    BY DepthsSolved
  <1>4. \A i \in 1 .. n : ~(d[i] < 0)
    <2>1. \A i \in 1 .. n : i \in 0 .. n
      BY <1>1
    <2> QED
      BY <1>3, <2>1 DEF EscapesShareRoot
  <1> DEFINE Fine(i) == f[i] \in Seq(T) /\ Len(f[i]) = d[i]
             wrong == {i \in 0 .. n : ~Fine(i)}
  <1> HIDE DEF T
  <1>5. wrong = {}
    <2> SUFFICES ASSUME wrong # {} PROVE FALSE
      OBVIOUS
    <2>1. PICK k \in wrong : \A j \in wrong : k <= j
      <3>1. wrong \in SUBSET Nat
        BY <1>1
      <3> QED
        BY <3>1, Least
    <2>2. k # 0
      <3>1. <<>> \in Seq(T) /\ Len(<<>>) = 0
        OBVIOUS
      <3> QED
        BY <1>2, <1>3, <2>1, <3>1
    <2>3. k \in 1 .. n /\ k - 1 \in 0 .. n /\ ~(k <= k - 1)
      BY <1>1, <2>1, <2>2
    <2>4. f[k - 1] \in Seq(T) /\ Len(f[k - 1]) = d[k - 1]
      BY <2>1, <2>3
    <2>5. /\ f[k] = Entered(f[k - 1], path[k]) /\ d[k] = Deeper(d[k - 1], path[k])
          /\ path[k] \in T \cup {".."} /\ ~(d[k] < 0)
      BY <1>1, <1>2, <1>3, <1>4, <2>3
    <2>6. Deeper(d[k - 1], path[k]) >= 0
      <3>1. d[k - 1] \in Nat
        BY <2>4
      <3>2. Deeper(d[k - 1], path[k]) \in Int
        <4> DEFINE depth == d[k - 1]
                   component == path[k]
        <4>1. depth \in Int /\ depth - 1 \in Int /\ depth + 1 \in Int
          BY <3>1
        <4> HIDE DEF depth, component
        <4>2. Deeper(depth, component) \in Int
          BY <4>1 DEF Deeper
        <4> QED
          BY <4>2 DEF depth, component
      <3> QED
        BY <2>5, <3>2
    <2>7. Fine(k)
      BY <1>1, <2>4, <2>5, <2>6, DeeperIs
    <2> QED
      BY <2>1, <2>7
  <1>6. f[n] \in Seq(T)
    BY <1>1, <1>5
  <1> QED
    BY <1>1, <1>2, <1>6, EscapedIs

-----------------------------------------------------------------------------
(* The node that is there. *)

\* The names of a path to a node, each in the one before it.
Chained(names) ==
    \A i \in 1 .. Len(names) :
      names[i] \in Nodes \ {Share} /\ Parent[names[i]] = IF i = 1 THEN Share ELSE names[i - 1]

LEMMA OutsideIsNoNode ==
    /\ Outside \notin Nodes /\ Nowhere \notin Nodes /\ Outside # Nowhere
    /\ "" \notin Nodes /\ "." \notin Nodes /\ ".." \notin Nodes
    /\ Share \in Nodes /\ Target \in Nodes \ {Share} /\ Dirs \subseteq Nodes
  BY TreeAssumption, PathsAssumption DEF Outside, Nowhere

LEMMA NodeOfChain ==
    ASSUME NEW names, NodeOf(names) \in Nodes
    PROVE  /\ names # Escaped /\ Chained(names)
           /\ NodeOf(names) = IF names = <<>> THEN Share ELSE Last(names)
  BY OutsideIsNoNode DEF NodeOf, Chained

LEMMA NodeOfRoot == NodeOf(<<>>) = Share
  <1>1. Len(<<>>) = 0 /\ 1 .. 0 = {} /\ <<>> # Escaped
    BY EscapedIs
  <1> QED
    BY <1>1 DEF NodeOf

LEMMA NodeOfInside ==
    ASSUME NEW S, NEW names \in Seq(S), names # Escaped
    PROVE  NodeOf(names) # Outside
  <1>1. CASE ~Chained(names)
    BY <1>1, OutsideIsNoNode DEF NodeOf, Chained
  <1>2. CASE Chained(names) /\ names = <<>>
    BY <1>2, NodeOfRoot, OutsideIsNoNode
  <1>3. CASE Chained(names) /\ names # <<>>
    <2>1. Len(names) \in 1 .. Len(names) /\ Last(names) = names[Len(names)]
      <3>1. Len(names) \in Nat \ {0}
        BY <1>3
      <3> QED
        BY <3>1 DEF Last
    <2>2. Last(names) \in Nodes
      BY <1>3, <2>1 DEF Chained
    <2>3. NodeOf(names) = Last(names)
      BY <1>3 DEF NodeOf, Chained
    <2> QED
      BY <2>2, <2>3, OutsideIsNoNode
  <1> QED
    BY <1>1, <1>2, <1>3

-----------------------------------------------------------------------------
(* Under a directory. *)

Within(dir) == {n \in Nodes \ {Share} : Parent[n] = dir}

LEMMA UnderItself == Target \in Under(Target)
  BY OutsideIsNoNode DEF Under

LEMMA UnderWithin ==
    ASSUME NEW dir \in Under(Target), NEW n \in Within(dir)
    PROVE  n \in Under(Target)
  BY DEF Under, Within

-----------------------------------------------------------------------------
(* The paths of the recursive delete. *)

\* What the paths of the delete are made of, and what is trimmed off them leaves.
Components == ToSet(TargetPath) \cup UNION {ToSet(Split(n)) : n \in Nodes}
Letters == Components \cup {Trimmed(c) : c \in Components} \cup {".."}

\* The names that lead to the target.
Base == Resolved(TargetPath)

\* Names that begin with those.
Below(names) ==
    /\ names \in Seq(Letters) /\ names # Escaped /\ Len(Base) <= Len(names)
    /\ \A i \in 1 .. Len(Base) : names[i] = Base[i]

\* A path that leads below the target, as it is, for what is joined to it, and as it
\* goes out.
LeadsIn(path) ==
    path \in Seq(Components) /\ Below(Resolved(path)) /\ Below(Resolved(Normalized(path)))

\* The target's own path does.
LEMMA BaseIs ==
    /\ TargetPath \in Seq(Components) /\ Normalized(TargetPath) = TargetPath
    /\ Base \in Seq(Letters) /\ Base # Escaped /\ Chained(Base)
    /\ Len(Base) \in Nat \ {0} /\ Base[Len(Base)] = Target
  <1>1. /\ TargetPath \in Seq(ToSet(TargetPath)) /\ Normalized(TargetPath) = TargetPath
        /\ NodeAt(TargetPath) = Target
    BY PathsAssumption
  <1>2. TargetPath \in Seq(Components)
    <2>1. ToSet(TargetPath) \subseteq Components
      BY DEF Components
    <2> QED
      BY <1>1, <2>1, SeqMonotonic
  <1>3. Base \in Seq(Letters)
    <2>1. Base \in Seq(Components \cup {".."}) /\ Components \cup {".."} \subseteq Letters
      BY <1>2, ResolvedIs DEF Base, Letters
    <2> QED
      BY <2>1, SeqMonotonic
  <1>4. NodeOf(Base) = Target /\ Target \in Nodes \ {Share}
    BY <1>1, OutsideIsNoNode DEF NodeAt, Base
  <1>5. Base # Escaped /\ Chained(Base) /\ Base # <<>> /\ Last(Base) = Target
    BY <1>4, NodeOfChain
  <1>6. Len(Base) \in Nat \ {0} /\ Base[Len(Base)] = Target
    BY <1>3, <1>5 DEF Last
  <1> QED
    BY <1>1, <1>2, <1>3, <1>5, <1>6

LEMMA TargetLeads == LeadsIn(TargetPath)
  <1>1. Below(Base)
    BY BaseIs DEF Below
  <1> QED
    BY <1>1, BaseIs DEF LeadsIn, Base

\* What there is below the target is under it: every name but the target's is that of
\* a node in the one before it.
LEMMA BelowIsUnder ==
    ASSUME NEW names, Below(names), NodeOf(names) \in Nodes
    PROVE  NodeOf(names) \in Under(Target)
  <1> DEFINE n == Len(names)
             m == Len(Base)
             astray == {i \in m .. n : names[i] \notin Under(Target)}
  <1>1. /\ names \in Seq(Letters) /\ n \in Nat /\ m \in Nat \ {0} /\ m <= n
        /\ names[m] = Target
    BY BaseIs DEF Below
  <1>2. Chained(names) /\ names # <<>> /\ NodeOf(names) = names[n]
    <2>1. Chained(names) /\ NodeOf(names) = IF names = <<>> THEN Share ELSE Last(names)
      BY NodeOfChain
    <2>2. names # <<>>
      BY <1>1
    <2> QED
      BY <2>1, <2>2 DEF Last
  <1>3. astray = {}
    <2> SUFFICES ASSUME astray # {} PROVE FALSE
      OBVIOUS
    <2>1. PICK k \in astray : \A j \in astray : k <= j
      <3>1. astray \in SUBSET Nat
        BY <1>1
      <3> QED
        BY <3>1, Least
    <2>2. k \in m .. n /\ names[k] \notin Under(Target)
      BY <2>1
    <2>3. k # m
      BY <1>1, <2>2, UnderItself
    <2>4. k \in 1 .. n /\ k # 1 /\ k - 1 \in m .. n /\ ~(k <= k - 1)
      BY <1>1, <2>2, <2>3
    <2>5. names[k - 1] \in Under(Target)
      BY <2>1, <2>4
    <2>6. names[k] \in Nodes \ {Share} /\ Parent[names[k]] = names[k - 1]
      BY <1>2, <2>4 DEF Chained
    <2> HIDE DEF astray
    <2>7. names[k] \in Under(Target)
      BY <2>5, <2>6, UnderWithin DEF Within
    <2> QED
      BY <2>2, <2>7
  <1>4. n \in m .. n
    BY <1>1
  <1> QED
    BY <1>2, <1>3, <1>4

\* One component more that does not climb.
LEMMA BelowOne ==
    ASSUME NEW names, Below(names), NEW component \in Letters \ {".."}
    PROVE  Below(Entered(names, component))
  <1>1. CASE component \in {"", "."}
    BY <1>1 DEF Entered, Below
  <1>2. CASE component \notin {"", "."}
    <2> DEFINE more == Append(names, component)
               n == Len(names)
    <2>1. /\ names \in Seq(Letters) /\ names # Escaped /\ n \in Nat
          /\ Len(Base) \in Nat /\ Len(Base) <= n
          /\ \A i \in 1 .. Len(Base) : names[i] = Base[i]
      BY BaseIs DEF Below
    <2>2. Entered(names, component) = more
      BY <1>2, <2>1 DEF Entered
    <2>3. /\ more \in Seq(Letters) /\ Len(more) = n + 1 /\ more[n + 1] = component
          /\ \A i \in 1 .. n : more[i] = names[i]
      BY <2>1, AppendProperties
    <2> HIDE DEF more
    <2>4. more # Escaped
      <3>1. Len(Escaped) = 1 /\ Escaped[1] = ".."
        BY DEF Escaped
      <3> SUFFICES ASSUME more = Escaped PROVE FALSE
        OBVIOUS
      <3>2. n + 1 = 1 /\ more[1] = ".."
        BY <2>1, <2>3, <3>1
      <3> QED
        BY <2>3, <3>2
    <2>5. Len(Base) <= Len(more) /\ \A i \in 1 .. Len(Base) : more[i] = Base[i]
      <3>1. \A i \in 1 .. Len(Base) : i \in 1 .. n
        BY <2>1
      <3> QED
        BY <2>1, <2>3, <3>1
    <2> QED
      BY <2>2, <2>3, <2>4, <2>5 DEF Below
  <1> QED
    BY <1>1, <1>2

\* A sequence that is appended, but for its last and then with it.
LEMMA ConcatFront ==
    ASSUME NEW S, NEW s \in Seq(S), NEW t \in Seq(S), t # <<>>
    PROVE  /\ s \o Front(t) \in Seq(S) /\ Last(t) \in S
           /\ s \o t = Append(s \o Front(t), Last(t))
  <1>1. /\ Front(t) \in Seq(S) /\ Len(Front(t)) = Len(t) - 1 /\ Last(t) \in S
        /\ Last(t) = t[Len(t)] /\ \A i \in 1 .. Len(t) - 1 : Front(t)[i] = t[i]
    BY FrontIs
  <1> DEFINE f == Front(t)
             e == Last(t)
             a == s \o f
             b == Append(a, e)
             c == s \o t
  <1>2. /\ Len(t) \in Nat \ {0} /\ Len(s) \in Nat /\ f \in Seq(S) /\ Len(f) = Len(t) - 1
        /\ e \in S /\ e = t[Len(t)] /\ \A i \in 1 .. Len(t) - 1 : f[i] = t[i]
    BY <1>1
  <1> HIDE DEF f, e
  <1>3. /\ a \in Seq(S) /\ Len(a) = Len(s) + Len(f)
        /\ \A i \in 1 .. Len(s) + Len(f) : a[i] = IF i <= Len(s) THEN s[i] ELSE f[i - Len(s)]
    BY <1>2, ConcatProperties
  <1>4. /\ c \in Seq(S) /\ Len(c) = Len(s) + Len(t)
        /\ \A i \in 1 .. Len(s) + Len(t) : c[i] = IF i <= Len(s) THEN s[i] ELSE t[i - Len(s)]
    BY <1>2, ConcatProperties
  <1> HIDE DEF a, c
  <1>5. /\ b \in Seq(S) /\ Len(b) = Len(a) + 1 /\ b[Len(a) + 1] = e
        /\ \A i \in 1 .. Len(a) : b[i] = a[i]
    BY <1>2, <1>3, AppendProperties
  <1> HIDE DEF b
  <1>6. Len(b) = Len(c)
    BY <1>2, <1>3, <1>4, <1>5
  <1>7. ASSUME NEW i \in 1 .. Len(c) PROVE b[i] = c[i]
    <2>1. CASE i = Len(s) + Len(t)
      <3>1. c[i] = t[Len(t)] /\ b[i] = e
        BY <1>2, <1>3, <1>4, <1>5, <2>1
      <3> QED
        BY <1>2, <3>1
    <2>2. CASE i # Len(s) + Len(t)
      <3>1. i \in 1 .. Len(a) /\ i \in 1 .. Len(s) + Len(f) /\ i \in 1 .. Len(s) + Len(t)
        BY <1>2, <1>3, <1>4, <2>2
      <3>2. b[i] = a[i]
        BY <1>5, <3>1
      <3>3. CASE i <= Len(s)
        BY <1>3, <1>4, <3>1, <3>2, <3>3
      <3>4. CASE ~(i <= Len(s))
        <4>1. i - Len(s) \in 1 .. Len(t) - 1
          BY <1>2, <3>1, <3>4
        <4> QED
          BY <1>2, <1>3, <1>4, <3>1, <3>2, <3>4, <4>1
      <3> QED
        BY <3>3, <3>4
    <2> QED
      BY <2>1, <2>2
  <1>8. b = c
    BY <1>4, <1>5, <1>6, <1>7, SeqEqual
  <1> QED
    BY <1>2, <1>3, <1>8 DEF a, b, c, f, e

\* A path that does not climb, appended to one that leads below the target.
LEMMA BelowMore ==
    ASSUME NEW path \in Seq(Letters), Below(Resolved(path)),
           NEW more \in Seq(Letters \ {".."})
    PROVE  Below(Resolved(path \o more))
  <1> DEFINE S == Letters \ {".."}
             wrong == {k \in Nat : \E m \in Seq(S) : Len(m) = k /\ ~Below(Resolved(path \o m))}
  <1>1. wrong = {}
    <2> SUFFICES ASSUME wrong # {} PROVE FALSE
      OBVIOUS
    <2>1. PICK k \in wrong : \A j \in wrong : k <= j
      BY Least
    <2>2. PICK m \in Seq(S) : Len(m) = k /\ ~Below(Resolved(path \o m))
      BY <2>1
    <2>3. m # <<>>
      <3>1. path \o <<>> = path
        BY ConcatEmptySeq
      <3> QED
        BY <2>2, <3>1
    <2> DEFINE front == Front(m)
               last == Last(m)
    <2>4. /\ front \in Seq(S) /\ Len(front) = Len(m) - 1 /\ last \in S
          /\ path \o front \in Seq(Letters) /\ path \o m = Append(path \o front, last)
      <3>1. m \in Seq(Letters)
        BY <2>2, SeqMonotonic
      <3> QED
        BY <2>2, <2>3, <3>1, FrontIs, ConcatFront
    <2> HIDE DEF front, last
    <2>5. Below(Resolved(path \o front))
      <3>1. Len(front) \in Nat /\ ~(k <= Len(front))
        BY <2>2, <2>3, <2>4
      <3>2. Len(front) \notin wrong
        BY <2>1, <3>1
      <3> QED
        BY <2>4, <3>1, <3>2
    <2>6. Resolved(path \o m) = Entered(Resolved(path \o front), last)
      BY <2>4, ResolvedOne
    <2>7. Below(Resolved(path \o m))
      BY <2>4, <2>5, <2>6, BelowOne
    <2> QED
      BY <2>2, <2>7
  <1>2. Len(more) \in Nat
    OBVIOUS
  <1> QED
    BY <1>1, <1>2

LEMMA NormalizedMore ==
    ASSUME NEW S, NEW path \in Seq(S), NEW name \in S
    PROVE  Normalized(Append(path, name)) = Append(path, Trimmed(name))
  <1> DEFINE more == Append(path, name)
  <1>1. /\ more \in Seq(S) /\ more # <<>> /\ more = Append(Front(more), Last(more))
        /\ Front(more) \in Seq(S) /\ Last(more) \in S
    <2>1. more \in Seq(S) /\ more # <<>>
      BY AppendProperties
    <2> HIDE DEF more
    <2> QED
      BY <2>1, FrontIs
  <1>2. Front(more) = path /\ Last(more) = name
    BY <1>1, AppendInjective
  <1> HIDE DEF more
  <1>3. Normalized(more) = Append(path, Trimmed(name))
    BY <1>1, <1>2 DEF Normalized
  <1> QED
    BY <1>3 DEF more

LEMMA PatternIs ==
    ASSUME NEW S, NEW path \in Seq(S)
    PROVE  /\ SearchPattern(path) \in Seq(S)
           /\ path = SearchPattern(path) \/ path = Append(SearchPattern(path), "")
  <1>1. CASE path # <<>> /\ Last(path) = ""
    BY <1>1, FrontIs DEF SearchPattern
  <1>2. CASE ~(path # <<>> /\ Last(path) = "")
    BY <1>2 DEF SearchPattern
  <1> QED
    BY <1>1, <1>2

\* A separator at the end changes nothing.
LEMMA PatternResolved ==
    ASSUME NEW S, NEW path \in Seq(S)
    PROVE  Resolved(SearchPattern(path)) = Resolved(path)
  <1>1. CASE path = SearchPattern(path)
    BY <1>1
  <1>2. CASE path = Append(SearchPattern(path), "")
    <2>1. SearchPattern(path) \in Seq(S \cup {""})
      <3>1. SearchPattern(path) \in Seq(S) /\ S \subseteq S \cup {""}
        BY PatternIs
      <3> QED
        BY <3>1, SeqMonotonic
    <2>2. Resolved(path) = Entered(Resolved(SearchPattern(path)), "")
      BY <1>2, <2>1, ResolvedOne
    <2> QED
      BY <2>2 DEF Entered
  <1> QED
    BY <1>1, <1>2, PatternIs

\* The path of an entry is made of what paths are made of.
LEMMA JoinIs ==
    ASSUME NEW path \in Seq(Components), NEW name \in Nodes
    PROVE  /\ Join(path, name) \in Seq(Components)
           /\ SearchPattern(path) \in Seq(Components)
           /\ Split(name) \in Seq(Components) /\ Split(name) # <<>>
  <1>1. Split(name) \in Seq(ToSet(Split(name))) /\ Split(name) # <<>>
    BY PathsAssumption
  <1>2. Split(name) \in Seq(Components)
    <2>1. ToSet(Split(name)) \subseteq Components
      BY DEF Components
    <2> QED
      BY <1>1, <2>1, SeqMonotonic
  <1>3. SearchPattern(path) \in Seq(Components)
    BY PatternIs
  <1> QED
    BY <1>1, <1>2, <1>3, ConcatProperties DEF Join

\* As long as the name of an entry does not climb, its path leads below the target.
LEMMA JoinLeads ==
    ASSUME NEW path, LeadsIn(path), NEW name \in Nodes, ~Climbs(name)
    PROVE  LeadsIn(Join(path, name))
  <1> DEFINE pattern == SearchPattern(path)
             more == Split(name)
             front == pattern \o Front(more)
             last == Last(more)
             child == pattern \o more
             S == Letters \ {".."}
  <1>1. /\ path \in Seq(Components) /\ child \in Seq(Components)
        /\ pattern \in Seq(Components) /\ more \in Seq(Components) /\ more # <<>>
        /\ Join(path, name) = child
    BY JoinIs DEF LeadsIn, Join
  <1>2. Components \subseteq Letters
    BY DEF Letters
  <1>3. pattern \in Seq(Letters) /\ Below(Resolved(pattern))
    <2>1. Resolved(pattern) = Resolved(path)
      BY <1>1, PatternResolved
    <2>2. Below(Resolved(path))
      BY DEF LeadsIn
    <2> QED
      BY <1>1, <1>2, <2>1, <2>2, SeqMonotonic
  <1>4. ".." \notin ToSet(more) /\ Trimmed(last) # ".."
    BY DEF Climbs
  <1>5. more \in Seq(S) /\ Front(more) \in Seq(S) /\ last \in Components /\ Trimmed(last) \in S
    <2>1. \A i \in 1 .. Len(more) : more[i] \in S
      BY <1>1, <1>2, <1>4 DEF ToSet
    <2>2. more \in Seq(S)
      BY <1>1, <2>1
    <2>3. last \in Components
      BY <1>1, FrontIs
    <2>4. Trimmed(last) \in Letters
      BY <2>3 DEF Letters
    <2> QED
      BY <1>1, <1>4, <2>2, <2>3, <2>4, FrontIs
  <1>6. /\ front \in Seq(Components) /\ child = Append(front, last)
    BY <1>1, ConcatFront
  <1> HIDE DEF pattern, more, last, S
  <1>7. Below(Resolved(child)) /\ Below(Resolved(front))
    BY <1>3, <1>5, BelowMore DEF S
  <1>8. Normalized(child) = Append(front, Trimmed(last))
    BY <1>5, <1>6, NormalizedMore
  <1> HIDE DEF front, child
  <1>9. Resolved(Append(front, Trimmed(last))) = Entered(Resolved(front), Trimmed(last))
    <2>1. front \in Seq(Letters) /\ Trimmed(last) \in Letters
      BY <1>2, <1>5, <1>6, SeqMonotonic DEF S
    <2> QED
      BY <2>1, ResolvedOne
  <1>10. Below(Resolved(Normalized(child)))
    BY <1>5, <1>7, <1>8, <1>9, BelowOne DEF S
  <1> QED
    BY <1>1, <1>7, <1>10 DEF LeadsIn

\* What there is at such a path is under the target.
LEMMA LeadsUnder ==
    ASSUME NEW path, LeadsIn(path), NodeAt(path) \in Nodes
    PROVE  NodeAt(path) \in Under(Target)
  BY BelowIsUnder DEF LeadsIn, NodeAt

\* A path that is not refused leads nowhere outside.
LEMMA ValidInside ==
    ASSUME NEW S, NEW path \in Seq(S), ~InvalidPath(path)
    PROVE  NodeAt(path) # Outside
  <1> DEFINE normalized == Normalized(path)
             T == S \cup {Trimmed(Last(path))}
  <1>1. normalized \in Seq(T)
    <2>1. CASE path = <<>>
      <3>1. <<>> \in Seq(T)
        OBVIOUS
      <3> QED
        BY <2>1, <3>1 DEF Normalized
    <2>2. CASE path # <<>>
      <3>1. Front(path) \in Seq(T) /\ Trimmed(Last(path)) \in T
        BY <2>2, FrontIs
      <3>2. normalized = Append(Front(path), Trimmed(Last(path)))
        BY <2>2 DEF Normalized
      <3> QED
        BY <3>1, <3>2, AppendProperties
    <2> QED
      BY <2>1, <2>2
  <1>2. ~EscapesShareRoot(normalized)
    BY DEF InvalidPath
  <1> HIDE DEF normalized, T
  <1>3. Resolved(normalized) # Escaped /\ Resolved(normalized) \in Seq(T \cup {".."})
    BY <1>1, <1>2, StaysIn, ResolvedIs
  <1>4. NodeOf(Resolved(normalized)) # Outside
    BY <1>3, NodeOfInside
  <1> QED
    BY <1>4 DEF NodeAt, normalized

-----------------------------------------------------------------------------
(* The levels of the recursive delete. *)

\* What is at the end of a sequence takes its place.
LEMMA TopIs ==
    ASSUME NEW S, NEW s \in Seq(S), s # <<>>, NEW top \in S
    PROVE  LET t == [s EXCEPT ![Len(s)] = top]
           IN  /\ t \in Seq(S) /\ t # <<>> /\ Len(t) = Len(s) /\ t[Len(s)] = top
               /\ \A i \in 1 .. Len(s) - 1 : t[i] = s[i]
  <1> DEFINE t == [s EXCEPT ![Len(s)] = top]
             n == Len(s)
  <1>1. /\ n \in Nat \ {0} /\ DOMAIN s = 1 .. n /\ \A i \in 1 .. n : s[i] \in S
        /\ s = [i \in 1 .. n |-> s[i]]
    OBVIOUS
  <1>2. /\ t = [i \in 1 .. n |-> t[i]] /\ t[n] = top
        /\ \A i \in 1 .. n : t[i] = IF i = n THEN top ELSE s[i]
    <2>1. n \in 1 .. n
      BY <1>1
    <2>2. t = [i \in 1 .. n |-> IF i = n THEN top ELSE s[i]]
      BY <1>1, <2>1
    <2> HIDE DEF t
    <2> QED
      BY <2>1, <2>2
  <1> HIDE DEF t
  <1>3. t \in [1 .. n -> S]
    BY <1>1, <1>2
  <1>4. t \in Seq(S) /\ Len(t) = n
    BY <1>1, <1>3
  <1>5. t # <<>>
    BY <1>1, <1>4
  <1>6. \A i \in 1 .. n - 1 : t[i] = s[i]
    <2>1. \A i \in 1 .. n - 1 : i \in 1 .. n /\ i # n
      BY <1>1
    <2> QED
      BY <1>2, <2>1
  <1> QED
    BY <1>1, <1>2, <1>4, <1>5, <1>6 DEF t

\* A level, and whether the entry it is at has a name that climbs.
Level == [path : Seq(Components), entries : Seq(Nodes)]
Climber(level) == level.entries # <<>> /\ Climbs(Head(level.entries))

\* A level leads below the target as long as none of the entries it was come by does
\* climb; each but the last is at an entry.
Stacked(stack) ==
    /\ stack \in Seq(Level)
    /\ \A i \in 1 .. Len(stack) :
         (\A j \in 1 .. i - 1 : ~Climber(stack[j])) => LeadsIn(stack[i].path)
    /\ \A i \in 1 .. Len(stack) - 1 : stack[i].entries # <<>>

\* Whether what the walk deletes is the entry its last level is at.
AtEntry == op.step \notin {"list", "walk"} /\ op.kind # "remove_dir"

\* The levels are those of the walk, and what it deletes is under the target.
LevelsInv ==
    op.verb = "remove_dir_all" =>
      /\ Stacked(levels)
      /\ levels = <<>> => op.step = "done" /\ op.kind = "none"
      /\ AtEntry /\ levels # <<>> => levels[Len(levels)].entries # <<>>
      /\ op.kind \in {"none"} \cup Deletes
      /\ op.step \in {"list", "walk"} => op.kind = "none"
      /\ op.kind \in Deletes /\ op.step # "done" /\ ~Climbing /\ op.node \in Nodes =>
           op.node \in Under(Target)

\* No level of the walk is at a name that climbs.
LEMMA ClimbingIs ==
    ASSUME NEW stack \in Seq(Level), levels = stack
    PROVE  Climbing <=> \E i \in 1 .. Len(stack) : Climber(stack[i])
  <1>1. DOMAIN stack = 1 .. Len(stack)
    OBVIOUS
  <1> QED
    BY <1>1 DEF Climbing, Climber

\* A step that is none of the walk's.
LEMMA LevelsKept ==
    ASSUME LevelsInv, UNCHANGED levels, op'.verb = op.verb, op'.kind = op.kind,
           op'.node = op.node, op.step = "done" => op'.step = "done",
           op.step \in {"list", "walk"} <=> op'.step \in {"list", "walk"}
    PROVE  LevelsInv'
  BY DEF LevelsInv, AtEntry, Climbing, Stacked

\* A level more, of an entry of the last one or of none.
LEMMA StackedMore ==
    ASSUME NEW stack, Stacked(stack), NEW path \in Seq(Components),
           (\A j \in 1 .. Len(stack) : ~Climber(stack[j])) => LeadsIn(path),
           stack # <<>> => stack[Len(stack)].entries # <<>>
    PROVE  LET more == Append(stack, [path |-> path, entries |-> <<>>])
           IN  Stacked(more) /\ more # <<>>
  <1> DEFINE level == [path |-> path, entries |-> <<>>]
             more == Append(stack, level)
             n == Len(stack)
  <1>1. level \in Level /\ level.path = path
    <2>1. <<>> \in Seq(Nodes)
      OBVIOUS
    <2> QED
      BY <2>1 DEF Level
  <1> HIDE DEF level
  <1>2. /\ stack \in Seq(Level) /\ n \in Nat
        /\ more \in Seq(Level) /\ Len(more) = n + 1 /\ more[n + 1] = level
        /\ \A i \in 1 .. n : more[i] = stack[i]
    BY <1>1, AppendProperties DEF Stacked
  <1> HIDE DEF more
  <1>3. ASSUME NEW i \in 1 .. Len(more), \A j \in 1 .. i - 1 : ~Climber(more[j])
        PROVE  LeadsIn(more[i].path)
    <2>1. \A j \in 1 .. i - 1 : j \in 1 .. n
      BY <1>2
    <2>2. \A j \in 1 .. i - 1 : ~Climber(stack[j])
      BY <1>2, <1>3, <2>1
    <2>3. CASE i = n + 1
      <3>1. i - 1 = n
        BY <1>2, <2>3
      <3>2. LeadsIn(path)
        BY <2>2, <3>1
      <3> QED
        BY <1>1, <1>2, <2>3, <3>2
    <2>4. CASE i # n + 1
      <3>1. i \in 1 .. n /\ more[i] = stack[i]
        BY <1>2, <2>4
      <3> QED
        BY <2>2, <3>1 DEF Stacked
    <2> QED
      BY <2>3, <2>4
  <1>4. ASSUME NEW i \in 1 .. Len(more) - 1 PROVE more[i].entries # <<>>
    <2>1. i \in 1 .. n /\ more[i] = stack[i] /\ stack # <<>>
      BY <1>2
    <2>2. CASE i = n
      BY <2>1, <2>2
    <2>3. CASE i # n
      <3>1. i \in 1 .. n - 1
        BY <1>2, <2>1, <2>3
      <3> QED
        BY <2>1, <3>1 DEF Stacked
    <2> QED
      BY <2>2, <2>3
  <1>5. more # <<>>
    BY <1>2
  <1> QED
    BY <1>2, <1>3, <1>4, <1>5 DEF Stacked, more, level

\* The last level is at another entry.
LEMMA StackedTurn ==
    ASSUME NEW stack, Stacked(stack), stack # <<>>, NEW entries \in Seq(Nodes)
    PROVE  LET turned == [stack EXCEPT ![Len(stack)].entries = entries]
           IN  Stacked(turned) /\ turned # <<>>
  <1> DEFINE n == Len(stack)
             top == stack[n]
             new == [top EXCEPT !.entries = entries]
             turned == [stack EXCEPT ![n] = new]
  <1>1. /\ stack \in Seq(Level) /\ n \in Nat \ {0} /\ top \in Level
    <2>1. stack \in Seq(Level)
      BY DEF Stacked
    <2>2. n \in 1 .. n /\ n \in Nat \ {0}
      BY <2>1
    <2> QED
      BY <2>1, <2>2
  <1>2. [stack EXCEPT ![n].entries = entries] = turned
    OBVIOUS
  <1>3. new = [top EXCEPT !.entries = entries]
    OBVIOUS
  <1>4. \A i \in 1 .. n : (\A j \in 1 .. i - 1 : ~Climber(stack[j])) => LeadsIn(stack[i].path)
    BY DEF Stacked
  <1>5. \A i \in 1 .. n - 1 : stack[i].entries # <<>>
    BY DEF Stacked
  <1>6. top = stack[n]
    OBVIOUS
  <1> HIDE DEF top, new
  <1>7. new \in Level /\ new.path = top.path
    BY <1>1, <1>3 DEF Level
  <1>8. /\ turned \in Seq(Level) /\ turned # <<>> /\ Len(turned) = n /\ turned[n] = new
        /\ \A i \in 1 .. n - 1 : turned[i] = stack[i]
    BY <1>1, <1>7, TopIs
  <1> HIDE DEF turned
  <1>9. ASSUME NEW i \in 1 .. n, \A j \in 1 .. i - 1 : ~Climber(turned[j])
        PROVE  LeadsIn(turned[i].path)
    <2>1. \A j \in 1 .. i - 1 : j \in 1 .. n - 1
      BY <1>1
    <2>2. \A j \in 1 .. i - 1 : ~Climber(stack[j])
      BY <1>8, <1>9, <2>1
    <2>3. LeadsIn(stack[i].path)
      BY <1>4, <2>2
    <2>4. CASE i = n
      BY <1>6, <1>7, <1>8, <2>3, <2>4
    <2>5. CASE i # n
      <3>1. i \in 1 .. n - 1
        BY <1>1, <2>5
      <3> QED
        BY <1>8, <2>3, <3>1
    <2> QED
      BY <2>4, <2>5
  <1>10. Stacked(turned)
    BY <1>5, <1>8, <1>9 DEF Stacked
  <1> QED
    BY <1>2, <1>8, <1>10

\* The last level is done with.
LEMMA StackedLess ==
    ASSUME NEW stack, Stacked(stack), stack # <<>>
    PROVE  /\ Stacked(Front(stack))
           /\ Front(stack) # <<>> => Front(stack)[Len(Front(stack))].entries # <<>>
  <1> DEFINE n == Len(stack)
             less == Front(stack)
  <1>1. /\ stack \in Seq(Level) /\ n \in Nat \ {0} /\ less \in Seq(Level) /\ Len(less) = n - 1
        /\ \A i \in 1 .. n - 1 : less[i] = stack[i]
    <2>1. stack \in Seq(Level)
      BY DEF Stacked
    <2> QED
      BY <2>1, FrontIs
  <1> HIDE DEF less
  <1>2. \A i \in 1 .. n - 1 : less[i].entries # <<>>
    BY <1>1 DEF Stacked
  <1>3. \A i \in 1 .. n - 2 : less[i].entries # <<>>
    <2>1. \A i \in 1 .. n - 2 : i \in 1 .. n - 1
      BY <1>1
    <2> QED
      BY <1>2, <2>1
  <1>4. ASSUME NEW i \in 1 .. n - 1, \A j \in 1 .. i - 1 : ~Climber(less[j])
        PROVE  LeadsIn(less[i].path)
    <2>1. (\A j \in 1 .. i - 1 : j \in 1 .. n - 1) /\ i \in 1 .. n
      BY <1>1
    <2>2. \A j \in 1 .. i - 1 : ~Climber(stack[j])
      BY <1>1, <1>4, <2>1
    <2> QED
      BY <1>1, <2>1, <2>2 DEF Stacked
  <1>5. Len(less) - 1 = n - 2
    BY <1>1
  <1>6. Stacked(less)
    BY <1>1, <1>3, <1>4, <1>5 DEF Stacked
  <1>7. less # <<>> => less[Len(less)].entries # <<>>
    <2>1. less # <<>> => n - 1 \in 1 .. n - 1
      BY <1>1
    <2> QED
      BY <1>1, <1>2, <2>1
  <1> QED
    BY <1>6, <1>7 DEF less

\* Another level is entered, or its path refused.
LEMMA LevelsEntered ==
    ASSUME NEW stack, Stacked(stack), NEW path \in Seq(Components), EnterLevel(path, stack),
           (\A j \in 1 .. Len(stack) : ~Climber(stack[j])) => LeadsIn(path),
           stack # <<>> => stack[Len(stack)].entries # <<>>
    PROVE  LevelsInv'
  <1>1. CASE op' = Refusal("remove_dir_all") /\ levels' = stack
    <2>1. op'.step = "done" /\ op'.kind = "none"
      BY <1>1, RefusalIs
    <2> QED
      BY <1>1, <2>1 DEF LevelsInv, Deletes, Stacked
  <1>2. CASE /\ op' = Lister("remove_dir_all")
             /\ levels' = Append(stack, [path |-> path, entries |-> <<>>])
    <2>1. op'.step = "list" /\ op'.kind = "none"
      BY <1>2, ListsIs
    <2>2. Stacked(levels') /\ levels' # <<>>
      BY <1>2, StackedMore
    <2> QED
      BY <2>1, <2>2 DEF LevelsInv, AtEntry, Deletes, Stacked
  <1> QED
    BY <1>1, <1>2 DEF EnterLevel, Lister, Refusal

\* A level has been read.
LEMMA LevelsRead ==
    ASSUME Inv, EntriesInv, LevelsInv, LevelRead
    PROVE  LevelsInv'
  <1>1. /\ op.verb = "remove_dir_all" /\ listing.state = "closed"
        /\ levels' = [levels EXCEPT ![Len(levels)].entries = listed]
        /\ op' = [op EXCEPT !.step = "walk"] /\ IsOp(op)
    BY DEF LevelRead, Inv, OpInv
  <1>2. op.step = "list"
    BY <1>1, GoneIs DEF Inv, ListingInv
  <1>3. Stacked(levels) /\ levels # <<>> /\ op.kind = "none"
    BY <1>1, <1>2 DEF LevelsInv
  <1>4. listed \in Seq(Nodes)
    BY DEF EntriesInv
  <1>5. Stacked(levels') /\ levels' # <<>>
    BY <1>1, <1>3, <1>4, StackedTurn
  <1>6. op'.step = "walk" /\ op'.kind = "none"
    BY <1>1, <1>3, SetStep
  <1> QED
    BY <1>5, <1>6 DEF LevelsInv, AtEntry, Deletes, Stacked

\* A delete of the walk begins.
LEMMA LevelsDelete ==
    ASSUME NEW kind \in Deletes, NEW path,
           op' = Begin("remove_dir_all", kind, path, <<>>, NoFid),
           UNCHANGED levels, Stacked(levels), levels # <<>>,
           kind = "remove_file" => levels[Len(levels)].entries # <<>>,
           ~Climbing => LeadsIn(path)
    PROVE  LevelsInv'
  <1>1. kind \in Kinds
    BY DEF Deletes, Kinds
  <1>2. /\ op'.kind = kind
        /\ op'.step = "done" \/ (op'.step = Head(Program[kind]) /\ op'.node = NodeAt(path))
    BY <1>1, BeginIs
  <1>3. Head(Program[kind]) \notin {"none", "list", "walk", "done", "data"}
    BY <1>1, FirstStep
  <1>4. op'.step \notin {"list", "walk"} /\ (op'.step # "done" => op'.node = NodeAt(path))
    BY <1>2, <1>3
  <1>5. op'.step # "done" /\ ~Climbing /\ op'.node \in Nodes => op'.node \in Under(Target)
    BY <1>4, LeadsUnder
  <1>6. Climbing' = Climbing
    BY DEF Climbing
  <1>7. Stacked(levels') /\ levels' # <<>>
    OBVIOUS
  <1>8. op'.kind # "remove_dir" => levels'[Len(levels')].entries # <<>>
    BY <1>2 DEF Deletes
  <1> QED
    BY <1>2, <1>4, <1>5, <1>6, <1>7, <1>8 DEF LevelsInv, AtEntry, Stacked

\* The last level of the walk, and the path of the entry it is at.
LEMMA LastLevel ==
    ASSUME Stacked(levels), levels # <<>>
    PROVE  LET top == levels[Len(levels)]
               child == Join(top.path, Head(top.entries))
           IN  /\ top.path \in Seq(Components) /\ top.entries \in Seq(Nodes)
               /\ top.entries # <<>> =>
                    Head(top.entries) \in Nodes /\ child \in Seq(Components)
               /\ ~Climbing => /\ LeadsIn(top.path)
                               /\ top.entries # <<>> => LeadsIn(child)
  <1> DEFINE n == Len(levels)
             top == levels[n]
             name == Head(top.entries)
  <1>1. levels \in Seq(Level) /\ n \in 1 .. n
    <2>1. levels \in Seq(Level)
      BY DEF Stacked
    <2> QED
      BY <2>1
  <1>2. top.path \in Seq(Components) /\ top.entries \in Seq(Nodes)
    <2>1. top \in Level
      BY <1>1
    <2> HIDE DEF top
    <2> QED
      BY <2>1 DEF Level
  <1>3. top.entries # <<>> => name \in Nodes
    <2> HIDE DEF top
    <2> QED
      BY <1>2, HeadTailProperties
  <1>4. ASSUME ~Climbing
        PROVE  LeadsIn(top.path) /\ ~Climber(top)
    <2>1. \A i \in 1 .. n : ~Climber(levels[i])
      BY <1>1, <1>4, ClimbingIs
    <2>2. \A j \in 1 .. n - 1 : j \in 1 .. n
      BY <1>1
    <2> QED
      BY <1>1, <2>1, <2>2 DEF Stacked
  <1> HIDE DEF top
  <1>5. top.entries # <<>> => Join(top.path, name) \in Seq(Components)
    BY <1>2, <1>3, JoinIs
  <1>6. ~Climbing /\ top.entries # <<>> => LeadsIn(Join(top.path, name))
    BY <1>3, <1>4, JoinLeads DEF Climber
  <1> QED
    BY <1>2, <1>3, <1>4, <1>5, <1>6 DEF top

\* The walk goes on: an entry, or the directory itself.
LEMMA LevelsWalk ==
    ASSUME Inv, LevelsInv, Walk
    PROVE  LevelsInv'
  <1> DEFINE top == levels[Len(levels)]
             child == Join(top.path, Head(top.entries))
  <1>1. op.step = "walk" /\ op.verb = "remove_dir_all"
    BY DEF Walk, Inv, OpInv
  <1>2. Stacked(levels) /\ levels # <<>>
    BY <1>1 DEF LevelsInv
  <1>3. /\ top.entries # <<>> => child \in Seq(Components)
        /\ ~Climbing => LeadsIn(top.path) /\ (top.entries # <<>> => LeadsIn(child))
    BY <1>2, LastLevel
  <1>4. (\A j \in 1 .. Len(levels) : ~Climber(levels[j])) => ~Climbing
    BY <1>2, ClimbingIs DEF Stacked
  <1>5. \/ top.entries # <<>> /\ EnterLevel(child, levels)
        \/ /\ top.entries # <<>> /\ UNCHANGED levels
           /\ op' = Begin("remove_dir_all", "remove_file", child, <<>>, NoFid)
        \/ /\ top.entries = <<>> /\ UNCHANGED levels
           /\ op' = Begin("remove_dir_all", "remove_dir", top.path, <<>>, NoFid)
    BY DEF Walk
  <1>6. top = levels[Len(levels)]
    OBVIOUS
  <1> HIDE DEF top, child
  <1>7. CASE top.entries # <<>> /\ EnterLevel(child, levels)
    BY <1>2, <1>3, <1>4, <1>6, <1>7, LevelsEntered
  <1>8. CASE /\ top.entries # <<>> /\ UNCHANGED levels
             /\ op' = Begin("remove_dir_all", "remove_file", child, <<>>, NoFid)
    BY <1>2, <1>3, <1>6, <1>8, LevelsDelete DEF Deletes
  <1>9. CASE /\ top.entries = <<>> /\ UNCHANGED levels
             /\ op' = Begin("remove_dir_all", "remove_dir", top.path, <<>>, NoFid)
    BY <1>2, <1>3, <1>9, LevelsDelete DEF Deletes
  <1> QED
    BY <1>5, <1>7, <1>8, <1>9

\* A delete of the walk returns.
LEMMA LevelsRemoved ==
    ASSUME Inv, LevelsInv, Removed
    PROVE  LevelsInv'
  <1>1. op.verb = "remove_dir_all" /\ op.step = "done" /\ IsOp(op)
    BY DEF Removed, Inv, OpInv
  <1>2. /\ Stacked(levels)
        /\ levels = <<>> => op.kind = "none"
        /\ op.kind # "remove_dir" /\ levels # <<>> => levels[Len(levels)].entries # <<>>
    BY <1>1 DEF LevelsInv, AtEntry
  <1> DEFINE left == IF op.kind = "remove_dir" THEN Front(levels) ELSE levels
             entries == Tail(left[Len(left)].entries)
  <1>3. \/ /\ left # <<>> /\ levels' = [left EXCEPT ![Len(left)].entries = entries]
           /\ op' = [op EXCEPT !.kind = "none", !.step = "walk", !.result = "none"]
        \/ op' = Idle
    BY DEF Removed
  <1>4. Stacked(left) /\ (left # <<>> => left[Len(left)].entries # <<>>)
    <2>1. CASE op.kind = "remove_dir"
      <3>1. levels # <<>> /\ left = Front(levels)
        BY <1>2, <2>1
      <3> HIDE DEF left
      <3> QED
        BY <1>2, <3>1, StackedLess
    <2>2. CASE op.kind # "remove_dir"
      BY <1>2, <2>2
    <2> QED
      BY <2>1, <2>2
  <1> HIDE DEF left
  <1>5. CASE op' = Idle
    BY <1>5, IdleIs DEF LevelsInv
  <1>6. CASE /\ left # <<>> /\ levels' = [left EXCEPT ![Len(left)].entries = entries]
             /\ op' = [op EXCEPT !.kind = "none", !.step = "walk", !.result = "none"]
    <2>1. entries \in Seq(Nodes)
      <3>1. left \in Seq(Level) /\ Len(left) \in 1 .. Len(left)
        BY <1>4, <1>6 DEF Stacked
      <3>2. left[Len(left)] \in Level
        BY <3>1
      <3>3. left[Len(left)].entries \in Seq(Nodes)
        BY <3>2 DEF Level
      <3> QED
        BY <1>4, <1>6, <3>3, HeadTailProperties
    <2> HIDE DEF entries
    <2>2. Stacked(levels') /\ levels' # <<>>
      BY <1>4, <1>6, <2>1, StackedTurn
    <2> DEFINE p1 == [op EXCEPT !.kind = "none"]
               p2 == [p1 EXCEPT !.step = "walk"]
    <2>3. op' = [p2 EXCEPT !.result = "none"]
      BY <1>6
    <2>4. p2 = [p1 EXCEPT !.step = "walk"]
      OBVIOUS
    <2>5. IsOp(p1) /\ p1.kind = "none"
      BY <1>1, SetKind
    <2> HIDE DEF p1, p2
    <2>6. IsOp(p2) /\ p2.kind = "none" /\ p2.step = "walk"
      BY <2>4, <2>5, SetStep
    <2>7. op'.kind = "none" /\ op'.step = "walk"
      BY <2>3, <2>6, SetResult
    <2> QED
      BY <2>2, <2>7 DEF LevelsInv, AtEntry, Deletes, Stacked
  <1> QED
    BY <1>3, <1>5, <1>6

\* What a reply, or none, makes of the verb.
LEMMA Answered ==
    ASSUME Inv, Reply \/ Lapse
    PROVE  /\ op'.kind = op.kind /\ op'.node = op.node /\ op'.verb = op.verb /\ op'.to = op.to
           /\ op.step \in Requests /\ op'.step \notin {"list", "walk"}
  <1>1. op.step \in Requests /\ UNCHANGED <<closes, file, inherited>>
    BY DEF Reply, Lapse
  <1>2. PICK error, fid : error # "ok" /\ op' = Continue(op, error, fid)
    BY Statuses, Failures DEF Reply, Lapse
  <1>3. \A step \in StepsOf(op.kind) : step \notin {"list", "walk"}
    BY DEF StepsOf
  <1> QED
    BY <1>1, <1>2, <1>3, ContinueOp

\* A verb that begins.
LEMMA BeginsInside ==
    ASSUME NEW verb, NEW kind \in Kinds, NEW fid, NEW S, NEW path \in Seq(S),
           NEW T, NEW to \in Seq(T), NEW q, q = Begin(verb, kind, path, to, fid)
    PROVE  Outside \notin {q.node, q.to} /\ q.verb = verb /\ IsOp(q)
  <1>1. \/ q.node = Share /\ q.to = Share
        \/ /\ ~InvalidPath(path) /\ ~InvalidPath(to)
           /\ q.node = NodeAt(path) /\ q.to = NodeAt(to)
    BY BeginIs
  <1>2. q.verb = verb /\ IsOp(q)
    BY BeginIs
  <1> QED
    BY <1>1, <1>2, ValidInside, OutsideIsNoNode

LEMMA CallBegins ==
    ASSUME Call
    PROVE  op'.verb # "remove_dir_all" /\ Outside \notin {op'.node, op'.to}
  <1>1. PICK kind \in DOMAIN Program, path \in Paths \cup {<<>>}, to \in Paths \cup {<<>>} :
          \E disposition :
            op' = [Begin(kind, kind, path, to, file) EXCEPT !.disposition = disposition]
    <2>1. PICK kind \in DOMAIN Program :
            \E path \in IF kind \in Pathless THEN {<<>>} ELSE Paths :
              \E disposition \in Dispositions(kind),
                 to \in IF kind = "rename" THEN Paths ELSE {<<>>} :
                op' = [Begin(kind, kind, path, to, file) EXCEPT !.disposition = disposition]
      BY DEF Call
    <2>2. PICK path \in IF kind \in Pathless THEN {<<>>} ELSE Paths :
            \E disposition \in Dispositions(kind),
               to \in IF kind = "rename" THEN Paths ELSE {<<>>} :
              op' = [Begin(kind, kind, path, to, file) EXCEPT !.disposition = disposition]
      BY <2>1
    <2>3. PICK disposition \in Dispositions(kind),
               to \in IF kind = "rename" THEN Paths ELSE {<<>>} :
            op' = [Begin(kind, kind, path, to, file) EXCEPT !.disposition = disposition]
      BY <2>2
    <2> QED
      BY <2>3
  <1> DEFINE b == Begin(kind, kind, path, to, file)
  <1>2. kind \in Kinds /\ kind # "remove_dir_all"
    BY Programs DEF Kinds
  <1>3. path \in Seq(ToSet(path)) /\ to \in Seq(ToSet(to))
    <2>1. \A S : <<>> \in Seq(S)
      OBVIOUS
    <2>2. \A p \in Paths : p \in Seq(ToSet(p))
      BY PathsAssumption
    <2> QED
      BY <2>1, <2>2
  <1>4. Outside \notin {b.node, b.to} /\ b.verb = kind /\ IsOp(b)
    BY <1>2, <1>3, BeginsInside
  <1>5. PICK disposition : op' = [b EXCEPT !.disposition = disposition]
    BY <1>1
  <1> HIDE DEF b
  <1>6. op'.verb = kind /\ op'.node = b.node /\ op'.to = b.to
    BY <1>4, <1>5, SetDisposition
  <1> QED
    BY <1>2, <1>4, <1>6

LEMMA ReadsDir ==
    ASSUME ReadDir
    PROVE  op'.verb # "remove_dir_all" /\ Outside \notin {op'.node, op'.to}
  <1>1. CASE op' = Ended([Idle EXCEPT !.verb = "read_dir"], "InvalidPath")
    <2> DEFINE p == [Idle EXCEPT !.verb = "read_dir"]
    <2>1. IsOp(p) /\ p.verb = "read_dir" /\ p.node = Share /\ p.to = Share
      BY IdleIs, SetVerb
    <2>2. op' = Ended(p, "InvalidPath")
      BY <1>1
    <2> HIDE DEF p
    <2>3. op'.verb = "read_dir" /\ op'.node = Share /\ op'.to = Share
      BY <2>1, <2>2, EndedIs
    <2> QED
      BY <2>3, OutsideIsNoNode
  <1>2. CASE op' = Lister("read_dir")
    <2>1. op'.verb = "read_dir" /\ op'.node = Share /\ op'.to = Share
      BY <1>2, ListsIs
    <2> QED
      BY <2>1, OutsideIsNoNode
  <1> QED
    BY <1>1, <1>2 DEF ReadDir, Lister

LEMMA LevelsStep ==
    ASSUME Inv, EntriesInv, LevelsInv, [Next]_vars
    PROVE  LevelsInv'
  <1>1. ASSUME op'.verb # "remove_dir_all" PROVE LevelsInv'
    BY <1>1 DEF LevelsInv
  <1>2. CASE Call \/ ReadDir
    BY <1>1, <1>2, CallBegins, ReadsDir
  <1>3. CASE Cancel \/ Return \/ LetGo \/ LevelFails
    BY <1>1, <1>3, IdleIs DEF Cancel, Return, LetGo, LevelFails
  <1>4. CASE Reply \/ Lapse
    <2>1. levels' = levels
      BY <1>4 DEF Reply, Lapse
    <2>2. op.step \notin {"done", "list", "walk"}
      BY <1>4, Answered DEF Requests
    <2>3. op'.step \notin {"list", "walk"}
      BY <1>4, Answered
    <2> QED
      BY <1>4, <2>1, <2>2, <2>3, Answered, LevelsKept
  <1>5. CASE UNCHANGED <<op, levels>>
    BY <1>5, LevelsKept
  <1>6. CASE DropFile \/ SendHandleClose \/ OtherActs \/ OtherCloses \/ UNCHANGED vars
    BY <1>5, <1>6 DEF DropFile, SendHandleClose, OtherActs, OtherCloses, vars, treeVars
  <1>7. CASE RemoveDirAll
    <2>1. EnterLevel(TargetPath, <<>>)
      BY <1>7 DEF RemoveDirAll
    <2>2. Stacked(<<>>)
      <3>1. <<>> \in Seq(Level) /\ 1 .. Len(<<>>) = {} /\ 1 .. Len(<<>>) - 1 = {}
        OBVIOUS
      <3> QED
        BY <3>1 DEF Stacked
    <2> QED
      BY <2>1, <2>2, BaseIs, TargetLeads, LevelsEntered
  <1>8. CASE Walk \/ LevelRead \/ Removed
    BY <1>8, LevelsWalk, LevelsRead, LevelsRemoved
  <1>9. CASE \/ Listed(FindFirst) \/ Listed(NextEntry) \/ Listed(NextIsNone)
             \/ Listed(NextRound) \/ Listed(FindNext(OnFailure)) \/ Listed(SendFindClose)
             \/ Listed(OtherSearch) \/ Listed(LoseReply(OnFailure))
             \/ Listed((op.verb = "read_dir" \/ listing.state = "drained") /\ CloseListing)
    BY <1>5, <1>9 DEF Listed
  <1> QED
    BY <1>2, <1>3, <1>4, <1>6, <1>7, <1>8, <1>9 DEF Next

-----------------------------------------------------------------------------
(* Every request is for what is inside. *)

AimInv == Outside \notin {op.node, op.to}

LEMMA WalkAims ==
    ASSUME Inv, LevelsInv, Walk
    PROVE  AimInv'
  <1> DEFINE top == levels[Len(levels)]
             child == Join(top.path, Head(top.entries))
  <1>1. op.step = "walk" /\ op.verb = "remove_dir_all"
    BY DEF Walk, Inv, OpInv
  <1>2. /\ top.path \in Seq(Components)
        /\ top.entries # <<>> => child \in Seq(Components)
    <2>1. Stacked(levels) /\ levels # <<>>
      BY <1>1 DEF LevelsInv
    <2> QED
      BY <2>1, LastLevel
  <1>3. CASE op' = Lister("remove_dir_all") \/ op' = Refusal("remove_dir_all")
    <2>1. op'.node = Share /\ op'.to = Share
      BY <1>3, ListsIs, RefusalIs
    <2> QED
      BY <2>1, OutsideIsNoNode DEF AimInv
  <1>4. ASSUME NEW path \in Seq(Components), NEW kind \in Deletes,
               op' = Begin("remove_dir_all", kind, path, <<>>, NoFid)
        PROVE  AimInv'
    <2>1. <<>> \in Seq(Components) /\ kind \in Kinds
      BY DEF Deletes, Kinds
    <2> QED
      BY <1>4, <2>1, BeginsInside DEF AimInv
  <1>5. \/ op' = Lister("remove_dir_all") \/ op' = Refusal("remove_dir_all")
        \/ /\ top.entries # <<>>
           /\ op' = Begin("remove_dir_all", "remove_file", child, <<>>, NoFid)
        \/ op' = Begin("remove_dir_all", "remove_dir", top.path, <<>>, NoFid)
    BY DEF Walk, EnterLevel, Lister, Refusal
  <1> HIDE DEF top, child
  <1> QED
    BY <1>2, <1>3, <1>4, <1>5 DEF Deletes

LEMMA AimStep ==
    ASSUME Inv, LevelsInv, AimInv, [Next]_vars
    PROVE  AimInv'
  <1>1. CASE op'.node = op.node /\ op'.to = op.to
    BY <1>1 DEF AimInv
  <1>2. CASE op' = Idle
    BY <1>2, IdleIs, OutsideIsNoNode DEF AimInv
  <1>3. CASE Call \/ ReadDir
    BY <1>3, CallBegins, ReadsDir DEF AimInv
  <1>4. CASE Reply \/ Lapse
    BY <1>1, <1>4, Answered
  <1>5. CASE Walk
    BY <1>5, WalkAims
  <1>6. CASE RemoveDirAll
    <2>1. op' = Lister("remove_dir_all") \/ op' = Refusal("remove_dir_all")
      BY <1>6 DEF RemoveDirAll, EnterLevel, Lister, Refusal
    <2>2. op'.node = Share /\ op'.to = Share
      BY <2>1, ListsIs, RefusalIs
    <2> QED
      BY <2>2, OutsideIsNoNode DEF AimInv
  <1>7. CASE LevelRead
    <2>1. op' = [op EXCEPT !.step = "walk"] /\ IsOp(op)
      BY <1>7 DEF LevelRead, Inv, OpInv
    <2> QED
      BY <1>1, <2>1, SetStep
  <1>8. CASE Removed
    <2>1. CASE op' = [op EXCEPT !.kind = "none", !.step = "walk", !.result = "none"]
      <3> DEFINE p1 == [op EXCEPT !.kind = "none"]
                 p2 == [p1 EXCEPT !.step = "walk"]
      <3>1. op' = [p2 EXCEPT !.result = "none"]
        BY <2>1
      <3>2. p2 = [p1 EXCEPT !.step = "walk"]
        OBVIOUS
      <3>3. IsOp(p1) /\ p1.node = op.node /\ p1.to = op.to
        BY SetKind DEF Inv, OpInv
      <3> HIDE DEF p1, p2
      <3>4. IsOp(p2) /\ p2.node = op.node /\ p2.to = op.to
        BY <3>2, <3>3, SetStep
      <3>5. op'.node = op.node /\ op'.to = op.to
        BY <3>1, <3>4, SetResult
      <3> QED
        BY <1>1, <3>5
    <2> QED
      BY <1>2, <1>8, <2>1 DEF Removed
  <1>9. CASE Cancel \/ Return \/ LetGo \/ LevelFails
    BY <1>2, <1>9 DEF Cancel, Return, LetGo, LevelFails
  <1>10. CASE \/ DropFile \/ SendHandleClose \/ OtherActs \/ OtherCloses \/ UNCHANGED vars
    BY <1>1, <1>10 DEF DropFile, SendHandleClose, OtherActs, OtherCloses, vars, treeVars
  <1>11. CASE \/ Listed(FindFirst) \/ Listed(NextEntry) \/ Listed(NextIsNone)
              \/ Listed(NextRound) \/ Listed(FindNext(OnFailure)) \/ Listed(SendFindClose)
              \/ Listed(OtherSearch)
              \/ Listed(LoseReply(OnFailure))
              \/ Listed((op.verb = "read_dir" \/ listing.state = "drained") /\ CloseListing)
    BY <1>1, <1>11 DEF Listed
  <1> QED
    BY <1>3, <1>4, <1>5, <1>6, <1>7, <1>8, <1>9, <1>10, <1>11 DEF Next

-----------------------------------------------------------------------------
(* What is unlinked. *)

LEMMA UnlinksUnder ==
    ASSUME Inv, NodesInv, LevelsInv, op.verb = "remove_dir_all", ~Climbing,
           op.step \in Requests, ~disconnected, NEW fid, Serve(fid)
    PROVE  \A n \in touched' \ touched : n \in Under(Target)
  <1>1. CASE op.step # "close"
    BY <1>1 DEF Serve
  <1>2. CASE op.step = "close"
    <2>1. CloseHandle(op.fid) /\ Holds(op) /\ op.kind \in Kinds
      BY <1>2, Requesting DEF Serve
    <2>2. op.kind \in Deletes
      BY <2>1 DEF LevelsInv, Kinds
    <2>3. handles[op.fid].node = op.node /\ op.node \in Nodes
      BY <2>1, <2>2, HeldIsThere DEF NodesInv
    <2>4. op.node \in Under(Target)
      BY <1>2, <2>2, <2>3 DEF LevelsInv
    <2>5. touched' \subseteq touched \cup {op.node}
      BY <2>1, <2>3 DEF CloseHandle
    <2> QED
      BY <2>4, <2>5
  <1> QED
    BY <1>1, <1>2

LEMMA TouchesUnder ==
    ASSUME Inv, NodesInv, LevelsInv, [Next]_vars, op.verb = "remove_dir_all", ~Climbing
    PROVE  \A n \in touched' \ touched : n \in Under(Target)
  <1>1. CASE touched' = touched
    BY <1>1
  <1>2. CASE Reply \/ Lapse \/ Cancel
    <2>1. op.step \in Requests
      BY <1>2 DEF Reply, Lapse, Cancel
    <2>2. touched' = touched \/ (~disconnected /\ \E fid : Serve(fid))
      BY <1>2 DEF Reply, Lapse, Cancel, NotServed
    <2> QED
      BY <1>1, <2>1, <2>2, UnlinksUnder
  <1>3. CASE SendHandleClose
    <2> DEFINE c == Head(closes)
    <2>1. /\ closes # <<>> /\ c.kind = "handle"
          /\ IF disconnected THEN touched' = touched ELSE CloseHandle(c.id)
      BY <1>3 DEF SendHandleClose, NotServed
    <2>2. c \in Closings /\ c \in Queued
      BY <2>1, SentSet DEF Inv, QueueInv, Queued
    <2> HIDE DEF c
    <2>3. c.id \in Fids /\ c = HandleClose(c.id)
      BY <2>1, <2>2, Closing
    <2>4. ~disconnected => Plain(c.id)
      BY <2>2, <2>3 DEF Inv, HandlesInv
    <2>5. touched' = touched
      BY <2>1, <2>3, <2>4, Closed DEF Plain
    <2> QED
      BY <1>1, <2>5
  <1>4. CASE Call \/ Return \/ LetGo \/ Removed \/ DropFile \/ ReadDir \/ UNCHANGED vars
    BY <1>1, <1>4 DEF Call, Return, LetGo, Removed, DropFile, ReadDir, vars, treeVars
  <1>5. CASE \/ RemoveDirAll \/ LevelRead \/ Walk \/ LevelFails \/ OtherActs \/ OtherCloses
    BY <1>1, <1>5 DEF RemoveDirAll, LevelRead, Walk, LevelFails, OtherActs, OtherCloses
  <1>6. CASE \/ Listed(FindFirst) \/ Listed(NextEntry) \/ Listed(NextIsNone)
             \/ Listed(NextRound) \/ Listed(FindNext(OnFailure)) \/ Listed(SendFindClose)
             \/ Listed(OtherSearch)
             \/ Listed(LoseReply(OnFailure))
             \/ Listed((op.verb = "read_dir" \/ listing.state = "drained") /\ CloseListing)
    BY <1>1, <1>6 DEF Listed
  <1> QED
    BY <1>2, <1>3, <1>4, <1>5, <1>6 DEF Next

\* src/src/tree.rs:389 and src/src/unc.rs:353: whatever is in the listings, whatever their
\* names are taken apart into and whatever another client does, the recursive delete
\* unlinks what is under the directory it was given and nothing else as long as it is at
\* no entry with `..` among the components of its name; and no verb at all sends a path
\* that leaves the share.
THEOREM StaysUnder == Spec => StaysInside
  <1> DEFINE Inside == /\ op.verb = "remove_dir_all" /\ ~Climbing =>
                            \A n \in touched' \ touched : n \in Under(Target)
                       /\ Outside \notin {op'.node, op'.to}
             All == Inv /\ NodesInv /\ EntriesInv /\ LevelsInv /\ AimInv
  <1>1. Init => LevelsInv /\ AimInv
    <2>1. Init => op = Idle
      BY DEF Init
    <2> QED
      BY <2>1, IdleIs, OutsideIsNoNode DEF LevelsInv, AimInv
  <1>2. All /\ [Next]_vars => LevelsInv' /\ AimInv'
    BY LevelsStep, AimStep
  <1>3. All /\ [Next]_vars => Inside
    BY TouchesUnder, AimStep DEF AimInv
  <1>4. Spec => []All
    BY <1>1, <1>2, EntriesAre, NodesAreReal, Invariance, PTL DEF Spec
  <1>5. Spec => [][Inside]_vars
    BY <1>3, <1>4, PTL DEF Spec
  <1> QED
    BY <1>5 DEF StaysInside
=============================================================================
