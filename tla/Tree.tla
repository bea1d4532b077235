-------------------------------- MODULE Tree --------------------------------
(***************************************************************************)
(* The verbs of a Tree (src/src/tree.rs), each a short program of requests, *)
(* on a share that another client changes and holds files open on.  A       *)
(* caller runs one verb at a time.  The recursive delete drives the listing *)
(* of module Listing level by level.                                        *)
(***************************************************************************)
EXTENDS Listing, SharePath, Errors

CONSTANTS
    Paths,  \* the paths the caller hands in
    TargetPath, \* the path of Target
    Fids,   \* the ids of open files
    Calls   \* how many verbs the caller runs, those on a File it has apart

NoFid == 0  \* where there is no File

ASSUME CallsAssumption ==
    Calls \in Nat /\ NoFid \notin Fids

VARIABLES
    op,       \* the verb in progress
    levels,   \* the recursive delete's stack: paths of directories and their entries
    file,     \* the File the caller holds, by fid
    handles,  \* the files the server has open for this tree, by fid
    held,     \* the nodes the other client has open
    doomed,   \* the nodes that go when their last handle closes
    calls,    \* the verbs left to run
    \* History.
    touched,  \* the nodes unlinked by this client
    inherited \* what was still to be closed when the recursive delete began

treeVars == <<op, levels, file, handles, held, doomed, calls, touched, inherited>>
vars == <<listVars, treeVars>>

NoHandle == [node |-> Share, deletes |-> FALSE]
Idle == [verb |-> "none", kind |-> "none", node |-> Share, to |-> Share,
         disposition |-> "FILE_OPEN", step |-> "none", fid |-> NoFid,
         failed |-> "none", result |-> "none"]

Init ==
    /\ ListingInit
    /\ op = Idle /\ levels = <<>> /\ file = NoFid
    /\ handles = [f \in Fids |-> NoHandle]
    /\ held = {} /\ doomed = {} /\ calls = Calls
    /\ touched = {} /\ inherited = {}

OpenFids == {f \in Fids : handles[f] # NoHandle}

Requests == {"create", "close", "data", "basic", "standard", "rename", "set",
             "length", "size", "allocation"}

-----------------------------------------------------------------------------
(* The programs. *)

\* The requests of each verb, in order, when they succeed.  A read or a write of
\* a whole file is one data request here: its chunks are ReadSpan's and WriteSpan's.
CreateAndx == <<"create">>
DeleteOnClose == CreateAndx \o <<"close">>
QueryPath == <<"basic", "standard">>
Program ==
    [open |-> CreateAndx, create_dir |-> CreateAndx \o <<"close">>,
     remove_file |-> DeleteOnClose, remove_dir |-> DeleteOnClose \o QueryPath,
     metadata |-> QueryPath, exists |-> QueryPath,
     read |-> CreateAndx \o <<"data", "close">>,
     write |-> CreateAndx \o <<"data", "close">>,
     rename |-> <<"rename">>, set_path |-> <<"set">>, set_len |-> <<"length">>,
     statistics |-> <<"size", "allocation">>, close_file |-> <<"close">>]

Deletes == {"remove_file", "remove_dir"}

\* OpenOptions, as far as they decide what an open may find and leave.
Options == [create_new : BOOLEAN, create : BOOLEAN, truncate : BOOLEAN]

CreateDisposition(options) ==
    CASE options.create_new -> "FILE_CREATE"
      [] ~options.create_new /\ options.create ->
           IF options.truncate THEN "FILE_OVERWRITE_IF" ELSE "FILE_OPEN_IF"
      [] OTHER -> IF options.truncate THEN "FILE_OVERWRITE" ELSE "FILE_OPEN"

\* open takes the caller's options; write creates or truncates, and create_dir
\* overwrites nothing.
Dispositions(kind) ==
    CASE kind = "open" -> {CreateDisposition(options) : options \in Options}
      [] kind = "write" -> {"FILE_OVERWRITE_IF"}
      [] kind = "create_dir" -> {"FILE_CREATE"}
      [] OTHER -> {"FILE_OPEN"}

\* The request a program makes after one of its own, or none.
NextStep(kind, step) ==
    LET steps == Program[kind]
        i == CHOOSE i \in 1 .. Len(steps) : steps[i] = step
    IN  IF i = Len(steps) THEN "none" ELSE steps[i + 1]

NotFound(error) == Kind(error) = "NotFound"

Ended(o, result) == [o EXCEPT !.step = "done", !.result = result]

\* A mutant of Continue: remove_dir takes its delete's word for it.
ContinueTrusting(o, error, fid) ==
    LET next == NextStep(o.kind, o.step)
    IN  CASE error # "SUCCESS" -> Ended(o, error)
          [] o.kind = "remove_dir" /\ o.step = "close" -> Ended(o, "ok")
          [] OTHER -> IF next = "none" THEN Ended([o EXCEPT !.fid = fid], "ok")
                      ELSE [o EXCEPT !.step = next, !.fid = fid]

\* What a reply makes of a program.  A read or a write that fails is still
\* closed, and its own error is the one reported.  remove_dir looks again, and
\* statistics falls back on any error.
Continue(o, error, fid) ==
    LET next == NextStep(o.kind, o.step)
        opened == [o EXCEPT !.fid = fid]
        onward == IF next = "none" THEN Ended(opened, "ok")
                  ELSE [opened EXCEPT !.step = next]
    IN  CASE o.step = "data" /\ error # "SUCCESS" ->
               [o EXCEPT !.step = "close", !.failed = error]
          [] o.step = "close" /\ o.failed # "none" -> Ended(o, o.failed)
          [] o.step = "size" -> IF error = "SUCCESS" THEN Ended(o, "ok") ELSE onward
          [] o.step = "allocation" /\ error # "SUCCESS" -> Ended(o, "BothAttemptsFailed")
          [] o.kind \in {"remove_dir", "exists"} /\ o.step \in {"basic", "standard"}
               /\ NotFound(error) -> Ended(o, "ok")
          [] o.kind = "remove_dir" /\ o.step = "standard" /\ error = "SUCCESS" ->
               Ended(o, "DIRECTORY_NOT_EMPTY")
          [] OTHER -> IF error = "SUCCESS" THEN onward ELSE Ended(o, error)

-----------------------------------------------------------------------------
(* The server's answers. *)

\* Whether a create finds what it asks for.
CreateStatus(o) ==
    CASE o.node \notin exists /\ o.disposition \in {"FILE_OPEN", "FILE_OVERWRITE"} ->
           "OBJECT_NAME_NOT_FOUND"
      [] o.node \notin exists /\ o.disposition \notin {"FILE_OPEN", "FILE_OVERWRITE"} ->
           IF /\ o.node \in Nodes /\ Parent[o.node] \in exists \ doomed
              /\ o.node \in Dirs <=> o.kind = "create_dir"
           THEN "SUCCESS" ELSE "OBJECT_PATH_NOT_FOUND"
      [] o.node \in exists /\ o.disposition = "FILE_CREATE" -> "OBJECT_NAME_COLLISION"
      [] o.node \in doomed -> "DELETE_PENDING"
      [] o.kind = "remove_dir" /\ o.node \notin Dirs -> "NOT_A_DIRECTORY"
      [] o.kind # "remove_dir" /\ o.node \in Dirs -> "FILE_IS_A_DIRECTORY"
      [] OTHER -> "SUCCESS"

PathStatus(node) ==
    CASE node \notin exists -> "OBJECT_NAME_NOT_FOUND"
      [] node \in doomed -> "DELETE_PENDING"
      [] OTHER -> "SUCCESS"

\* A rename overwrites nothing, and the model's nodes are renamed empty.
RenameStatus(node, to) ==
    CASE PathStatus(node) # "SUCCESS" -> PathStatus(node)
      [] to \in exists -> "OBJECT_NAME_COLLISION"
      [] to \notin Nodes \/ Parent[to] \notin exists \ doomed -> "OBJECT_PATH_NOT_FOUND"
      [] Children(node) # {} \/ node \in held -> "SHARING_VIOLATION"
      [] OTHER -> "SUCCESS"

\* What the server would answer the request in progress with, when it serves it.
StatusOf(o) ==
    CASE o.step = "create" -> CreateStatus(o)
      [] o.step \in {"basic", "standard", "set"} -> PathStatus(o.node)
      [] o.step = "rename" -> RenameStatus(o.node, o.to)
      [] OTHER -> "SUCCESS"

\* Which status says that there is nothing there depends on the server.
Spellings(status) == IF status \in NotFoundStatuses THEN NotFoundStatuses ELSE {status}

\* A close unlinks what its handle was opened to delete.  A directory that is
\* not empty stays, and the close succeeds all the same; a node the other client
\* has open is doomed.
CloseHandle(f) ==
    LET h == handles[f]
        goes == h.deletes /\ h.node \in exists /\ Children(h.node) = {}
        now == goes /\ h.node \notin held
    IN  /\ handles' = [handles EXCEPT ![f] = NoHandle]
        /\ exists' = IF now THEN exists \ {h.node} ELSE exists
        /\ present' = IF now THEN present \ {h.node} ELSE present
        /\ doomed' = IF goes /\ ~now THEN doomed \cup {h.node} ELSE doomed
        /\ touched' = IF goes THEN touched \cup {h.node} ELSE touched

\* The ids a create may be given.
Assignable == IF op.step = "create" THEN Fids \ OpenFids ELSE {op.fid}

\* The request in progress takes effect; `fid` is what a create assigns.
Serve(fid) ==
    CASE op.step = "create" ->
           /\ handles' = [handles EXCEPT ![fid] =
                            [node |-> op.node, deletes |-> op.kind \in Deletes]]
           /\ exists' = exists \cup {op.node}
           /\ UNCHANGED <<present, doomed, touched>>
      [] op.step = "close" -> CloseHandle(op.fid)
      [] op.step = "rename" ->
           /\ exists' = (exists \ {op.node}) \cup {op.to}
           /\ present' = present \ {op.node}
           /\ UNCHANGED <<handles, doomed, touched>>
      [] OTHER -> UNCHANGED <<handles, exists, present, doomed, touched>>

NotServed == UNCHANGED <<handles, exists, present, doomed, touched>>

-----------------------------------------------------------------------------
(* The caller and the verbs. *)

\* Where a path leads on the server: out of the share, to a node, or nowhere.
Outside == "outside"
Nowhere == "nowhere"

\* The server takes the components one by one; what has left the share stays out.
Escaped == <<"..">>
Entered(names, component) ==
    IF component \in {"", "."} \/ names = Escaped THEN names
    ELSE IF component # ".." THEN Append(names, component)
    ELSE IF names = <<>> THEN Escaped ELSE Front(names)

Resolved(components) ==
    LET names[i \in 0 .. Len(components)] ==
          IF i = 0 THEN <<>> ELSE Entered(names[i - 1], components[i])
    IN  names[Len(components)]

\* The node that is there, each name being that of a node in the one before it.
NodeOf(names) ==
    IF names = Escaped THEN Outside
    ELSE IF \A i \in 1 .. Len(names) :
              /\ names[i] \in Nodes \ {Share}
              /\ Parent[names[i]] = IF i = 1 THEN Share ELSE names[i - 1]
    THEN IF names = <<>> THEN Share ELSE Last(names)
    ELSE Nowhere

NodeAt(path) == NodeOf(Resolved(Normalized(path)))
DirAt(path) == NodeOf(Resolved(SearchPattern(Normalized(path))))

\* The caller's paths are sequences of components, and Target is where its path leads,
\* which is checked and trimmed before the recursive delete begins.  A node may have a
\* name that is no component, since it carries a separator: no path leads there.
ASSUME PathsAssumption ==
    /\ Nodes \cap {Outside, Nowhere, NullByte} = {}
    /\ \A path \in Paths \cup {TargetPath} \cup {Split(n) : n \in Nodes} :
         /\ path \in Seq(ToSet(path))
         /\ \A c \in ToSet(path) : Split(c) = <<c>> /\ Split(Trimmed(c)) = <<Trimmed(c)>>
    /\ \A n \in Nodes : Split(n) # <<>>
    /\ Normalized(TargetPath) = TargetPath /\ NodeAt(TargetPath) = Target

\* A program begins: its path, and a rename's other one, is checked and the first
\* request goes out.
Begin(verb, kind, path, to, fid) ==
    LET begun == [Idle EXCEPT !.verb = verb, !.kind = kind, !.fid = fid]
    IN  IF InvalidPath(path) \/ InvalidPath(to) THEN Ended(begun, "InvalidPath")
        ELSE [begun EXCEPT !.node = NodeAt(path), !.to = NodeAt(to),
                           !.step = Head(Program[kind])]

\* A verb other than a listing and the recursive delete.  Those on a File or on
\* the share have no path.
Pathless == {"set_len", "close_file", "statistics"}

Call ==
    /\ op = Idle
    /\ \E kind \in DOMAIN Program : \E path \in IF kind \in Pathless THEN {<<>>} ELSE Paths :
         /\ IF kind \in {"set_len", "close_file"} THEN file # NoFid /\ calls' = calls
            ELSE calls > 0 /\ calls' = calls - 1
         /\ kind = "open" => file = NoFid
         /\ \E disposition \in Dispositions(kind), to \in IF kind = "rename" THEN Paths ELSE {<<>>} :
              /\ op' = [Begin(kind, kind, path, to, file) EXCEPT !.disposition = disposition]
              /\ op'.step = "rename" => (op'.node \in Dirs <=> op'.to \in Dirs)
    /\ file' = IF op'.kind = "close_file" THEN NoFid ELSE file
    /\ UNCHANGED <<listVars, levels, handles, held, doomed, touched, inherited>>

\* The server answers.  It may refuse anything but the close of a handle it
\* has, and say that the tree is gone, which TreeInner::refused records.
Reply ==
    /\ op.step \in Requests
    /\ \/ /\ ~disconnected
          /\ \E fid \in Assignable :
               \E status \in Spellings(StatusOf(op)) :
                 /\ op' = Continue(op, Refused(status), fid)
                 /\ IF status = "SUCCESS" THEN Serve(fid) ELSE NotServed
          /\ UNCHANGED <<searches, disconnected>>
       \/ /\ ~disconnected /\ op.step # "close"
          /\ op' = Continue(op, Refused("ACCESS_DENIED"), op.fid)
          /\ NotServed /\ UNCHANGED <<searches, disconnected>>
       \/ /\ op' = Continue(op, Refused("NETWORK_NAME_DELETED"), op.fid)
          /\ disconnected' = TRUE /\ searches' = Discarded
          /\ handles' = [f \in Fids |-> NoHandle]
          /\ UNCHANGED <<exists, present, doomed, touched>>
    /\ UNCHANGED <<listing, closes, acts, listed, unread, lost, strayed, levels, file,
                   held, calls, inherited>>

\* The request lapses, served or not, or its answer cannot be read.
Lapse ==
    /\ op.step \in Requests
    /\ \/ NotServed
       \/ /\ ~disconnected /\ StatusOf(op) = "SUCCESS"
          /\ \E fid \in Assignable : Serve(fid)
    /\ \E failure \in {"Timeout", "Wire"} :
         op' = Continue(op, FromConnection(failure), op.fid)
    /\ lost' = TRUE
    /\ UNCHANGED <<searches, listing, closes, acts, disconnected, listed, unread, strayed,
                   levels, file, held, calls, inherited>>

\* What the future of a verb owns that is closed when it is dropped: the File of
\* a read or a write.  The fid of a delete or a create_dir is a bare number.
Abandoned(o) ==
    IF o.step = "data" THEN <<[kind |-> "handle", id |-> o.fid]>> ELSE <<>>

\* The caller drops the future of a verb that is at a request.
Cancel ==
    /\ op.step \in Requests
    /\ \/ NotServed
       \/ /\ ~disconnected /\ StatusOf(op) = "SUCCESS"
          /\ \E fid \in Assignable : Serve(fid)
    /\ closes' = closes \o Abandoned(op)
    /\ op' = Idle /\ levels' = <<>>
    /\ lost' = (lost \/ op.step \in {"create", "close"})
    /\ UNCHANGED <<searches, listing, acts, disconnected, listed, unread, strayed, file,
                   held, calls, inherited>>

\* A verb returns; open's File is the caller's.
Return ==
    /\ op.step = "done" /\ op.verb # "remove_dir_all"
    /\ file' = IF op.verb = "open" /\ op.result = "ok" THEN op.fid ELSE file
    /\ op' = Idle
    /\ UNCHANGED <<listVars, levels, handles, held, doomed, calls, touched, inherited>>

\* Drop for File.
DropFile ==
    /\ op = Idle /\ file # NoFid
    /\ closes' = Append(closes, [kind |-> "handle", id |-> file])
    /\ file' = NoFid
    /\ UNCHANGED <<searches, listing, exists, acts, disconnected, present, listed, unread,
                   lost, strayed, op, levels, handles, held, doomed, calls, touched,
                   inherited>>

SendHandleClose ==
    /\ closes # <<>> /\ Head(closes).kind = "handle"
    /\ IF disconnected THEN NotServed ELSE CloseHandle(Head(closes).id)
    /\ closes' = Tail(closes)
    /\ UNCHANGED <<searches, listing, acts, disconnected, listed, unread, lost, strayed,
                   op, levels, file, held, calls, inherited>>

-----------------------------------------------------------------------------
(* read_dir, and the caller's use of the ReadDir. *)

\* What a failed call of next_entry leaves of a listing: the caller of read_dir has it
\* still, the walk of remove_dir_all returns the error.
OnFailure == IF op.verb = "read_dir" THEN "held" ELSE "error"

\* An answer that says the tree is gone takes the handles with it.
Listed(A) ==
    /\ A
    /\ handles' = IF disconnected' THEN [f \in Fids |-> NoHandle] ELSE handles
    /\ UNCHANGED <<op, levels, file, held, doomed, calls, touched, inherited>>

ReadDir ==
    /\ op = Idle /\ calls > 0 /\ calls' = calls - 1
    /\ \E path \in Paths :
         \/ /\ InvalidPath(path)
            /\ op' = Ended([Idle EXCEPT !.verb = "read_dir"], "InvalidPath")
            /\ UNCHANGED <<listing, listed, unread, present>>
         \/ /\ ~InvalidPath(path) /\ DirAt(path) \in Dirs
            /\ StartListing(DirAt(path))
            /\ op' = [Idle EXCEPT !.verb = "read_dir", !.step = "list"]
    /\ UNCHANGED <<exists, searches, closes, acts, disconnected, lost, strayed, levels,
                   file, handles, held, doomed, touched, inherited>>

\* The caller is done with the ReadDir, at whatever point, or its start failed.
LetGo ==
    /\ op.verb = "read_dir"
    /\ \/ /\ listing.state \in {"held", "drained", "error"}
          /\ DropListing
       \/ listing.state = "closed" /\ listing' = Gone /\ UNCHANGED closes
    /\ op' = Idle
    /\ UNCHANGED <<exists, searches, acts, disconnected, present, listed, unread, lost,
                   strayed, levels, file, handles, held, doomed, calls, touched, inherited>>

-----------------------------------------------------------------------------
(* remove_dir_all. *)

\* remove_level: the level is read before anything on it is touched.  Its path is
\* checked again by read_dir.
EnterLevel(path, under) ==
    \/ /\ InvalidPath(path)
       /\ op' = Ended([Idle EXCEPT !.verb = "remove_dir_all"], "InvalidPath")
       /\ levels' = under /\ UNCHANGED <<listing, listed, unread, present>>
    \/ /\ ~InvalidPath(path)
       /\ levels' = Append(under, [path |-> path, entries |-> <<>>])
       /\ StartListing(DirAt(path))
       /\ op' = [Idle EXCEPT !.verb = "remove_dir_all", !.step = "list"]

RemoveDirAll ==
    /\ op = Idle /\ calls > 0 /\ calls' = calls - 1
    /\ EnterLevel(TargetPath, <<>>)
    /\ inherited' = ToSet(closes)
    /\ UNCHANGED <<exists, searches, closes, acts, disconnected, lost, strayed, file,
                   handles, held, doomed, touched>>

\* A mutant of LevelRead: the search is closed behind the walk's back.
LevelReadDropping ==
    /\ op.verb = "remove_dir_all" /\ listing.state \in {"held", "drained"}
    /\ listing.page = <<>>
    /\ DropListing
    /\ levels' = [levels EXCEPT ![Len(levels)].entries = listed]
    /\ op' = [op EXCEPT !.step = "walk"]
    /\ UNCHANGED <<exists, searches, acts, disconnected, present, listed, unread, lost,
                   strayed, file, handles, held, doomed, calls, touched, inherited>>

\* The listing was drained and its close awaited.
LevelRead ==
    /\ op.verb = "remove_dir_all" /\ listing.state = "closed"
    /\ listing' = Gone
    /\ levels' = [levels EXCEPT ![Len(levels)].entries = listed]
    /\ op' = [op EXCEPT !.step = "walk"]
    /\ UNCHANGED <<exists, searches, closes, acts, disconnected, present, listed, unread,
                   lost, strayed, file, handles, held, doomed, calls, touched, inherited>>

\* DirEntry::is_dir.
IsDir(name) == name \in Dirs \cup {".", ".."}

\* The next entry of the level: a directory is a level of its own, anything
\* else is removed; after the last one the directory itself.  An entry heads its
\* level for as long as it is worked on.
Walk ==
    /\ op.step = "walk"
    /\ LET top == levels[Len(levels)]
           child == Join(top.path, Head(top.entries))
       IN  \/ /\ top.entries # <<>> /\ IsDir(Head(top.entries))
              /\ EnterLevel(child, levels)
           \/ /\ top.entries # <<>> /\ ~IsDir(Head(top.entries))
              /\ op' = Begin("remove_dir_all", "remove_file", child, <<>>, NoFid)
              /\ UNCHANGED <<levels, listing, listed, unread, present>>
           \/ /\ top.entries = <<>>
              /\ op' = Begin("remove_dir_all", "remove_dir", top.path, <<>>, NoFid)
              /\ UNCHANGED <<levels, listing, listed, unread, present>>
    /\ UNCHANGED <<exists, searches, closes, acts, disconnected, lost, strayed, file,
                   handles, held, doomed, calls, touched, inherited>>

\* A delete of the walk returns, and with it what the level above was at.  The first
\* error is the error of the whole.
Removed ==
    /\ op.verb = "remove_dir_all" /\ op.step = "done"
    /\ LET left == IF op.kind = "remove_dir" THEN Front(levels) ELSE levels
       IN  IF op.result = "ok" /\ left # <<>>
           THEN /\ levels' = [left EXCEPT ![Len(left)].entries = Tail(@)]
                /\ op' = [op EXCEPT !.kind = "none", !.step = "walk", !.result = "none"]
           ELSE levels' = <<>> /\ op' = Idle
    /\ UNCHANGED <<listVars, file, handles, held, doomed, calls, touched, inherited>>

\* The listing of a level fails, or the future is dropped while it is read: the
\* ReadDir goes with the walk.
LevelFails ==
    /\ op.verb = "remove_dir_all" /\ listing.state \in {"held", "drained", "error"}
    /\ DropListing
    /\ op' = Idle /\ levels' = <<>>
    /\ UNCHANGED <<exists, searches, acts, disconnected, present, listed, unread, lost,
                   strayed, file, handles, held, doomed, calls, touched, inherited>>

-----------------------------------------------------------------------------
(* The other client. *)

OtherActs ==
    /\ acts > 0 /\ acts' = acts - 1
    /\ \/ \E n \in Nodes \ exists :
            /\ Parent[n] \in exists \ doomed
            /\ exists' = exists \cup {n} /\ UNCHANGED <<present, held>>
       \/ \E n \in exists \ ({Share} \cup held \cup {handles[f].node : f \in Fids}) :
            /\ Children(n) = {}
            /\ exists' = exists \ {n} /\ present' = present \ {n} /\ UNCHANGED held
       \/ \E n \in exists \ (held \cup doomed \cup {Share}) :
            held' = held \cup {n} /\ UNCHANGED <<exists, present>>
    /\ UNCHANGED <<searches, listing, closes, disconnected, listed, unread, lost, strayed,
                   op, levels, file, handles, doomed, calls, touched, inherited>>

\* It lets go of a node, which goes if it was doomed.
OtherCloses ==
    /\ \E n \in held :
         /\ held' = held \ {n} /\ doomed' = doomed \ {n}
         /\ exists' = IF n \in doomed THEN exists \ {n} ELSE exists
         /\ present' = IF n \in doomed THEN present \ {n} ELSE present
    /\ UNCHANGED <<searches, listing, closes, acts, disconnected, listed, unread, lost,
                   strayed, op, levels, file, handles, calls, touched, inherited>>

-----------------------------------------------------------------------------
Next ==
    \/ Call \/ Reply \/ Lapse \/ Cancel \/ Return \/ DropFile \/ SendHandleClose
    \/ ReadDir \/ LetGo
    \/ RemoveDirAll \/ LevelRead \/ Walk \/ Removed \/ LevelFails
    \/ Listed(FindFirst) \/ Listed(NextEntry) \/ Listed(NextIsNone) \/ Listed(NextRound)
    \/ Listed(FindNext(OnFailure)) \/ Listed(SendFindClose) \/ Listed(OtherSearch)
    \/ Listed(LoseReply(OnFailure))
    \/ Listed((op.verb = "read_dir" \/ listing.state = "drained") /\ CloseListing)
    \/ OtherActs \/ OtherCloses

Spec == Init /\ [][Next]_vars

-----------------------------------------------------------------------------
(* Properties. *)

\* tree.rs:376: a remove that returns Ok has removed: a directory is gone at that
\* moment with all that was in it, and a file is gone or goes with the last handle
\* another client has on it, whatever the statuses of the delete said.
RemovedMeansGone ==
    [][op' # op /\ op'.step = "done" /\ op'.result = "ok" /\ op'.kind \in Deletes =>
         \/ op'.node \notin exists'
         \/ op'.kind = "remove_file" /\ op'.node \in doomed']_vars

\* The nodes under a directory and itself: those in every set that has the directory
\* and, with a node, what is in it.
Under(dir) ==
    {n \in Nodes :
       \A set \in SUBSET Nodes :
         dir \in set /\ (\A m \in Nodes \ {Share} : Parent[m] \in set => m \in set)
           => n \in set}

\* A name that has `..` among its components, as it is or once it is trimmed.
Climbs(name) == ".." \in ToSet(Split(name)) \cup {Trimmed(Last(Split(name)))}

\* Whether the delete is at an entry of such a name, on some level.
Climbing == \E i \in DOMAIN levels : /\ levels[i].entries # <<>>
                                     /\ Climbs(Head(levels[i].entries))

\* tree.rs:389 and unc.rs:353: as long as no entry it follows has a name with `..` among
\* its components, the recursive delete unlinks what is under the directory it was
\* given and nothing else, whatever is in the listings and whatever separators and
\* white space are in the names; and no verb sends a path that leaves the share, not
\* even one that comes back.
StaysInside ==
    [][/\ op.verb = "remove_dir_all" /\ ~Climbing =>
            \A n \in touched' \ touched : n \in Under(Target)
       /\ Outside \notin {op'.node, op'.to}]_vars

\* tree.rs:389: nothing is unlinked from a directory while the walk's own search
\* of it is open.  One that an earlier verb left is queued to be closed, and was
\* when the walk began.
ClosedBeforeTouched ==
    [][op.verb = "remove_dir_all" /\ ~lost /\ op.step = "close" =>
         \A n \in touched' \ touched, s \in Sids :
           searches[s].owner = "listing" /\ searches[s].dir = Parent[n] =>
             [kind |-> "search", id |-> s] \in inherited \cap ToSet(closes)]_vars

\* listing.rs:17 and file.rs:670: with no verb running, no ReadDir and no File held
\* and the queue sent, the server holds no search and no handle of this tree's, and
\* no search of someone else's was closed, unless a reply was lost.
NothingLeftOpen ==
    ~lost =>
      /\ op = Idle /\ file = NoFid /\ closes = <<>> =>
           /\ \A s \in Sids : searches[s].owner # "listing"
           /\ OpenFids = {}
      /\ ~strayed
=============================================================================
