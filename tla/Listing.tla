------------------------------ MODULE Listing ------------------------------
(***************************************************************************)
(* ReadDir (src/src/resource/listing.rs) and the search it owns on the      *)
(* server.  The server's directory is a fixed set of nodes, some of which   *)
(* exist; another client creates and removes nodes while a search is open,  *)
(* and other searches come and go under ids the server reuses.             *)
(***************************************************************************)
EXTENDS FindPage, FiniteSets

CONSTANTS
    Nodes,        \* every file and directory there can be
    Share,        \* the root of the share, a directory
    Parent,       \* the directory of each node but the root
    Dirs,         \* the nodes that are directories
    Target,       \* the directory the caller works on
    Batch,        \* the most entries a page carries
    Sids,         \* the ids of searches
    Interference  \* how often the other client acts

NoSid == 0  \* where there is no search

ASSUME TreeAssumption ==
    /\ IsFiniteSet(Nodes) /\ Nodes \cap {"", ".", ".."} = {}
    /\ Share \in Dirs /\ Dirs \subseteq Nodes /\ Target \in Dirs \ {Share}
    /\ Parent \in [Nodes \ {Share} -> Dirs]
    /\ Batch \in Nat \ {0} /\ Interference \in Nat /\ NoSid \notin Sids

VARIABLES
    exists,    \* the nodes that exist
    searches,  \* the searches the server holds, by id
    listing,   \* the client's ReadDir
    closes,    \* what Drop has handed to the actor, searches and handles to close
    acts,      \* what the other client has left to do
    disconnected, \* whether the server has discarded the tree, and said so
    \* History.
    present,   \* the entries there have been ever since the search began
    listed,    \* the entries the listing has returned, in order
    unread,    \* those of its pages that the caller was not given, the call ending in
               \* an error or not at all
    lost,      \* whether the client missed what became of its search: a call
               \* lapsed or was dropped, or the last page could not be read
    strayed    \* whether a FIND_CLOSE2 closed a search of someone else's

listVars == <<exists, searches, listing, closes, acts, disconnected, present,
              listed, unread, lost, strayed>>

Children(dir) == {n \in exists : n # Share /\ Parent[n] = dir}

NoSearch == [owner |-> "nobody", dir |-> Share, returned |-> {}]
Gone == [state |-> "none", dir |-> Share, sid |-> NoSid, finished |-> FALSE,
         page |-> <<>>]

ListingInit ==
    /\ exists \in {set \in SUBSET Nodes :
                     Share \in set /\ \A n \in set \ {Share} : Parent[n] \in set}
    /\ searches = [s \in Sids |-> NoSearch]
    /\ listing = Gone /\ closes = <<>>
    /\ acts = Interference /\ disconnected = FALSE
    /\ present = {} /\ listed = <<>> /\ unread = {} /\ lost = FALSE /\ strayed = FALSE

-----------------------------------------------------------------------------
(* The server. *)

\* A search returns each entry once, the two dot entries among them.
Left(search) == (Children(search.dir) \cup {".", ".."}) \ search.returned

\* The pages there may be of a search: some of what is left and, with nothing
\* left after it, the end of the search with the page or without.
Pages(search) ==
    {[status |-> "SUCCESS", names |-> names, end |-> end] :
       names \in {set \in SUBSET Left(search) :
                    set # {} /\ Cardinality(set) <= Batch}, end \in BOOLEAN}

Deleted == [status |-> "NETWORK_NAME_DELETED", names |-> {}, end |-> TRUE]

\* Once the tree is discarded nothing on it is answered any other way.
ServerReplies(search) ==
    IF disconnected THEN {Deleted}
    ELSE {page \in Pages(search) : page.end => page.names = Left(search)}
           \cup (IF Left(search) = {}
                 THEN {[status |-> "SUCCESS", names |-> {}, end |-> TRUE],
                       [status |-> "NO_MORE_FILES", names |-> {}, end |-> TRUE]}
                 ELSE {})
           \cup {[status |-> "SUCCESS", names |-> {}, end |-> FALSE],
                 [status |-> "REFUSED", names |-> {}, end |-> FALSE], Deleted}

\* The listing's searches go with the tree.
Discarded == [s \in Sids |-> IF searches[s].owner = "listing" THEN NoSearch
                             ELSE searches[s]]

\* SMB_FIND_CLOSE_AT_EOS: the reply that ends a search also closes it.
SearchAfter(search, reply) ==
    IF reply.end THEN NoSearch ELSE [search EXCEPT !.returned = @ \cup reply.names]

\* The two ways a block ends, two paddings, and blocks the walk refuses.
Blocks(reply) ==
    LET names == SetToSeq(reply.names)
    IN  {[data |-> Block(names, pad, ending), count |-> Len(names)] :
           pad \in {0, 1}, ending \in {"zero", "end"}}
        \cup {[data |-> [Block(names, 0, "zero") EXCEPT !.length = @ - 1],
               count |-> Len(names)] : n \in {1} \cap {Len(names)}}
        \cup {[data |-> Block(names, 0, "end"), count |-> Len(names) + 1]}

-----------------------------------------------------------------------------
(* page_in. *)

\* `.` and `..` are filtered here, above the no-progress guard.
Kept(names) ==
    LET kept[i \in 0 .. Len(names)] ==
          IF i = 0 THEN <<>>
          ELSE IF names[i] \in {".", ".."} THEN kept[i - 1]
          ELSE Append(kept[i - 1], names[i])
    IN  kept[Len(names)]

\* A page that the walk refuses.
Unreadable(reply, block) ==
    reply.status = "SUCCESS" /\ WalkEntries(block.data, block.count).error # "none"

\* What a reply makes of the listing; an error leaves it in the state `failed`.  The
\* id is taken before the entries are walked, so that a page that cannot be read is
\* of a search that can be closed, and continued.
PagedIn(l, reply, block, sid, failed) ==
    LET found == WalkEntries(block.data, block.count)
    IN  CASE reply.status = "NO_MORE_FILES" -> [l EXCEPT !.finished = TRUE]
          [] reply.status \notin {"SUCCESS", "NO_MORE_FILES"} ->
               [l EXCEPT !.state = failed]
          [] Unreadable(reply, block) -> [l EXCEPT !.sid = sid, !.state = failed]
          [] OTHER -> [l EXCEPT !.sid = sid, !.page = @ \o Kept(found.names),
                                !.finished = reply.end,
                                !.state = IF ~reply.end /\ found.names = <<>>
                                          THEN failed ELSE @]

\* ReadDir::start, as far as its request.
StartListing(dir) ==
    /\ listing' = [Gone EXCEPT !.state = "first", !.dir = dir]
    /\ listed' = <<>> /\ unread' = {} /\ present' = {}

\* A reply to a FIND under an id: page_in, and TreeInner::refused for a status
\* that says the tree is gone.
FindReply(search, sid, failed) ==
    \E reply \in ServerReplies(search) : \E block \in Blocks(reply) :
      /\ listing' = PagedIn([listing EXCEPT !.state = "held"], reply, block, sid, failed)
      /\ searches' = IF reply = Deleted THEN Discarded
                     ELSE IF sid = listing.sid \/ reply.status = "SUCCESS"
                     THEN [searches EXCEPT ![sid] = SearchAfter(search, reply)]
                     ELSE searches
      /\ disconnected' = (disconnected \/ reply = Deleted)
      /\ unread' = IF Unreadable(reply, block) THEN unread \cup reply.names ELSE unread
      /\ lost' = (lost \/ (reply.end /\ Unreadable(reply, block)))

\* TRANS2_FIND_FIRST2 is answered.  A search the server does not end stays open; an
\* error is the end of the ReadDir.
FindFirst ==
    /\ listing.state = "first"
    /\ \/ /\ listing.dir \in exists \cap Dirs
          /\ present' = Children(listing.dir)
          /\ \E sid \in {s \in Sids : searches[s] = NoSearch} :
               FindReply([owner |-> "listing", dir |-> listing.dir, returned |-> {}],
                         sid, "error")
       \/ /\ listing.dir \notin exists \cap Dirs
          /\ listing' = [listing EXCEPT !.state = "error"]
          /\ UNCHANGED <<searches, present, disconnected, unread, lost>>
    /\ UNCHANGED <<exists, closes, acts, listed, strayed>>

\* next_entry: an entry of the page in hand,
NextEntry ==
    /\ listing.state = "held" /\ listing.page # <<>>
    /\ listed' = Append(listed, Head(listing.page))
    /\ listing' = [listing EXCEPT !.page = Tail(@)]
    /\ UNCHANGED <<disconnected, exists, searches, closes, acts, present, unread, lost,
                   strayed>>

\* A mutant of NextIsNone: a page of dot entries alone ends the listing.
NextIsNoneEarly ==
    /\ listing.state = "held" /\ listing.page = <<>>
    /\ listing' = [listing EXCEPT !.state = "drained"]
    /\ UNCHANGED <<disconnected, exists, searches, closes, acts, present, listed, unread,
                   lost, strayed>>

\* the end of the listing,
NextIsNone ==
    /\ listing.state = "held" /\ listing.page = <<>>
    /\ listing.finished \/ listing.sid = NoSid
    /\ listing' = [listing EXCEPT !.state = "drained"]
    /\ UNCHANGED <<disconnected, exists, searches, closes, acts, present, listed, unread,
                   lost, strayed>>

\* or another round, TRANS2_FIND_NEXT2 with the id and the pattern again.  A
\* search that is not ours to continue is answered with an error.  An error leaves
\* the ReadDir to a caller that holds it, who may call next_entry again.
NextRound ==
    /\ listing.state = "held" /\ listing.page = <<>>
    /\ ~listing.finished /\ listing.sid # NoSid
    /\ listing' = [listing EXCEPT !.state = "next"]
    /\ UNCHANGED <<disconnected, exists, searches, closes, acts, present, listed, unread,
                   lost, strayed>>

FindNext(failed) ==
    /\ listing.state = "next"
    /\ \/ /\ searches[listing.sid].owner = "listing" \/ disconnected
          /\ FindReply(searches[listing.sid], listing.sid, failed)
       \/ /\ searches[listing.sid].owner # "listing" /\ ~disconnected
          /\ listing' = [listing EXCEPT !.state = failed]
          /\ UNCHANGED <<searches, disconnected, unread, lost>>
    /\ UNCHANGED <<exists, closes, acts, present, listed, strayed>>

\* The request lapses, or its future is dropped, with the server having worked
\* on it or not.  The listing, if the caller still has it, is as it was.
LoseReply(failed) ==
    /\ listing.state \in {"first", "next"}
    /\ \/ UNCHANGED <<searches, unread>>
       \/ /\ listing.state = "next" /\ searches[listing.sid].owner = "listing"
          /\ \E reply \in ServerReplies(searches[listing.sid]) :
               /\ searches' = [searches EXCEPT ![listing.sid] =
                                 SearchAfter(searches[listing.sid], reply)]
               /\ unread' = unread \cup reply.names
       \/ /\ listing.state = "first" /\ listing.dir \in exists \cap Dirs
          /\ \E sid \in {s \in Sids : searches[s] = NoSearch} :
               searches' = [searches EXCEPT ![sid] =
                 [owner |-> "listing", dir |-> listing.dir, returned |-> {}]]
          /\ UNCHANGED unread
    /\ listing' = [listing EXCEPT !.state = IF listing.state = "first" THEN "error"
                                            ELSE failed]
    /\ lost' = TRUE
    /\ UNCHANGED <<disconnected, exists, closes, acts, present, listed, strayed>>

-----------------------------------------------------------------------------
(* Releasing the search. *)

\* A mutant of Owed: a listing at its end closes its search like any other.
OwedAlways(l) == IF l.sid = NoSid THEN <<>> ELSE <<[kind |-> "search", id |-> l.sid]>>

\* What a listing that goes still owes the server: nothing once the search has
\* ended, by either terminator.
Owed(l) == IF l.sid = NoSid \/ l.finished THEN <<>>
           ELSE <<[kind |-> "search", id |-> l.sid]>>

\* Drop for ReadDir, and what is left of the record.
DropListing ==
    /\ closes' = closes \o Owed(listing)
    /\ listing' = Gone

\* The server closes a search by its id, whoever's it is by now, and refuses
\* when the tree is gone.
FindClose(sid) ==
    IF disconnected THEN UNCHANGED <<searches, strayed>>
    ELSE /\ searches' = [searches EXCEPT ![sid] = NoSearch]
         /\ strayed' = (strayed \/ searches[sid].owner = "other")

\* ReadDir::close: awaited, and closed whatever the answer is.
CloseListing ==
    /\ listing.state \in {"held", "drained", "error"}
    /\ IF Owed(listing) = <<>> THEN UNCHANGED <<searches, strayed>>
       ELSE FindClose(listing.sid)
    /\ listing' = [Gone EXCEPT !.state = "closed"]
    /\ UNCHANGED <<disconnected, exists, closes, acts, present, listed, unread, lost>>

\* The actor sends a FIND_CLOSE2 that was queued.
SendFindClose ==
    /\ closes # <<>> /\ Head(closes).kind = "search"
    /\ FindClose(Head(closes).id)
    /\ closes' = Tail(closes)
    /\ UNCHANGED <<disconnected, exists, listing, acts, present, listed, unread, lost>>

\* Someone else starts a search, under an id that is free.
OtherSearch ==
    /\ acts > 0 /\ acts' = acts - 1
    /\ \E s \in {s \in Sids : searches[s] = NoSearch} :
         searches' = [searches EXCEPT ![s] = [NoSearch EXCEPT !.owner = "other"]]
    /\ UNCHANGED <<disconnected, exists, present, listing, closes, listed, unread, lost,
                   strayed>>

-----------------------------------------------------------------------------
(* Properties. *)

\* listing.rs:137 and find.rs:301: a listing that reaches its end has returned, once
\* each, every entry there was from beginning to end, whatever the pages were cut
\* into and however often a call of it failed or was dropped on the way: what is
\* missing was on a page the caller was not given.
ListsAll ==
    listing.state = "drained" =>
      /\ present \subseteq ToSet(listed) \cup unread
      /\ Len(listed) = Cardinality(ToSet(listed))
=============================================================================
