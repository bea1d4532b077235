# A TLA+ verification of smb1client

`smb1client` (`src/`) is an asynchronous SMB1 client in Rust. This directory
models it from the stream upward: the handshake and its authentication, the
connection actor and its request table, the reassembly of transaction replies, the
pipelined read and write loops and the adapters over them, the connection cache of
a `Client`, the filesystem verbs and directory listings of a `Tree`, and the
enumeration of shares. TLC checks the modules on small instances; TLAPS proves, for
every value of the constants, what matters most of each: the safety of the connection
actor, of the reassembly, of the connection cache, of the handshake, of the read and
write loops (and that the latter implements its contract) and of the adapters; that
what a verb removes is gone; and that verbs, listings and enumerations leave nothing
open on the server.

Paths below are relative to the repository: `actor.rs` is
`src/src/connection/actor.rs`, and so on.

## 1. Inventory

A caller goes `Client` → `Tree` → `File` or `ReadDir`. Every request any of them
makes goes through one actor task per TCP connection.

### Connection actor (`connection/actor.rs`, `connection/mod.rs`)

- State: the two channels (requests, closes), which of them have ended, the run
  of consecutive closes, the one frame being written, the silence window, and
  the request table.
- Operations: `request()` (send, wait, be dropped), `enqueue_close()` from a
  `Drop`, and one `select!` loop: take a close, take a request, write, read a
  frame, the timer.
- Hard: callers, closes, replies, deadlines and the socket interleave; what the
  top of the loop decides is used after the task was parked; replies come late,
  twice, or on ids nobody holds; the peer may stop answering or stop reading.
- Right when: capacity is never exceeded; the silence window watches exactly while a
  request charges capacity; a request's hook is applied once, when it ends, and told
  what the caller is told; every call returns; the task ends when its handles have
  gone.

### Request table (`connection/table.rs`)

- State: rows by multiplex id (on the wire, lapsed, retired), a deadline index
  beside them, the charging and retired counters, the allocation cursor.
- Operations: `dispatch`, `accept`, `expire`, `fail_all`, the allocation.
- Hard: the index and the counters are maintained by hand beside the rows; an id
  must stay taken while the server may still answer on it.
- Right when: index, counter and rows agree; no id is reissued too early; no
  reply reaches a request other than its own.

### Transaction reassembly (`connection/reassembly.rs`)

- State: for parameters and data each a total, a list of covered ranges and a
  buffer; counts of fragments and of empty messages.
- Operations: `cover`, `truncate`, `gap`, `prefix`; `declare`, `accept`; the
  assembly's `accept`, `release` (on a lapse) and `finish`.
- Hard: fragments out of order, overlapping, revising totals downward, with and
  without a buffer to copy to.
- Right when: the ranges are exactly what arrived; a reply is delivered whole or
  not at all; it completes at the message that completes it.

### Read and write loops (`resource/file.rs`, `resource/progress.rs`)

- State: a stack of spans to issue again, the tail, the chunks awaited in order
  of issue; the connection's downgrade flag; for a write, the `WriteProgress`
  handle (ranges covered, members outstanding, the prefix declared final).
- Operations: the two loops, `read_exact_at`, `read_to_end`, `write_all_at`, the
  hook of a chunk, the drop of the call and of its guard.
- Hard: chunks answered short and out of order, sizes refused, another operation
  downgrading the connection in between, another client resizing the file, the
  future dropped while its requests are on the wire.
- Right when: no byte is skipped, asked for twice, zero-filled or dropped; the
  prefix reported is on the server, is final when it is called final, and is
  always called final in the end.

### Client cache (`client.rs`, and who holds a `Tree` in `tree.rs`)

- State: a slot per dial address (a dial in flight or a connection with its
  trees), when it was last used, whether the client is closed, the sweeper.
- Operations: `acquire` (with `slot`, `probe`, `forget`), the dial task,
  `tree_on`, `list_shares`, the sweeper, `goodbye`, `close`, and the `Drop` of
  the entry, of a tree and of the client.
- Hard: single-flight, dials that outlive their waiters, futures dropped, entries
  that die while several tasks hold them, and reference counts deciding who says
  goodbye.
- Right when: one dial per address; no logoff while somebody uses the
  connection; one logoff per connection; a closed client caches nothing; an
  unused connection is evicted; nobody waits for ever on a dial.

### Session handshake and authentication (`session.rs`, `auth/`, `wire/negotiate.rs`, `wire/session.rs`)

- State: which request is out, the replies so far, the time left; at the end the
  session and the actor constructed for it.
- Operations: `negotiate`, the two legs of `session_setup`, and in between the
  reading of a SPNEGO token, of the NTLM challenge in it and the building of the
  answer.
- Hard: the peer is not authenticated, may answer anything and may stop; the order
  of the checks decides whether a credential leaves the machine; the answer must be
  one a server accepts whichever pairs and flags its challenge has.
- Right when: no credential goes to a server below the floor; a challenge that can
  be read is answered so that it verifies; a session is one the server granted, as a
  guest only where allowed; it is over in one connect timeout.

### Verbs and listings (`tree.rs`, `resource/listing.rs`, `wire/find.rs`, `unc.rs`, `path.rs`, `error.rs`)

- State: the verb in progress and the file id it holds, the levels of a recursive
  delete, the page and the search id of a listing, closes enqueued by `Drop`.
- Operations: every verb, a fixed program of requests; `read_dir`, `next_entry`,
  `close` and `Drop` of a `ReadDir`; `set_len`, `close` and `Drop` of a `File`.
- Hard: another client changes the same directory; a delete that did nothing is
  answered with success; a search is closed by one side or the other depending on
  how it ended; a listed name is joined to a path as text; a verb may fail, lapse or
  be dropped at each of its requests, and a listing goes on after a call that failed.
- Right when: what is reported removed is gone, and nothing outside what was named
  was touched; a listing that ends is whole but for the pages whose call failed;
  nothing stays open on the server.

### Adapters (`resource/adapter.rs`)

- State: a cursor, a buffer and at most one future in flight on each side; the
  length a span will have reached.
- Operations: `poll_read`, `poll_write`, `poll_flush`, `poll_shutdown`,
  `into_inner`, and being dropped.
- Hard: a future is polled by one call and finished by another; errors belong to
  bytes accepted earlier.
- Right when: bytes come in order; a flush that returns Ok stored everything; the
  length claims no byte the server does not hold.

### Share enumeration (`rpc/`)

- State: which path and which transport is in use, the pipe's file id, the PDUs
  collected so far, the shares of earlier rounds and the resume handle.
- Operations: RAP; open, bind, call by transact or by write and read, reopen, close.
- Hard: two fall-backs inside one another; replies cut into rounds, PDUs and reads;
  a file id given back and closed again.
- Right when: a list that is returned is the whole list; the pipe is closed; it ends.

`PROJECT.json` lists every component with its status, and every hazard at its
line with the properties that watch it.

## 2. Modules

| module | models | used by |
|---|---|---|
| `RequestTable` | `table.rs`: state, and one operator per method | `Connection` |
| `Connection` | `actor.rs` and `mod.rs`: the loop, channels, callers, server | `MCConnection` |
| `Coverage` | `Coverage`, a list of ranges | `Reassembly`, `ChunkQueue` |
| `Reassembly` | `Track`, `Assembly` | `MCReassembly` |
| `ChunkQueue` | what the read and write loops share | `ReadSpan`, `WriteSpan` |
| `ReadSpan` | the fill loop and the server | |
| `WriteSpan` | the chunk loop, the progress handle, the server | |
| `WriteContract` | what a span write promises | `WriteSpan` implements it, `Adapter` is built on it |
| `Adapter` | `FileReader`, `FileWriter` and a caller copying through both | |
| `Client` | the cache, the dial, the goodbye, the trees' holders | `MCClient` |
| `Spnego`, `Ntlm` | `auth/spnego.rs`, `auth/ntlm.rs` | `Session` |
| `Session` | the handshake | `MCSession` |
| `FindPage` | the chain of entries of a FIND reply | `Listing` |
| `Listing` | `ReadDir` and the server's searches | `Tree` |
| `SharePath`, `Errors` | the path policy; errors and their kinds | `Tree`, `Rpc` |
| `Tree` | the verbs, the recursive delete, `File` as far as it is closed | `MCTree` |
| `Ndr`, `Rap`, `Pdu` | the decoding of share lists and PDUs | `Rpc` |
| `Rpc` | `list_shares`, the pipe and its two transports | `MCRpc` |
| `ConnectionProofs`, `CoverageProofs`, `ReassemblyProofs`, `ReadSpanProofs`, `WriteSpanProofs`, `ClientProofs`, `TreeProofs`, `AdapterProofs` | lemmas and theorems about the module of that name | |

`ConnectionProofs` begins with the request table, and `TreeProofs` covers `Tree` and
`Listing`. `ClientProofs` has three parts, each about a specification of its own: the
cache, the handshake a dial performs (`Session`) and the enumeration of shares
(`Rpc`). It extends all three modules, so the last two name their specifications
`SessionSpec` and `RpcSpec`.

The `MC` modules give constants their values. Definitions whose comment begins "A
mutant of" are deliberately wrong versions of the definition that follows them.
They are used by nothing; they exist to show that each property fails when the code
is wrong.

### The write contract

`WriteContract` says what `write_all_at` and its `WriteProgress` promise, without
chunks, queue, downgrade or locks: bytes land, the handle learns of landed bytes
only, success needs every byte, an error carries the contiguous prefix, and the
prefix is declared final once and does not grow after it. `WriteSpan` is shown to
implement it (`KeepsContract`), and `Adapter` takes its actions as the span writes
behind the writer. What the reader relies on is in the same way stated by
`ReadSpan`'s `EndIsReal`: a fill brings back a prefix of what is there and an end
that the server reported, which is what `Adapter`'s `FillEnds` does.

### How the state corresponds

**`RequestTable`.** `table`, `expiry`, `charging`, `retired` and `cursor` are the
fields of the Rust table. A deadline is the time left until it, and `Elapse` takes
one unit off every deadline, so the clock needs no bound. Rows are never removed
from the function: a free id has the row `FreeRow`.

**`Connection`.** One turn of the `select!` loop is two steps. `Arm` is the code
above the `select!`; the actor is then parked, callers and the clock move, and one
event is taken by what `armed` recorded, stale or not. Each event is the whole
handler, the trailing `note_waiting` included. A frame is read when it is whole.
The kinds of message (`Pending`, `Whole`, `Deleted`, `Part`, `Last`, `Bad`) are
what the handler tells apart; the bytes of a `Part` are `Reassembly`'s business.
`owed` is the server's side: the requests it received whole and has not answered
whole. With `Rogue` it also sends what nobody asked for. `result` and `hooks` are
history: what each caller and each hook has been told, with the request that
was answered.

**`Coverage`, `Reassembly`.** Ranges are pairs, as in the code. A block's `bytes`
counts how often each byte was written, which is what tells a hole or a byte
written twice from a whole reply. `sent` is history.

**`WriteSpan`, `ReadSpan`.** `queue`, `next` and `issued` are the loop's locals;
`Measure` and `Build` are separate because the chunk size and the downgrade flag
are read separately; `PollPends` and `PollTakes` are `first_answered`. A hook takes
the progress handle's lock three times and is three steps (`Ends`, `Leave`,
`SettleChunk`). `landed` and `fileLength` are the server's side.

**`Client`.** One dial address and one share. Different addresses share only the
lock; different shares of a connection meet in its handles and tree ids, and two
trees of one share already contend for both. `tree()` and `list_shares()` are
modelled on the same share. What the cache's lock covers is one action.
Reference counts are read off the state: every action that lets go of something
ends in `Drops`, which runs the `Drop` of the entries and trees nobody holds any
longer. Ids of connections and trees are used again once nothing refers to them,
so the model has no bound on how many there ever are, only on how many there are
at once. `goodbye()` is three steps, around its awaits; a future may be dropped
where it waits (`GivesUp`, `ConnectFails`, `Listed`).

**`Session`.** One action sends a request and one per leg reads its reply; the checks
are operators that name the first refusal, in the order of the code. A negotiate
reply misses at most one requirement, since one that misses two is refused as the
first. A SPNEGO token is a sequence of bytes, read by the grammar of the code; the
NTLM message inside is one byte that names a record, and hashes are terms, equal
when their arguments are. The server's side (`ServerVerifies`) follows [MS-NLMP].

**`Listing`, `FindPage`.** A page is cut anywhere, its entries a chain of offsets with
slack and with or without `.` and `..`; either terminator may end a search. The
server reuses search ids, and another search on the connection may get one; it refuses
to continue a search that is by then another's. A call of `next_entry` that fails
(a page refused or not readable, a request that lapsed, a future dropped) leaves the
`ReadDir` to a caller of `read_dir`, who may call it again (`OnFailure`); the walk of
`remove_dir_all` gives up at the first error. `unread` is history: the entries of pages
that came to nothing that way.

**`Tree`.** A verb is a program, a sequence of requests, and `Continue` says what a
reply makes of it: which error is reported, what is still closed, when `remove_dir`
looks again. A path is a sequence of components and is resolved by the server
(`NodeAt`). A listed name is text to the client, and `Join` appends what it falls into
at its separators (`Split`), trimmed at the end of the path (`Trimmed`): the instance
has an entry `..\o` and an entry `.\g` with a space behind it, whose paths lead to
other entries than themselves. Another client creates, deletes and opens nodes in
between. `remove_dir_all` keeps a stack of levels and drives `Listing`; an entry heads
its level for as long as it is worked on. `touched`, `lost` and `inherited` are
history: `lost` is set by a request whose answer never came, which is where the code
itself can no longer know; `inherited` is what the close queue still held when the
recursive delete began, left there by an earlier verb. An answer that says the tree is
gone takes every search and handle of the tree with it, whichever request it answers.

**`Rpc`.** PDUs, NDR stubs and RAP replies are sequences of 16-bit units, so that an
offset, an alignment or a cut is what it is in the code. The server pages and cuts
where `Cuts` allows. File ids are reused by other requests of the connection.

**`Adapter`.** One operation of the caller is polled until ready or dropped between
polls; a future that was never polled does nothing, as in Rust. The bytes of the
source are numbered, so that order, loss and repetition are visible.

`Client` makes one timing assumption, `Prompt`: a task that was handed an entry is
past the probe, and at least as far as `Tree::connect`, before the eviction window
(20 deadlines) has run out. A probe takes at most one deadline and there is
no other wait on that path, so only a task the runtime leaves unpolled for nineteen
deadlines would break it. Without it, `goodbye()` would log off under a task that
holds the entry and no handle yet.

## 3. Runs

Small instances are enough for what they ask: each lets every queue, table or
pool be full, empty and one short of full, and lets ids come round.

| run | instance | question |
|---|---|---|
| `connection_channels` | 2 requests (one hooked), 1 close, 2 ids, limit 1, budget 2, rogue server | do counter, index, capacity, window and hooks hold through everything? |
| `connection_identity` | 3 requests, 2 ids, limit 2, honest server | is an id ever reissued too early, or a reply misdelivered? |
| `connection_live` | 1 request, 1 close, silence after 2 units and overall deadline 3, fair | does every caller return though the server dribbles, does the task end? |
| `reassembly` | 1 parameter byte, 3 data bytes, messages of up to 2 bytes, cap 4 | is coverage exact and delivery all or nothing? |
| `write_span` | 3 bytes, depth 2, sizes 2 and 1, over-claiming server, concurrent downgrade, cancellation | does the loop implement `WriteContract`; is every byte in one place; is the end always signalled? |
| `read_span` | 4 bytes, depth 2, file of 1 or 4 bytes, concurrent resize and downgrade | is the buffer filled with what was read, is an end real, and does the loop end? |
| `client_cache` | 2 tasks, 2 connections, 2 trees at once, probe after 1 and evict after 2 deadlines | single-flight, no logoff under a user, none twice, nothing cached once closed |
| `client_live` | 2 tasks, 1 connection and 2 trees at once, fair | is an unused connection evicted, is every waiter told? |
| `session` | 2 required capabilities, 2 uids, every list of up to two AV pairs, tokens in every form of length | where do credentials go, does the answer verify, is the session earned, does it end? |
| `tree` | 1 verb, 7 nodes in 3 directories, two with a separator in their names, 9 paths (4 refused), 2 file ids, 2 searches, 1 act of another client | is what was removed gone; does a recursive delete stay inside; are listings whole; is all released? |
| `rpc` | 3 shares, 2 rounds, cuts at 5 and 30 units, writes of up to 20, 2 file ids | is the list whole, the pipe closed, does it end? |
| `adapter` | source of 4 bytes, fills of 3, buffer of 2, reads of 1 and 3, appending to 1 byte, 2 faults | order, durability of a flush, honesty of the length |

Bounds that are the model's and not the code's: `LastMid` (65534 in the code),
`Limit`, `RetirementBudget`, `GiveUpDeadlines`, `CloseRun`, `PerRequest`,
`Overall`, `FragmentCap`, `EmptyTolerance`, `Length`, `Depth`, `ProbeAfter`,
`EvictAfter`, `ConnectTimeout`, `MinMaxBufferSize`, `Batch`, `MinEntryLen`, `MaxRounds`,
`MaxWrite`, `PduCap`, `StubCap`, `Capacity`, `FillSize`: the same comparisons with smaller numbers. Each call of `request()`
and each dropped handle happens once; requests are distinct members of a set, so
their number bounds how many there are in all. `client_live` keeps one connection
at a time so that the fairness check stays small; parallel dials are in
`client_cache`, which is checked up to exchanging the two tasks.

`connection_live` gives the silence clock two units, so that a server can dribble
for ever without ever letting it run out: only the overall deadline is left to end
the wait.

In `tree` one verb is enough for a long behaviour: the recursive delete lists two
directories and runs five deletes, and a `File` is used after the `open` that made
it. What one verb leaves on the server is visible in the state, and verbs share
nothing else but what a lost reply leaves behind. `Calls`, `Interference` and
`MaxFaults` bound how many verbs, acts of the other client and failures there are.

The largest runs (`client_cache`, `tree`, `connection_identity`, `rpc`,
`connection_channels`) have some 990, 660, 470, 440 and 290 thousand states; the
rest are far smaller. Where a specification has an action for the end
(`Terminated`, `Over`), enabled only where the code really is finished, the deadlock
check is on, so a state in which something should move and nothing can is an error.
`tree`, `rpc` and `adapter` stop when the caller has run its verbs, its enumeration or
its writer, and check no deadlock; that an enumeration does not stop early is
`EnumerationEnds`.

### Fairness

- Actor: weak fairness of the top of the loop (tokio polls a woken task); strong
  fairness of each source of the `select!` (tokio starts polling at a random
  branch, so a source that is ready again and again is chosen again and again);
  the clock moves; a channel serves its senders. Nothing is assumed of the
  server's answers. `PeerReads` assumes that the peer goes on reading its socket;
  without it `CallersReturn` does not hold (see below).
- Read and write loops: the runtime polls the call, hooks run to their end, and
  every request on the wire ends, which is what `CallersReturn` shows of the actor.
- Client: each dial task, each goodbye, the sweeper and the clock move on. A dial
  ends because of the connect timeout, a goodbye because of the request deadlines.
- Session: only time passes. The server may stop reading and may stop answering.
- Rpc: every request of the enumeration ends, answered or lapsed, by the request
  deadlines of the connection. Nothing is assumed of what it is answered.
- Tree and adapter: none; they are checked for safety.

### Disagreements with comments and documents

Met while modelling; no run asserts what these comments say, since the code does
otherwise.

- `mod.rs:541` says that a close is taken before a request sent after it. `pump()`
  (`actor.rs:305`) arms both queues while both are empty and the `select!` is
  unbiased, so a request sent after the close may go out first.
- `mod.rs:518` says that the wait of `request()` is bounded. No clock runs on a frame
  whose first byte the socket has not taken (`actor.rs:422`), so a peer that stops
  reading leaves the caller waiting.
- `mod.rs:474` says that `is_downgraded()` tells whether the size a chunk is issued at
  is the small one. It is a second load after `chunk_size()` (`file.rs:351`); another
  operation may downgrade in between, and a large chunk is then marked as having no
  second attempt.
- `client.rs:40` says that `STATUS_NETWORK_NAME_DELETED` leaves the other trees alone.
  `TreeInner::drop` (`tree.rs:183`) disconnects a discarded tree by its id, and the
  server may have given that id to the tree connected in its place.
- `pipe.rs:17` says that any error of the transact mode falls through to write and
  read. A transact ended by an empty read is `NoLastFragment` and does not. And a pipe
  opened again is not bound again, so a fall-through after the bind meets a fault.
- When the reopen fails, `reopen()` has given the old file id back and `close()` gives
  it back once more (`pipe.rs:164`, `:176`): by then it may be another file's.
  `PipesReleased` excepts exactly this case. `Pipe` has no `Drop`, so a cancelled
  enumeration leaves its pipe open.
- `srvsvc.rs` takes a page that says `WERR_OK` with a total above its entries for the
  whole list, where RAP refuses the same (`rap.rs:117`). The model's server does not
  send one.

What a caller should know, which the code accepts:

- `remove_dir_all` addresses a file whose name ends in white space by its trimmed
  name (`unc.rs:292`): it deletes a sibling of that name and then fails to find it, or
  fails on the directory. A directory symlink is descended into (`tree.rs:395`).
- Nothing between the reply and the path refuses a listed name that carries a
  separator (`find.rs`, `listing.rs:241`, `path.rs:26`), and the path rewrites `/` and
  is taken apart again (`unc.rs:292`). An entry `..\o` of `d` makes the recursive
  delete of `d` ask for `d\..\o`, which is out of the directory it was given, though
  never out of the share: `SharePath` refuses that. `StaysInside` therefore speaks of
  a delete that is at no entry with `..` among the components of its name, and TLC
  finds the delete of `o` when that condition is taken out.
- A call of `next_entry` that fails may lose a page (`listing.rs:142`, `:168`): one
  that is cancelled, one whose request lapses, and one whose page cannot be read. The
  caller may go on, and the listing may then end with `None` without the entries of
  that page. `ListsAll` says that nothing else is missing. A cancelled `create_dir` or
  delete leaves a file id open (`tree.rs:656`); `File::close` counts as closed from
  the moment it is called, so a close that is cancelled or lapses is not sent again.
- The bytes of a span that failed are not kept: after the error the writer goes on
  behind them and leaves a hole. `position()` of both adapters counts buffered bytes
  as passed (`adapter.rs:100`, `:208`). The comment on `start_flush` (`adapter.rs:264`) says the
  next write does not wait; `poll_write` does wait for it, and the flush does not begin
  before it is polled.
- Bytes behind the PDU that carries the last fragment are dropped.

Smaller disagreements: `actor.rs:39` bounds the closes sent in a row while a request
waits, but the counter is reset at any turn that finds the close queue momentarily
empty; `mod.rs:179` says that the hook is applied whichever way a request ends, but
one still in the channel when the actor ends has no row and its hook is dropped, and
so is that of a frame of which no byte went out: the exception `HooksAgree` makes (the
one hook there is compensates in its `Drop`, which `WriteSpan` models as an abandoned
ticket); `file.rs:434` says that every chunk is dispatched before any is ready, which
is so only in the first round; `client.rs:685` says that a failed connection is said
no goodbye, but after a failed probe the actor may still run and the entry's `Drop`
then sends one.

## 4. Proofs

Every theorem below is about the specification of a component, for every value of the
constants that satisfies the assumption named there. The assumptions are what the
code has by construction (limits and sizes at least 1, ids below the last one); five
are worth naming: the set of trees of a client is finite (`ClientAssumption`); a
directory has finitely many entries, none of them has an empty name or is named
`.` or `..`, and the target of a recursive delete is not the share's root
(`TreeAssumption`); what a path or a name falls into at its separators carries none, and
the path given to a recursive delete is trimmed, as every `SharePath` is, and leads to
its target (`PathsAssumption`); the
capabilities the client always claims do not include the two for large reads and
writes (`SessionAssumption`, `session.rs:108`); and the destination is written from 0
or from its end (`AdapterAssumption`).

| module | theorem | states |
|---|---|---|
| `ConnectionProofs` | `TypeCorrect` | `Spec => []TypeOK` |
| | `IndexInOrder`, `CountInOrder` | `Spec => []IndexAgrees`, `Spec => []ChargingCounts` |
| | `CapacityHeld` | `Spec => []Capacity` |
| | `WindowRuns` | `Spec => []SilenceWindow` |
| | `IdentityHeld`, `CrosstalkFree` | `Spec => []IdsHeld`, `Spec => []NoCrosstalk` |
| | `HooksInStep` | `Spec => HooksAgree` |
| `ReassemblyProofs` | `TypeCorrect` | `Spec => []TypeOK` |
| | `CoverageIsExact` | `Spec => []CoverageExact` |
| | `RepliesAreWhole` | `Spec => []WholeReply` |
| | `CompletesOnTime` | `Spec => []CompleteExactly` |
| `ReadSpanProofs` | `TypeCorrect` | `Spec => []TypeOK` |
| | `JudgesRight` | `Spec => []JudgedRight` |
| | `EndsAreReal` | `Spec => []EndIsReal` |
| `WriteSpanProofs` | `TypeCorrect` | `Spec => []TypeOK` |
| | `OnePlaceEach` | `Spec => []Partitioned` |
| | `WriteImplementsContract` | `Spec => KeepsContract` |
| `ClientProofs` | `TypeCorrect` | `Spec => []TypeOK` |
| | `OneDial` | `Spec => []SingleFlight` |
| | `NobodyDisturbed` | `Spec => []Undisturbed` |
| | `LogsOffOnce` | `Spec => []OneGoodbye` |
| | `ForgetsOnlyOwn` | `Spec => ForgetsOwn` |
| | `SessionsAreEarned` | `SessionSpec => []SessionEarned` |
| | `CredentialsAreKept` | `SessionSpec => []CredentialsKept`, given `TokensTold` |
| | `PipesAreReleased` | `RpcSpec => []PipesReleased` |
| `TreeProofs` | `NothingIsLeft` | `Spec => []NothingLeftOpen` |
| | `RemovedIsGone` | `Spec => RemovedMeansGone` |
| | `ClosedFirst` | `Spec => ClosedBeforeTouched` |
| | `ListsEverything` | `Spec => []ListsAll` |
| | `StaysUnder` | `Spec => StaysInside` |
| `AdapterProofs` | `ReadsInOrder` | `Spec => []ReadInOrder` |
| | `FlushesStore` | `Spec => []FlushMeansStored` |
| | `LengthIsHonest` | `Spec => []LengthHonest` |

`CoverageProofs` and the first part of `ConnectionProofs` hold lemmas about operators
that the rest cites. For each component there is an inductive invariant (`Inv`;
`HandshakeInv` for the handshake and `PipesInv` for the enumeration), a proof that it
holds initially and that each action keeps it (one lemma per action or group of
actions, put together by one about the next-state relation), and the theorems derived
from it.

### The connection

The lemmas about the table prove what each method of the table does to `TableInv` (types,
`IndexAgrees`, `ChargingCounts`). `Inv` is the types, `TableInv`, `Admission` and
`Window`. `Capacity` is not inductive by itself: the count is read at the top of the
loop and raised much later, by the first byte of the frame. `Admission` carries the
reason across: a channel is armed only with the write slot empty and room left,
nothing but the first byte of the one frame in that slot raises the count, so the
room is still there. `Window` restates `SilenceWindow` by the counter, which
`ChargingCounts` ties to the rows.

`IdentityHeld` and `CrosstalkFree` concern a server that answers only what it was
asked (`~Rogue`). They rest on `Honest`, inductive relative to `Inv`: every id the
server owes an answer on is held by the request it would answer (`Held`), and whatever
has been told so far was told to its own request (`OwnReplies`). Lapsing and retiring
keep the owner of a row, and only the message that settles the debt frees it; that is
why a late reply finds its own row or none.

`HooksInStep` is against any server, and about steps: the hook of a request is applied in
the step that ends the request, not before and not twice, whether its caller waits or
has gone. It needs where a request can be: in the channel, in the frame being written or
in the table, in one of them only, and in none once its hook was applied. A step that
takes it out of all three is then one that tells its row (`Telling`), or the end of the
actor, which tells the rows (`fail_all`) and drops what has none.

### Coverage and reassembly

`CoverageProofs` says what the operations do to the bytes a canonical list stands
for, for lists of any length: `OverlapsIs` (`cover` refuses exactly the ranges that
share a byte), `CoverIs` (it adds the range's bytes and keeps the list sorted,
disjoint and merged), `TruncateIs` (`truncate` keeps the bytes below the total),
`PrefixIs` (`prefix` is the length of the run from 0), `CoversIs` (`covers` says
whether every byte is there, which only a merged list can tell from one range) and
`GapIs` (`gap` reports the first missing byte and where the hole ends). Where an
argument needs a first or last range it takes the least number with a property
(`Least`); the library's induction theorems are out of the provers' reach.

`Inv` of `ReassemblyProofs` says that each block's list is canonical and stands for
the bytes the server sent (`Agrees`), that a block's buffer counts each of those bytes
once and no other (`Counted`), and that the outcome is `complete` exactly when both
blocks are. `CompleteExactly` and `WholeReply` are not inductive without the first: a
list out of order would let `cover` take a byte twice, and one not merged would hide
that it is full. A message is one step over both blocks, so the proof follows it from
`Declared` (buffer and list forget the same bytes) to `Placed`, block by block.

### The read loop

`EndIsReal` says that a byte missing from the front of the buffer is one the server
reported to lie past the end. That is a statement about the return, and nothing local
implies it. `Inv` of `ReadSpanProofs` says that while the call has not failed each
byte of the buffer has one place (`Parts`): it arrived, it was given up by a chunk
answered as the end, it is awaited in exactly one chunk, it is queued in exactly one
span, or it was not asked for yet. At the return nothing is awaited or queued, so a
byte that is missing was given up (`Ends`), and the first one is where such a chunk
starts or where its bytes stopped. `JudgedRight` follows, since a short fill is
accepted only in front of such an end. `Coverage` is shared with the reassembly, so
`CoverageProofs` says what the buffer holds (`Arrived`).

### The write loop

`Partitioned` is not inductive: whether a byte stays in one place depends on the spans
lying in the buffer (`Fits`), on a ticket being answered once (`Answers`) and on the
recorded list being in order (`InOrder`), which decides what `Overlaps` and `Cover`
do. The refinement adds that a call that has returned awaits nothing (`Awaited`) and
that the count of the group is the number of chunks in it (`Guarded`), without which
the prefix could be declared final under a chunk still on the wire. `PrefixIs` is what
makes the prefix an error carries the contract's `WrittenFrom`.

### The cache

What carries the argument: an entry is in the slot or in at most one goodbye, never in
both (`Apart`); a task that holds an entry somebody says goodbye to is connecting a
tree on it or listing over one, and both count as handles of the connection (`Spared`,
where the timing assumption `Prompt` is used); a tree a caller holds, or a held entry
remembers, is open and on that connection. Every action that lets go of something ends
in `Drops`; the invariant is a relation between the tables, proved of the tables before
the drops and kept by the drops.

### The handshake

`Inv` says that every reply read so far was not refused, and that what is kept of it is
what it said. The refusals are operators that name the first failing check, and lemmas
say what a reply that passed them all has. `TokensTold` is the one hypothesis a theorem
has of its own. It is about constants: `CredentialsKept` tells whether a reply carried a
challenge by a mark the instance puts beside the token's bytes, and `TokensTold` says
that a token so marked as carrying none cannot be read as one. It is true of the
run's tokens; that the reading itself is right is `AnswersTheChallenge`, which TLC
checks, since the reader is recursive over bytes.

### Verbs, listings and handles

`NothingLeftOpen` speaks of a client at rest. What every step keeps is ownership. A
search the server holds for this client is the one the listing will close or one the
close queue names, never both, and the queue names none twice (`SearchesInv`); so
ending a listing hands its search over exactly once, whether the server ended it, the
caller closed it, or a `Drop` enqueued it. A handle belongs to the verb between its
create and its close, to the open `File`, or to the queue, and to one of them only
(`HandlesInv`); what a delete holds is on the node it deletes, marked to be deleted
with its last handle. From the last follows `RemovedMeansGone`: the close that answers
with success unlinks, or the verb looks again and reports what it finds. `ClosedFirst`
rests on `OpInv`: a recursive delete waits for each close of its own searches, so the
queue holds, while it runs, only what was there when it began.

`ListsEverything` has two halves. The first is about one page (`BlockReads`, `CutIs`).
`WalkEntries` is a recursive function over the offsets of a block. In the blocks a
server writes each entry lies a stride behind the one before (`OnePlace`), and that
the walk from each offset gives the rest of the names is shown by the least number of
entries left for which it would not (`Steps`, `WalksOn`); so a page is refused or read
as the names that were put in it, in order and without the dots (`KeptIs`), whatever
the padding and however the last entry ends. The second is about the loop
(`EntriesInv`): as long as the search goes on, what was returned and what lies in the
client's page together are what the server takes the search to have returned, each once
(`CountIs`), but for what was on a page the caller was not given (`unread`); whatever
was there throughout is among these or still ahead. A call that fails moves what the
server returned into `unread` or leaves all as it was, so the invariant holds for a
caller who goes on. The page that ends the search carries all that is ahead.

`StaysUnder` is about where a path leads. The client refuses a path by a depth it
counts (`Depths`); the server goes through the components and keeps the names it has
entered (`Resolved`). While no depth is below 0 the names are as many as the depth
says, so the server never leaves the share (`StaysIn`). The other half is where a join
leads from below the target. A component that is not `..` leaves the names as they are
or adds one, so names that begin with the target's still do (`BelowOne`, `BelowMore`);
the components of a joined path are those of the directory and those of the name, the
last one trimmed (`JoinLeads`); and a node whose path of names begins with the
target's is under the target (`BelowIsUnder`). On these rests an invariant of two
parts: each level of the recursive delete is a path that leads below the target as
long as none of the levels it was come by is at a name with `..` in it, and so does
the path of what is being deleted (`LevelsInv`); and no request is for a node outside
the share (`AimInv`). Nothing is taken from the contents of a listing except that an
entry has a name: it need not be the name of what is in that directory. The file
system of the model has no links, so the theorem says nothing of a directory symlink
(`tree.rs:395`), and a directory stays where it was made.

The attempts to prove these changed the model in three places and a property in one.
`SharePath` judged the path before it trimmed it, where the code judges what the
trimming leaves (`unc.rs:292`): a path such as `.. ` was let through and then left the
share.
`Listing` forgot the handles only when the searches had gone with the tree, not when
a listing's own answer said that the tree is gone; the other client could create a node under a
name outside the share, which no server does. `ClosedBeforeTouched` as first stated
fails for a search that an earlier, abandoned listing left in the queue: the delete
does not wait for that one. It now says so (`inherited`).

### The enumeration

Two transports, two paths and a pipe that may be opened twice leave one question: which
pipe is open, and which step will close it. `PipesInv` answers it by the step at hand:
a step that uses a pipe (`InUse`) has one of its own, no other pipe is this
enumeration's, and only a request that was lost (`lost`) or a reopen that failed
(`reopenFailed`) can part them, which are the two cases the property names.

### The adapters

The bytes of the source are numbers, so what a buffer should hold is said by where it
starts (`Runs`). `Inv`: what was accepted, what is in hand and what the reader holds
are one run up to its cursor (`Reads`); the buffer or the span in flight is the end of
what was accepted, up to the writer's cursor (`Writes`); all before it since the last
error is stored, acknowledged and counted (`Stores`); and an error is outstanding only
while its span is (`Tells`).

### Only model-checked

- All liveness: fairness and `ENABLED` are out of this prover's reach.
- `AnswersTheChallenge` and `WholeList`: they say what the recursive readers of byte and
  unit sequences (`Spnego`, `Ndr`, `Pdu`, `Rap`) return, which needs induction over data. A
  FIND page could be read by an argument of its own because each of its entries has a
  place known beforehand.

## 5. Plan

What is left:

1. `WholeList` without the readers: with what a reply decodes to taken as a hypothesis
   about constants, checked by the run as an assumption, it is a statement about the
   loops alone.
2. A specification of what a `Tree` promises (a file system with one caller), and
   `Tree` shown to implement it as `WriteSpan` does its contract.
3. `Tree::close`, and the parsing of `\\server\share`.

## 6. Not modelled

- The byte layout of single messages (`wire/`), except the chain of a FIND page: the
  repository's fixtures and differential tests are the better tool.
- Parsing of `\\server\share` (`unc.rs`) and the tables of statuses (`status.rs`,
  `cifs_status.rs`): text and data without state.
- `Tree::close`, the limits on the size of one transaction request, times, sizes and
  attributes of entries, `set_read_ahead`.
- MD4, MD5, HMAC and RC4: libraries; they are terms here.
- The examples, the capture tools, the fuzz targets and the tracer's redaction.
