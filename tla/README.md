# TLA+ verification of the MaxCompute (ODPS) Go SDK

The SDK is a client of the MaxCompute service. Most of it builds requests and
decodes answers. What can go wrong in ways a test hardly reaches is concentrated
in `odps/tunnel` (uploads and downloads: goroutines, pipes, retries, stale
routing, framed streams with checksums) and in the path from a SQL statement to
its rows (`odps/instances.go`, `odps/instance.go`, `sqldriver`); the calls on the
objects of a project (tables, schemas, resources, ...) share handles, a tunnel and a
REST client between goroutines and talk to a service that changes under them. This
project models these parts, model-checks them with TLC, shows the uploads to implement
abstract specifications of what they promise, and proves the main properties with TLAPS
for every value of the constants.

`PROJECT.json` lists components, runs, mutants, hazards, findings, theorems and,
for every definition that models code, the source lines it stands for.

## 1. Inventory

| Component | State | Operations | Hard parts |
|---|---|---|---|
| Slot selector (`tunnel/slot.go`) | slot list, rotating index | `Reset`, `NextSlot`, `UpdateServer`, `SetServer` | index past a list that shrank; parsing that fails half-way |
| Stream upload session (`stream_upload_session.go`) and pack writer (`record_pack_stream_writer.go`) | selector, stale mark (each behind a lock), per writer: buffer, count, `flushing`, `appendErr`, `protocWriter.closed` | create, `Append`, `Flush`, `Reset`, reload of the slots | goroutines sharing a session; lost answers; slots rescheduled by the service; flags left by failed calls |
| HTTP upload connection (`http_conn.go`, `RestClient.Do`) | an `io.Pipe`, an unbuffered result channel, a sender goroutine | write, close, receive the outcome | everyone waiting on everyone; goroutine leaks; a truncated body that looks complete |
| Block upload session (`upload_session.go`, `Retry` in `common.go`) | status, `blockIds` | open and close block writers, `Load`, `Commit` | overlapping commits, blocks landing between check and post, retries of a commit that took effect |
| Arrow stream (`arrow_stream_writer.go`, `arrow_stream_reader.go`, `arrow/ipc/record_batch_reader.go`) | chunk length, two checksums, reader's chunk | `Write`, `Close`, `ReadChunk`, `Read` | boundaries of chunks; truncation and damage; errors that turn into `io.EOF` |
| Protobuf record stream (`record_protoc_writer.go`, `record_protoc_reader.go`) | record checksum, checksum of checksums, count | `Write`, `Close`, `Read`, `Iterator` | records that fail half-way; truncation and damage |
| SQL instances (`instances.go`, `instance.go`) | `isSync`, task results | `CreateTask`, `WaitForSuccess`, `Load`, `GetTasks`, `GetResult`, `Terminate` | 409 loop bounded by time; poll against termination by others; stored results |
| sqldriver and instance result download | record count, reader | `query`, `Next`, download session | off-by-one ranges, an end that is not the end |
| Table download session (`download_session.go`) | status, record count, REST client | create, attach, load, open readers over ranges | readers that share a session, fail and are opened again; a session that is not ready yet |
| REST client and DNS cache (`rest_client.go`, `dnscache.go`) | `_client`, the resolver's map of slices | `client`, `Lookup`, `lookup`, `DialContext` | check and assignment without a lock; the cached slice shuffled in place by every dial; entries that are out of date |
| Objects of a project (`table.go`, `tables.go`, `schema*.go`, `function*.go`, `project*.go`, `partition.go`) | `beLoaded`, the model, the table schema | `Load`, `Exists`, `Create`, `Delete`, listings | two requests of one call; objects created and dropped between pages; lost answers |
| Tunnel (`tunnel.go`) | endpoint | `getRestClient`, `Preview` | an endpoint checked, asked for and set without a lock |
| Resources (`resources.go`) | hash and count of an upload | `CreateFileResource` and its parts and merge | uploads that share the names of their parts; a failure between parts |
| Type parser (`data_type_parser.go`) | token index | `ParseDataType` | nested types; errors and panics half-way |
| Accounts and signing, values, schema to SQL text, `trunc_time`, compressors, configuration, log view, options, security manager | plain data | request building, text, cryptography | no interaction worth a model |

How they interact: a `Tunnel` creates sessions with a REST client. A session opens
an upload connection per request (stream: per flush; block: per block writer). The
connection is a pipe whose read end is the request body of `RestClient.Do`, run in
a goroutine, and whose write end is written by `flushStream`,
`RecordProtocWriter` or `RecordArrowWriter`. The outcome comes back over a channel.
`sqldriver` submits a task, polls the instance and reads the result through an
instance result download session with a `RecordProtocReader`. All requests go through
`RestClient.Do`, whose http.Client is made at the first request and dials through the
DNS cache. A session copies the REST client it is given before that client has made
its http.Client; a call on an object of a project copies it for every request.

## 2. Modules and how they correspond to the code

**`SlotSelector`**: operators for the selector of `slot.go`. A selector is a record
`[arr, index]`; every method is an operator from a selector to a selector,
with an operator that tells when it fails. `SetServer` on a text that is not
`ip:port` leaves the slot unchanged; with a bad port it fails after it has assigned
the ip, so the slot is left half-updated until the reload the failure leads to.

**`StreamUpload`** (extends `SlotSelector`): any number of goroutines `Writers`, each
with a pack writer, on one session. `pc[w]` is where a goroutine is in `Flush` /
`flushStream`: `idle`, `take`, `reload`, `apply`, `next`, `connect`, `sent`,
`answered`, `update`, `done`. Code between two accesses to shared state is one step, so
the interleavings of the locked sections are explored; only the mark a failed update or
reload sets is part of the step that failed. `CreateStreamUploadSession`,
`AppendRecord` (and its refusals and failures), `Flush`, `WriterReset`,
`TakeSlotsStale`, `ReloadSlotNum`, `TakeNextSlot`, `NewUploadConnection`,
`FlushFailed`, `RefreshSlotRouting`, `UpdateSlotServer`, `FlushDone` are the
methods; a buffer is the sequence of items written to it (records, a footer, the
bytes of a record that failed). The tunnel service is external: it holds the slot
map, stores packs, answers with every class of status the code tells apart,
reschedules slots (`MoveSlots`), sends unusable headers (`ServeFlushGarbled`), and
may serve a request after the client gave up (`ServeLate`).

**`HttpConn`**: one upload request, three parties. `kind` selects the producer
(`flushStream`, protobuf writer, arrow writer), which differ in whether they write
a footer on close and in what they do after a write error. A footer is several writes
(`FooterTaken`, `FooterFails`), counted apart from the body on both sides of the pipe, so
that a body that ends in the middle of it is told from a whole one (`Whole`). `WriteTaken`
and `WriteFails` are `io.Pipe`; `SignRequest`/`SignRequestFails` are the start of
`RestClient.Do`; `ReadBody`, `ReadEOF`, `DoAnswered`, `DoFails`, `CloseBody` are
`net/http` (external).

**`UploadSession`**: writers of blocks, one committing goroutine. `Commit` is split at
its requests: `LoadThenCheck`, then up to `MaxTries` posts by `Retry`. The list may name a
block twice; the check compares lengths and membership, as the code does. The request
holds no list, so what is committed is what the service has. `landed` records blocks whose
data arrived after the load.

**`ArrowStream`**: writer, network, reader in sequence. A cell stands for a byte, a
checksum for the data it was computed over (ideal), a `uint32` on the wire is `Word`
cells. Messages are written in arbitrary pieces (`WriteLoop` follows
`ArrowStreamWriter.Write`). `Transfer` truncates the stream anywhere or damages any
one cell. The reader side is `ReadChunk`, `Read` and `RecordBatchReader`.

**`ProtocStream`**: the same for the protobuf stream: tokens instead of bytes, ideal
checksums that are the sequence of updates, records with null fields, writes that
fail half-way, a body cut anywhere (with a clean end or an unexpected one) or with
any one token replaced.

**`SqlQuery`**: `CreateTask` with its loop on 409, `WaitForSuccess`, and the query path
of sqldriver. `elapsed` is the time since `CreateTask` began. The service (external)
runs the tasks, lists them at some point, and may answer `Load` with results;
`Terminate` is any client's. Statuses the client does not know are `OTHER`. Results may come
with statuses of any kind, also of tasks that still run: `CreateTask` and `Load` take them
to mean that the instance is done.

**`AtLeastOnce`** and **`UploadRequest`** are abstract specifications: what a stream
upload promises the application (a record is acknowledged only after it was stored, and
stored again only after an answer was lost), and what one upload request promises its
producer (it takes effect at most once and as a whole, success is reported only after
that, a report is final, and a request reported as failed may still take effect).
`StreamUpload` implements `AtLeastOnce` (`DeliversAtLeastOnce`), `HttpConn` implements
`UploadRequest` (`ConnectionUploads`), and so does every writer of `UploadSession`
(`WritersUpload`). The mappings are by `INSTANCE ... WITH`; in `StreamUpload` a record
is given when it is appended and doubtful when a request with it was given up.

**`Transport`**: how a goroutine gets a connection. `Client` and `MakeClient` are the two
halves of `client()`; `Lookup`, `Resolve`, `StoreEntry` the resolver; `ReadPair` and
`Swap` the shuffle. The cached slice is an object that several dials hold, and storing a
string is two stores (pointer and length), so a dial can see a cell that mixes two
addresses: this is the data race as the machine executes it. `TryAddress` dials the
addresses in turn, `DialByName` is the fallback. All attempts of a request share its context,
whose deadline is `HttpTimeout` (`rest_client.go:63`, `dnscache.go:35` and `:41`): `spent`
counts the attempts that silent addresses have made time out, and once `Budget` of them
have, every later attempt fails, the one by name included (`Late`). A slice nothing refers to
any more is free to be made again. `fresh` and `old` remember which slices were made since
the host last moved. Addresses move; entries expire.

**`TableDownload`** (extends `Transport`): a download session. `CreateDownloadSession` and
`AttachToExistedDownloadSession` lead to `LoadInformation` over a connection of
`Transport`; then readers are opened over shares of the record count as the type's comment
describes, read rows, fail, are cut off, and are opened again for what is left.
An asynchronous session has no records until the service is ready, and is attached to
again, the only way the code offers to learn of that.

**`DataTypes`**: the tokenizer and parser as operators from a sequence of tokens to a type,
an error, or the panic of `consumeToken` on a name that ends early.

**`Catalog`**: objects of one kind at a service, goroutines that share one handle and one
tunnel, and the calls on them. A definition that stands for the calls of several kinds
is mapped to the one whose control it follows; what differs between kinds is in
`FlagBefore`, `FlagAfter`, `TableExists`, `SchemaExists`, `ProjectsExists`.

`Table.Load` has no lock, so on a table a request is `Get` and what follows is split at the
stores into the shared handle: `StoreText` is the XML decoder's store of the schema text into
`t.model` (`table.go:125`), `ParseText` reads it and parses the type's name (`:130`, `:156`),
`MakeArray` and `StoreColumn` are the stores of the JSON decoder into `t.tableSchema`. A
string and an interface are two words, stored one after the other in either order, and a text
of which the two words do not fit is not JSON. A decoder that looks for its column in an array
another has replaced finds the new one, the old one, or none (`NoColumn`). The handle has a
name only, or was made by `BatchLoadTables` with its schema in it. The parser is the constant
operator `Decoded`, so that theorems do not depend on its recursion; `MCResources` gives it
the parser of `DataTypes` on the names the service writes, and `Unreadable` is the set of
types whose name it refuses. `getRestClient` is split likewise: `CheckEndpoint` looks at the
length of the string, `SetEndpoint` stores its two words one by one, `NewRestClient` reads
both.

**`Resources`** (extends `Catalog`): `CreateFileResource`, with the parts at the service that two uploads of
one name share.

**`MC*`** modules give TLC its constants. **`*_proofs`** modules hold the theorems.

## 3. Runs

| Run | Instance | Shows |
|---|---|---|
| `stream_upload` | 2 goroutines, 2 records, 4 slot maps, 2 faults, 1 rescheduling; symmetric in goroutines and records; 1.8 M states | delivery at least once, slots always available, duplicates only after a lost answer, packs whole, evidence of wrong routing kept, a failed flush keeps its pack |
| `stream_upload_live` | 2 goroutines, 2 slot maps, 1 fault, 1 move; 145 k states | every `Flush` returns; a pack that is flushed again and again is delivered |
| `stream_upload_refusal` | 1 goroutine | **violated**: finding 1 |
| `http_conn` | 3 pieces of body, 2 of the footer, all three producers; 401 states | one upload request, only whole bodies end properly, no goroutine leaks, calls return unless signing failed |
| `http_conn_sign` | same | **violated**: finding 2 |
| `upload_session` | 2 writers, 2 blocks, 2 commits of any list up to two members, 3 faults; 239 k states | the table has what was listed, nothing that was closed is omitted from it, failed commits are honest, the last close wins, calls return, every writer is one upload request |
| `arrow_stream` | chunk of 3 cells, words of 2, messages of 2, up to 6 messages; 2 k states | framing independent of the pieces, what is read is a prefix and its end is the end, round trip |
| `arrow_stream_eof` | 4 messages | **violated**: finding 3 |
| `protoc_stream` | 2 columns, 2 values and null, 3 writes; 1.6 M states | what is read is a prefix and a quiet end comes only after all records, round trip |
| `sql_query` | 2 tasks, up to 2 rows, retry time 4, Retry-After -1, 1, 3, 4 faults, 2 waits; 192 k states | at most one instance, nil means success, EOF means all rows, calls return |
| `table_download` | 2 readers, 2 addresses, 2 rows, 1 fault, 1 move, a deadline of one timeout; 1.1 M states | one client per session, a calm dial fails only by stale addresses that cost it its deadline, every row once, the download ends |
| `catalog` | 2 goroutines, 3 names, pages of 1, 3 calls, 1 fault, three column types, files of two chunks; 2.2 M states | loads are faithful while decoders interleave, `Exists` is honest, listings are complete, clients have only words of named endpoints, files are whole |

### Bounds

- *Two goroutines* are enough for the races in `StreamUpload`: a mark or a slot taken
  by one and used by another. The proofs do not depend on the number. Four slot maps
  give rescheduling, growth, shrinking and a slot that disappeared. Two faults allow a
  failed flush followed by a failed reload.
- `HttpConn` distinguishes no body, the first, a middle and the last piece, and of the
  footer its two parts (count and checksum, or end of stream and checksum).
- In `UploadSession` three faults exhaust `Retry`; two commits overlap the writers in
  all ways, and include a commit of a session that is already committed. The lists are all
  those of at most two members, up to order, with a block named twice too.
- In `ArrowStream` chunk and message lengths are coprime, so boundaries of messages
  and chunks meet and miss each other in every way; 6 messages are 4 full chunks.
- In `ProtocStream` three writes are a failed one between two good ones, so that what it left
  in the stream and in the checksum meets a record before and one behind.
- In `SqlQuery` four faults allow the three failures of `Retry` and another; the horizon
  exceeds the retry time by more than the longest sleep, as its assumption demands.
- In `table_download` two readers are what the unlocked slice and the lazily made client
  need, two addresses what a shuffle needs. One fault and one move fall at any point of the
  other's dial. A deadline of one timeout (`Budget`) is used up by one silent address; the
  defaults, 60 s and 30 s, make it two. Entries from before a move expire at any time, those
  made since do not (`MaxExpiries` is 0, for the size of the run); the theorems do without
  the bounds.
- In `catalog` three calls are two uploads or listings that overlap and a change between
  their steps; pages of one and three names give a listing of three requests. One fault
  falls on any request. The column types are a plain one, a struct of two fields with an
  array, a map and parameters at their limits below it, and one whose name the parser refuses.
  Tables other than the one of the handle are there at first (`MCSpec`).

Deadlock is checked in the stream upload runs. It is off where the system really
stops: a request that has ended, a stream that was read, a query that returned.

### Fairness

Weak fairness only. Goroutines are scheduled; a request under way ends. The second
part is an assumption on the environment: the service answers, the connection breaks,
or a timeout passes. `RestClient` has one of 60 s, but a `Tunnel` overwrites it with
its own, zero unless `SetHttpTimeout` or the argument of `Flush` sets it
(`tunnel.go:190`). With no timeout and a silent service, calls do not return.
`stream_upload_live` also assumes that an application with an unsent pack calls
`Flush` again, which is what the retry protocol asks of it; nothing makes an
application append, reset, open, close or commit. In `SqlQuery` the service lists and
runs tasks. In `TableDownload` goroutines run, the service gets an asynchronous session
ready, the application opens what it has not read yet, and a cache entry from before a move
grows old (`DNSCacheExpireTime` is finite): until then a request may spend its deadline on
silent addresses again and again. Faults and reschedulings are bounded by constants, which
stands for "eventually the network settles".

## 4. Findings

1. `record_pack_stream_writer.go:51`. After a failed `Flush`, `Append` refuses records
   and says "call flush to retry or call Reset to drop the data". The refusal itself is
   stored as append error, so `Flush` no longer sends; and `Reset` does not clear
   `flushing`, so the writer refuses everything for good. (`RefusalCanBeResolved`)
2. `rest_client.go:182`. If signing fails `Do` returns without closing the body; the
   producer waits in the pipe and the sender at the channel, for ever.
   (`CallsAlwaysReturn`)
3. `record_batch_reader.go:114`. `Read` returns `io.EOF` for checksum errors and
   truncation too. (`EOFMeansAllRecords`)

Observations made while modelling that have no run of their own:

- `stream_upload_session.go:417`. The stale mark is cleared before the reload is answered,
  so another goroutine's retry meanwhile uses the list that just failed, which the comment
  at line 265 says it does not. The mark is restored if the reload fails: nothing is
  lost (`EvidenceKept`) but an attempt.
- `upload_session.go:252`. `Commit` compares lengths and membership, which the list
  `[1, 1]` passes when the service has the blocks 1 and 2. The commit then takes both: block 2
  gets into the table though the caller did not list it, and the message of line 250 that
  would tell of it is not returned. What holds for such lists is in `NoClosedBlockOmitted` and
  `CommittedAsListed`, with the rest as their named exception.
- `table.go:125`. Two Loads of one handle that decode at one time, of different
  descriptions or the first ones, can leave a type put together from two, or fail, with a
  panic of the JSON decoder too. The exception `crossed` of `LoadIsFaithful`; without it the
  property is violated.
- `tunnel.go:186`. Two goroutines that both find the endpoint empty both set it, although
  the comment at line 61 says that once set it cannot be modified anymore; and a RestClient
  made while one of them is between the words of the string has an endpoint put together from
  two. The exception `torn` of `EndpointIsNamed`; without it the property is violated.
- `dnscache.go:41`. Once the host has moved, addresses in the cache that do not answer
  use up the deadline of the request, and the dial by name that would succeed fails. The
  exception `old` of `CalmDialSucceeds`; a Tunnel without a timeout has no such deadline.
- `data_type_parser.go:189`. A decimal without parameters inside another type
  (`ARRAY<DECIMAL>`) is refused, so that a table with such a column cannot be loaded. The
  exception `Unreadable` of `LoadIsFaithful`.
- `instance.go:135` and `:369`. Exceptions written into `WaitMeansSuccess`: once `Load`
  or `CreateTask` has stored results `WaitForSuccess` returns nil without looking at them,
  also when they are of tasks that failed or still run, and a status the client does not know
  counts as success.
- `schema.go:60`, `function.go:74`, `resource.go:212`. After a request without an answer
  `Exists` returns `(true, nil)`; `table.go:336` has the missing check. An exception
  written into `ExistsIsHonest`.
- `resources.go:112`. Bytes a reader returns together with `io.EOF` are dropped. An
  exception written into `ResourceIsWhole`.
- `table.go:118`. `beLoaded` is set before the request. After a `Load` that failed,
  `Preview` does not load and converts rows without columns; it recovers the panic and
  fails until `Load` is called again. `Preview` also ends quietly on a body that was cut
  off (`arrow/ipc/reader.go:199`).
- `data_type_parser.go:112`. `consumeToken` panics on a name that ends early, such as
  `ARRAY<`; a word behind the last mark is ignored by `tokenize`.
- `project.go:184`. The error is wrapped before its type is asserted, so `exists` stays
  as it was after a 404.
- Functions and resources leave the bodies of some answers open (`functions.go:65`,
  `resources.go:289`), and every call on an object makes an http.Client of its own because
  the REST client is copied before it has one.
- The empty arrow stream (`arrow_stream_writer.go:87`, no size word) is excluded from
  `RoundTrip`.

## 5. Proofs

All theorems are for any values of the constants that satisfy the named assumptions.

- **`StreamUpload_proofs`**: `TypeCorrect`, `SlotsAlwaysAvailable`,
  `AcknowledgedIsStored`, `NoDuplicateWithoutLoss`, `OnlyWholePacksAreSent`, from the
  inductive invariant `IInv = TypeOK /\ SlotsAvailable /\ WriterInv /\ OwnerInv /\
  StoreInv`. None of the properties is inductive alone. `WriterInv` says that a
  buffer is a pack or the records of one, and that a goroutine inside `Flush` holds one
  that may be sent. `OwnerInv` says that records belong to one writer and that those of
  a pack under way are not acknowledged; without it an acknowledged record could be
  sent again. `StoreInv` says that a record is stored at most once unless
  an answer was lost, and if stored is acknowledged or held by a goroutine that has
  *received* the 2xx (`Confirmed`): that is what rules out a retry after a commit.
  The same invariant carries `FailureKeepsThePack` and the step simulation
  `SessionIsAtLeastOnce`: appends are `Give`, a stored pack is `Deliver`, a lost answer
  `LoseAnswer`, the return of `Flush` `Acknowledge`, everything else a stutter.
  `StaleRoutingIsRemembered` proves `EvidenceKept`.
- **`HttpConn_proofs`**: `ConnTypeCorrect`, `ReportedIsStored`, `EndedIsWhole`,
  `SenderIsGone`, from `PipeInv` (what was read of body and footer against what was
  written), `CloseInv` (the pipe is closed only after the whole footer or a failure) and
  `OutcomeInv`; and `ConnectionIsARequest`, the simulation of `UploadRequest`.
- **`UploadSession_proofs`**: `CommitIsExact`, `CommitOmitsNothing`,
  `UploadTypeCorrect`, `FailureIsHonest`, `LaterCloseWins` and `WritersAreRequests` (the
  simulation of `UploadRequest`), for lists of any kind. `CommitInv` says that from the
  check on the service has what the list names, and that for a list without duplicates
  what it has is the list and what has landed since. The step that matters is
  `CheckIsExact`: equal length and membership are equality for a list without duplicates,
  by the cardinality theorems.
- **`SqlQuery_proofs`**: `StatementRunsOnce`, `ConflictsAreBounded`,
  `WaitedForSuccess`, `EveryRowIsRead`, `QueryTypeCorrect`, each from its own invariant
  (`CreateInv`, `ClockInv`, `WaitInv`, `RowInv`, `TypeInv`).
- **`TableDownload_proofs`**: `ClientIsMadeOnce` from `ClientInv` (a session is loaded by one
  goroutine before another can use it), `CalmDialsConnect`, and `EveryRowOnce`.
  `CalmDialsConnect` rests on `FreshInv`: every word of a slice made since the last move, and
  of what a shuffle of one holds in its hands, is of an address the host has, so that a dial on
  such a slice meets no silent address; it needs that a slice still in use is not made again
  (`DialTypes`) and says nothing of dials on older slices. `EveryRowOnce` rests
  on `Shares`, a lemma on integer division: the shares `(g-1)*n \div k` to `g*n \div k` lie
  one behind the other and cover `1..n`; and on `RowInv`: a row has been handed out
  once if it is among the first `taken` of its share, and what is before a reader is the
  rest of its share or nothing.

- **`Resources_proofs`** (about `Catalog` and `Resources`): `ExistsTellsTheTruth`,
  `LoadGetsTheType` and `MergedFilesAreWhole` rest on `CallInv`: where a goroutine can be in
  which call (`PlaceInv`), that what an upload has hashed and what it has still to read are its
  file (`UploadInv`), what an object can be (`ObjectInv`), and that what was there throughout a
  call is there now and what is there now was there at some time (`HistoryInv`); the answer of
  the last of two requests is not inductive without the history. `ListingsAreComplete` adds
  `ListInv`: up to the marker what was handed out and the page at hand have every
  name that was there throughout, and none twice. `ClientsHaveNamedEndpoints` has
  `EndpointInv`: no word of the tunnel's endpoint is of the text beside an error, and as long
  as it is not torn it is whole but for one goroutine's store. `LoadGetsTheType` has
  `WordInv` (every word on its way into the handle is of a type the table had) and, until
  decodes cross, `AloneInv`: decoders there are at one time have the same description, find
  the words they have stored, and meet no array that is replaced under them. It is for any
  parser that reads the names it accepts as the types they were written for and refuses those
  of `Unreadable` only (`ParserReads`); that the parser of `DataTypes` does so for the types
  of the `catalog` run is what the run shows, since its recursion is beyond the prover.
- **`ProtocStream_proofs`**: `ReadersAreFaithful` and `WholeStreamsAreRead`. The invariant
  describes the stream by the places of its end tags (`Layout`, a choice `e` of a place for
  each record) and not by the calls that wrote it: checksums are at those places and nowhere
  else, and a record is alone in front of its own (`Clean`) or its checksum is broken: a failed
  write leaves a tag without its value in the checksum for good (`FailureBreaks`,
  `BrokenStays`), and what a reader computes has a value behind every tag. The reader has read the records up to one of those places
  and some pairs of the next (`RecordsRead`, `PairsRead`); a pair of the checksum is a pair of
  the record that was written (`FieldsArePairs`).
- **`ArrowStream_proofs`**: `StreamsAreFramed`, `ReadersAreFaithful`, `WholeStreamsAreRead`,
  for any chunk size and length of a message. `Written(F)` says that `F` chunks are full,
  what each of their cells is, what the two checksums were computed from, and that a cell of a
  checksum is nowhere else; it is kept by every call of `Write` however the data is cut
  (`LoopStep`), and in a closed stream it is the layout `Framed` (`ClosedIsFramed`). The
  argument about the reader is arithmetic on places: a reader with the right chunk size that
  has loaded `m` cells stands at the start of a chunk, and one with another size at the head of
  the stream or at its end (`AtChunk`). A chunk is accepted only if its last cell is that of a
  checksum of what was loaded; such cells are where `CrcPlaces` says, and their values leave
  only the chunk at hand or the whole stream (`FullChunkRead`, `LastChunkRead`). That is why a
  changed chunk size is found although it is under no checksum of its own.

Where a proof needs induction (the fields in front of a column, the names on a page) it takes
the least element of the set of counterexamples (`LeastElement`), since the theorems on
induction that take an operator cannot be used. The layout of the arrow stream is stated by
windows of the stream (`Framed`) and not by concatenating a sequence of chunks.

Assumptions are the named `ASSUME`s of the modules (`TransportAssumption`,
`DownloadAssumption`, `QueryAssumption`, ...), which TLC evaluates in the runs.

Only model-checked: everything under fairness (`FlushReturns`, `RetryDelivers`, the
`CallsReturn` of three modules, `DownloadFinishes`), which is beyond the prover; and that the
parser of `DataTypes` reads every name as its type, which is induction over types. Every
invariant and every safety action property of a passing run is a theorem.

## 6. Mutants

Every property has a mutant: a plausible mistake in the code (a dropped guard, a
status not looked at, a sequence number off by one) written as an operator next to
the original, under which TLC finds the property violated.

## 7. Not modelled

Signing, compression, value and text conversion, `trunc_time`, SQL text, configuration, log
views, tenants and options: no state or no interaction. The security manager: one request
and its decoding per call; the poll of an authorisation query is the loop of
`WaitForSuccess`. Instance lists, progress and summaries. Varints and floating point on
the wire: a value is a token. Checksum collisions: a checksum is ideal.

More than two thirds of the repository's Go code is a vendored and in part generated copy
of Apache Arrow (`src/arrow`), examples and tests. Only the two consumers of the framed
stream in `arrow/ipc` are modelled; the builders, arrays, memory and Flight code carry none
of the SDK's own logic. This is why the mapped lines are a small share of the repository.

## 8. Plan

Done, in this order: stream upload, connection, block upload, streams, queries; then the
abstract specifications and refinements, transport and table download, the catalog with the
type parser, resources, and the proofs of section 5, those of the streams and the catalog last. What could follow: the arrow reader of
the instance result session, `trunc_time` against a reference definition, and the poll of
authorisation queries.
