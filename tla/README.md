# Verification of the manka-shreds SDK

TLA+ models of the client libraries for the manka-shreds stream, the TLC runs
that check them on small instances, and proofs of the results that hold for
every instance. The repository has three SDKs that speak one protocol: Rust
(`src/rust`), TypeScript (`src/typescript`) and Python (`src/python`). The
server, called the node, is not in the repository.

## The system

A subscriber opens a connection to a node over QUIC or TCP, the two prove
possession of one key to each other, a compression dictionary is settled, and
the node then streams frames until one side closes.

| Part | State it keeps | Operations | What makes it correct |
| --- | --- | --- | --- |
| connect and the handshake (`client.rs`, `handshake.rs`, and the same in TypeScript and Python) | bytes not yet parsed, nonces, the dictionary offered, the one acknowledged | resolve, open, Hello, Challenge, Prove, HelloAck, Dictionary, each read under a timeout | the client's proof goes only to a peer that proved the key first, on the same session; the decoder is the acknowledged dictionary; no byte past the handshake is lost; connect returns |
| event loop (`client.rs` `next_event`, Python `next_event`) | `pending`, `expected_seq`, `gaps`, `wire_bytes`, `decoded_bytes` | next_event, set_filter(s), ping | frame boundaries survive partial reads and dropped calls; gaps and bytes are counted once; buffers are bounded; Pings are answered |
| the TypeScript client's queue (`client.ts`) | chunk buffer, backlog, paused flag, waiting consumers | onData, drain, emit, next, close, fail, finish | order, bounded backlog, no lost wake-up, an end for every iterator |
| transport (`transport.*`) | socket or QUIC streams | open, read, write, pause, close, channel binding | bytes in order, the binding names the session the client sees |
| dictionary cache (`dictcache.*`) | a directory of files, their modification times | newest, load, store, prune, touch | what is published is whole, newest is the latest used, at most KEEP are kept |
| wire protocol, transactions, events (`protocol.*`, `transaction.*`, `events.*`) | none | encode, decode | every length is checked against what is left |
| errors, crate root, package index | none | - | - |

The parts interact by calls inside one client. The cache is the exception: it
is a directory that any number of connections and processes share without a
lock, and it links one connection to the next, since what is stored is what the
next connection offers.

What is hard here: reads that end anywhere, calls dropped at an await (Rust
futures, `asyncio` cancellation), data callbacks against a consumer's pull
(TypeScript), a peer that may send anything at any time, timeouts, processes
that die inside a store, and three implementations that differ in detail.
`PROJECT.json` lists each hazard at its line.

## The modules

| Module | Models | How |
| --- | --- | --- |
| `Session` | the promise of opening a connection, whichever SDK opens it | abstract; five variables; implemented by `Connect` and by `Exchange` |
| `Handshake` | frames, proofs, the state of a connection being made, and the other end | shared by the clients; the node (`Server...`), relays and impostors are external |
| `Connect` | `Client::connect` of the Rust SDK | one action per frame handled, per wait begun or ended, per timeout; the cache between connections |
| `Exchange` | `connect` and `exchange` of the TypeScript SDK, `connect` and `_handshake` of the Python one | one loop that handles whatever frame is in front, under one timeout, over `Handshake` |
| `Feed` | what a node sends once streaming | external: numbered frames, dropped numbers, Lag reports, as cells of header and payload |
| `EventLoop` | `next_event`, `read_frame`, `set_filter(s)`, `ping`, `Wire::read_buf` and `Wire::write_all` of the Rust SDK | one action per stretch between two awaits, and one for dropping the call at an await |
| `PyClient` | `next_event`, `_iterate`, `set_filters`, `ping` and `close` of the Python SDK | one action per half of a frame and per wait, and one for a call cancelled at a wait, over `Feed` |
| `TsClient` | `MankaShredsClient` of the TypeScript SDK once connected, and its wrapped socket or QUIC pump | one action per frame drained and per callback, over `Feed` |
| `Transaction` | `Transaction::read` of the Rust SDK and the accessors that slice what it accepted | one action per section taken and per table entry checked |
| `Bodies` | the readers of every event and message body, and what `next_event` returns for each kind | extends `Transaction`; what a reader needs and the fields it loads, as data |
| `DictCache` | `DictionaryCache` of the Rust SDK | one action per call on the file system or the clock, each of which may be refused, by processes that may die |
| `HandshakeProofs`, `ConnectProofs`, `ExchangeProofs`, `FeedProofs`, `EventLoopProofs`, `PyClientProofs`, `TsClientProofs` | theorems about the module each is named after | checked by TLAPS; `HandshakeProofs` and `FeedProofs` hold the lemmas the others share |
| `DataProofs` | theorems about `Transaction`, `Bodies` and `DictCache` | checked by TLAPS |
| `MCConnect`, `MCExchange`, `MCDictCache` | instances for TLC | dictionary ids, symmetry; the other modules are checked as they are |

### Handshake and Connect

`pc` is how far `connect` has got: `resolving` (`lookup_host`), `opening`
(the transport), `hello` and `prove` (its two writes), `challenge`, `ack` and
`dictionary` (the frame `read_frame` awaits), then `streaming`, or `failed`
when `?` returns. `log` is every frame the other end wrote, `arrived` how many
of them are in or have been through the buffer, `consumed` how many were
drained from it: a read may bring any number of frames. Keys, nonces and hashes
are abstracted to what a proof depends on: which key made it and which session
it speaks of. An impostor does not hold the key; a relay holds two sessions
with different certificates, which only QUIC shows. A node in `Faulty` writes
any frame whenever it likes.

Resolving and writing have no timeout in the code, and none in the model;
opening and the three reads have one each, counted in ticks (`waited`). That is
not what the setting is documented as, see below.

The cache appears in `Connect` as a list, most recently used first, as
`DictCache` justifies for a directory nobody disturbs: `newest` is its head,
`store` puts a dictionary first and prunes.

### Exchange

The TypeScript and Python SDKs do not await one frame after the other. Both
loop over the frame in front and decide by its kind and by what came before:
whether the server has proved itself, and whether an acknowledgement announced a
dictionary. `pc` stands for both: `resolving` until the transport is up, `challenge`
while nothing is proven, `ack` until the acknowledgement, `dictionary` while one is
awaited, and in Python `hello` and `prove` while those are written. A challenge may come again before the acknowledgement and is then
proved again. The whole runs under one timeout. `sdk` tells the two apart
where they differ: TypeScript looks at the buffer when a chunk comes and stops
at the Challenge, so `due` says whether bytes came that were not looked at.

### Feed and EventLoop

A frame travels as cells, `HeaderLen` of header and then its payload, so a read
can end inside a header, inside a payload or past the end of a frame. `Data`
stands for every kind that becomes an event without changing the client, unknown
kinds included; `Failing` for what is accounted for and then returned as an
error (an Error frame, a Dictionary mid-stream, a body that does not decode).
A payload may be one that does not decompress, or compressed with a codec that
was not asked for. A node that falls behind drops what it would have sent, and the
numbers of what it dropped are used up; a Lag may report them. What number the Lag
itself has is not said by the clients: `Feed` gives it the first of those it reports, or
zero. A Lag numbered behind them is assumed not to be sent: the Rust client would count
the same frames by the Lag's number (client.rs:713-715) and by what it says
(client.rs:732).

`next_event` is `looking` (deciding from what `pending` holds), `reading` or
`writing`, the two places it can be dropped. `set_filters` and `ping` are
`writing` too, and may be dropped there. `out` is what was begun to be written
and what is left of each frame: a write that fails or is dropped leaves part of
its frame unwritten, and the next frame starts behind that part. Over QUIC a read
extends `pending` with zeros up to its capacity before it waits, as `read_buf`
does. Once zeros stay there, a header may be read from zeros, from the middle of a
frame, or from the end of one thing and the beginning of the next (protocol.rs:398-420):
`Misread` lets such bytes say any kind, codec, length and number, lengths and numbers being
out of `Noise`. A payload with zeros inside it is `Torn`: it decompresses and
decodes, or fails to.

### PyClient

`pc` is the half of a frame a call reads, `header` or `payload`, `ponging` while
the answer to a Ping is drained, or `idle`. The header leaves the buffer before
the payload is awaited (client.py:511), so a call that ends in between, by
cancellation or because the connection did, leaves the stream `torn`; `InStep` says nothing else does. A call begun through
`_iterate` ends the iteration where `next_event` raises. `close` may come from
another task while a call waits.

### DictCache

Processes step through `newest` and `store`, one call on the file system or the clock at
a time. `newest` lists the directory name by name, sorts, and reads and hashes one candidate
after the other: an intact one is touched and returned, a damaged one removed. `store`
creates, fills and renames a temporary file, touches, lists and prunes. `touch` is three
steps, `ReadClock`, `Open` and `SetTimes`, so the times of two processes may be
set in another order than they were read, or on a file whose name has gone to
another since (`opened`). A process may die between any two steps, and something else may
damage a file.

dictcache.rs:20-22 calls read-only and full disks normal, and the code drops most errors, so
the file system may refuse anything:

| Refused | In the code | In the model |
| --- | --- | --- |
| `read_dir`, or a name of it | 188-192: what was not listed is not there | `ListFails` |
| a file's time | 196-200: it was last used at the epoch | `List` |
| reading a candidate | 130: the next is tried | `Load` |
| removing a damaged file | 132: it stays | `Discard` |
| opening or stamping in `touch` | 136, 181: nobody asks | `TouchFails` |
| creating, writing, renaming | 168-175: the store ends | `StoreFails` |
| removing the temporary file after that | 169, 173: it stays (`littered`) | `StoreFails` |
| removing a dictionary past KEEP | 214: it stays (`spared`) | `Prune` |

`last` records when each dictionary was last stored or loaded, whether or not its file was
stamped, and the properties compare it with what the modification times make of it. `late`
holds the ids whose file was not, or not yet, stamped with that. A renamed file keeps the
time of its write, by a clock that may be one tick behind, until touch stamps it. `stale`
holds, for each process, the ids of which its listing tells what is no longer so,
because another process stored, stamped or removed that file since the process began to
list, or never was, because the file system refused it. It is kept per id: what others do to
one file does not excuse what a process does to another. `NewestIsLatest`, `NewestFinds` and
`RemovesOnlySpent` speak of the ids that are not stale. Of one that is, nothing can be
promised without a lock: a prune may remove a file another process has loaded since it was
listed, and `load` may remove one that was replaced since it was read. Either
dictionary is then sent again.

### TsClient

The event loop of Node runs one callback at a time, so `pc` is `idle` between
callbacks and `draining` (or `constructing`, for what came behind the handshake's
reply) inside `onData`. `Refusal` is an Error or a Dictionary mid-stream, which
fail and close while the drain goes on; a frame too large, a foreign codec or a
`Failing` frame throws out of the drain, which leaves the buffer as it was.
`pending` and `failed` hold numbers of calls for the functions that resolve and
reject them. `flowing` is the socket's flow or the gate of the QUIC pump, `pump`
the pump (`reading` for a TCP socket). What the QUIC library does with a read under way
when the connection is destroyed is not known, so it may still bring a chunk;
`InOrder` and `BacklogBounded` except that case. The constructor resumes the
transport whatever the backlog; `TsClientAssumption` says why that is harmless:
no chunk holds as many headers as the backlog has room for.

### Transaction and Bodies

Bytes are not modelled: a body is its length and the numbers it declares. A
transaction's header declares how long eight sections are; `starts` is where
those taken so far start, `table` and `lookups` the entries checked so far. Each
entry is read, as any numbers at all, when the code reads it. The accessors are
operators, and `SlicesInside` compares the slice each takes with its section.
`Bodies` gives, for each kind, what the reader requires and where each field lies;
`FieldsInside` says that a body that is accepted holds them all, for the bodies
that declare a length of their own too, and `NewerNodeRead` that a longer
body or an unknown kind never makes a client fail that read the shorter one.

## The runs

| Run | Instance | Shows |
| --- | --- | --- |
| `connect_quic` | QUIC, one faulty node, two dictionaries, one connection, up to two frames unread, timeout of one tick | `NothingDisclosed`, `DecoderAgrees`, `HandsOver`, `ImplementsSession` |
| `connect_reconnect` | TCP, one correct node, four connections, one change of its dictionary | `DecodesWhatNodeSends`, `NeverResent`, `ConnectReturns` |
| `connect_two_nodes` | two nodes with a dictionary each, four connections | `NeverResent` does not hold |
| `exchange` | both SDKs over QUIC, one correct and one faulty node, three frames | `HandsOver`, `StrandsOnlyRefusals`, `ImplementsSession`, `ConnectReturns` |
| `event_loop_tcp` | three frames, one lost, header of two cells, payload of up to two with one accepted, reads of up to three cells, one frame sent by the client, one dropped call | `TypeOK`, `Boundary`, `GapsExact`, `WireBytesExact`, `BufferBounded`, `PingsAnswered`, `Delivered` |
| `event_loop_quic` | two frames over QUIC | `PendingWasRead` does not hold |
| `event_loop_wire_bytes` | two frames over TCP | `WireBytesReceived` does not hold |
| `py_client` | three frames, reads of up to two cells, one cancelled call, one frame sent by the client, closed at any time | `TypeOK`, `InStep`, `PingsAnswered`, `Delivered`, `CloseEnds` |
| `ts_client` | TCP and QUIC, four frames, chunks of two cells, one payload cell accepted, a backlog of two that resumes when empty, three calls of `next` | `TypeOK`, `InOrder`, `NobodyWaits`, `BacklogBounded`, `Served`, `TcpEnds` |
| `ts_client_close` | two frames over QUIC | `IteratorEnds` does not hold |
| `bodies` | every kind at the lengths around what its reader needs; transactions with none or two of each thing | `SectionsLaid`, `SlicesInside`, `ReadsWhatFits`, `FieldsInside`, `NewerNodeRead` |
| `dict_cache` | two dictionaries, room for one, two processes, three calls, one process that dies or one refusal that leaves a file, any other refusals, one damaged file | `PublishedWhole`, `NoLitter`, `KeepsFew`, `NewestFinds`, `NewestIsLatest`, `RemovesOnlySpent` |

`CHECK_DEADLOCK FALSE` is set where the bounds or the end of a connection stop
the system.

Why the bounds are enough. A handshake has at most three frames of the node's,
and two unread ones are enough for each to be coalesced with its successor. Two
dictionaries tell the right one from a wrong one. Reconnecting needs a first
transfer, a second connection that offers it, a change and a return: four.
`Exchange` needs three frames for a challenge, an acknowledgement and a dictionary,
or for a challenge that is repeated before the acknowledgement; that its two nodes
begin with equal dictionaries loses nothing, as a connection is to one of them.
Three frames are enough for a drop to be reported between two frames by a Lag, by
the numbers or by both; reads of three cells straddle every boundary of a frame of
two or three. One frame sent by the client is enough for it to be cut off before
a Pong, or behind one. In `PyClient` a cancelled call needs one frame to be torn
and a second and a third to show where reading goes on. Two dictionaries with room for
one make a prune choose and give `newest` a second candidate; three calls allow two
stores and one that prunes, or two stores and a look for the newest, by two
processes, and one mishap is enough to show what it leaves behind. Refusals that leave no
file behind have no bound. An instance with three dictionaries and room for
two was checked as well, with the same result. A backlog of two pauses in the middle of a chunk, and a
fourth frame can only be reached by a transport that was resumed or by a chunk
read before it was paused. In `bodies` each length lies at, one below or one
above what some reader needs, and with two of each thing an entry has a
predecessor and a successor.

The bounds are `MaxConnections`, `MaxUnread`, `MaxRetrains`, `MaxFrames` (in
`Feed` the frames of the stream, in `Exchange` those of one handshake, since a
node may challenge for ever), `MaxLost`, `MaxWireBytes` (so that retries of a
frame that cannot be decompressed end), `MaxSent` (frames after which
`set_filters` and `ping` write no more; Pongs are not counted), `MaxCancels`,
`MaxCalls`, `MaxMishaps` (processes that died, and refusals that leave a file behind) and
`MaxDamage`. `Long` is a payload past the limit, `FilterLen` the length of the filters, and
neither has a meaning beyond it. `Noise`, the lengths and numbers that bytes which are no
header may say, is {0, 1, 2}: nothing, what is accepted and what is not. It
matters over QUIC only; the proofs take any set of numbers.

Fairness. `Connect` assumes that the runtime's timer fires (`Tick`,
`TimedOut`), that the resolver answers and that the transport takes a frame of a few
hundred bytes; nothing is assumed of the node. The last two are not guaranteed by the code:
`lookup_host` (client.rs:338) and `write_all` (client.rs:403, 454) run under no
timeout. `Exchange` assumes the timer and, for Python's two writes, which
`wait_for` does not cover, that the transport takes them. `EventLoop` and `PyClient` assume
that the consumer calls `next_event` again and that the runtime polls it, that bytes on the
wire arrive, and, while a Pong or another frame is being written, that the transport takes
more of it, that is, that the node goes on reading: the code has no timeout on
these writes. The connection may still be lost at any time. `TsClient` assumes that the event loop
runs its callbacks, that the transport delivers what is on the wire or reports
its end, and that the consumer goes on asking.

### What the violated properties say

* `NeverResent` with two nodes: client.rs:75-76 says a dictionary is paid for
  "once ever rather than once per connection"; only the newest is offered.
* `PendingWasRead`: client.rs:320 says `pending` holds bytes read from the
  socket; over QUIC it also holds zeros after a read failed or was dropped.
* `WireBytesReceived`: client.rs:621 says `wire_bytes` is the bytes received; a
  frame that does not decompress is counted again by every call.
* `IteratorEnds`: client.ts:595 says of `close` that "The iterator ends."; over
  QUIC the pump tells nobody once the wire is marked closed, so a call that
  waits, or is made afterwards, is never answered.

### Observed on the way

One more disagreement between the code and its documentation, which no run is about:

* client.rs:83 says of `connect_timeout` "How long to wait for the handshake." The
  Rust `connect` gives the whole of it to each of up to four waits, opening the transport
  (client.rs:357), Challenge, HelloAck and Dictionary (407, 457, 501; `Timed`), so that a
  handshake may take four of them, and resolving and writing come on top.
  TypeScript and Python have one for the whole exchange. There is no deadline in the Rust
  code that a property could be about; `ConnectReturns` says that the waits end.

The repository says nothing to the contrary of the others:

* Dropping a Rust `set_filters`, `ping` or `next_event` while it writes may leave
  part of a frame on the wire, inside which the node then reads the next one.
  `PingsAnswered` counts such frames: at most one for each dropped call.
* A Python call cancelled between a header and its payload leaves the stream out of
  step for good (client.py:511); `InStep` is stated up to that.
* The Python cache does not touch what it stores (dictcache.py:151), so a file
  keeps the time of its write, which another's use may outrank; this is the
  mutant of `NewestIsLatest`.
* TypeScript and Python do not compare the protocol version of the
  acknowledgement; Rust does (client.rs:477).
* TypeScript and Python answer every challenge they are sent before the
  acknowledgement; a repeated one discloses nothing new (`ExchangeProofs`).
* A refusal coalesced behind a Challenge is looked at by TypeScript when the next
  chunk comes, so it is reported as the closed connection that follows;
  `StrandsOnlyRefusals` says that no other frame is passed over so.

## What is proved

Every theorem is proved for every value of the constants, from the assumptions
the modules state and the runs evaluate.

**Handshake** (`ConnectProofs`, `ExchangeProofs`). For every set of nodes and
dictionaries, every timeout and every behaviour of the other end:
`DisclosesOnlyToGenuine`, `DictionaryAgreement`, `HandOver` and `Implements`
(`Session` is implemented) for all three SDKs, and `TypeCorrect` for Rust. They assume that the faulty nodes are nodes, that the absence
of a dictionary is not one, that ids are positive, that the timeout and the cache
have room for at least one. None of these properties is inductive. The invariant
`IInv` adds `Progress`, which says what each place in the handshake already implies:
how many frames were drained and of which kinds, that the proof has been sent once
the acknowledgement is awaited, and that a dictionary is awaited only when none is
kept. In `Exchange` the number of frames is not known, since
challenges may repeat: `Progress` says instead that all that were drained before
the acknowledgement are challenges, and a repeated one maps to a step of
`Session` that discloses again what was disclosed. `VerifiedIsGenuine` is the lemma
about proofs: every frame in `log` carries a proof its writer could make
(`ProofsUnchanged` keeps that through a step), so a proof the client accepts can
only come from a peer with the key, on the session the client sees.
`OtherEndAppends` says the other end only ever adds to `log`, so what the client has
handled stays as it was. Each action has its step in `SafetyClient` and
`SafetyNext`, the temporal theorems combine them, and `PromiseNext` maps every step
to a step of `Session` or a stutter.

`DecodesAsEncoded`, for all three SDKs, is about the other end as well: with a node
that keeps to the protocol, decoder and encoder have the same dictionary. `Faithful`
carries what such a node has written (one Challenge, then what its own state says),
and `FaithfulRetrain` says that an operator changes no dictionary the connection
was promised. It is proved under `NoCollision`, that different dictionaries have
different ids, as the instances of the runs have it: an id is a 32-bit hash
(dictcache.rs:13-16, 37), and with two dictionaries of one id a client that offers its own
is told to keep it.

`PaidOnce` and `PaidOnceOfOneChange` are about the cache from one connection to the next:
with one node that keeps to the protocol, the cache on and no dictionary configured
(a configured one is offered instead of the cached), `NeverResent` holds as long as the
dictionaries an operator gives the node are new to the cache (`Novel`), which one change
always is. `InFront` is why offering the newest is enough: if the cache has the
dictionary the node compresses with, it is at the front. `OfferStands` says that what was
offered does not go stale while the handshake runs. A node that goes back to an earlier
dictionary is sent it again, as two nodes that take turns are (`connect_two_nodes`).

`Strands` says of the TypeScript client what it may leave in its buffer unlooked at: `Unseen` is what
came behind a Challenge in one chunk, and `Honesty` that a correct node writes only an
Error there, since for anything else it waits for the client's proof.

**Event loops** (`FeedProofs`, `EventLoopProofs`, `PyClientProofs`, `TsClientProofs`). `Framed` says
of a stretch of cells that it is whole frames, in order, each once. It stays so when
a frame is written behind it (`FramedWritten`) and when the frame in front is taken
(`FramedTaken`), whatever lengths frames have. `EventLoop` keeps its place because
what is read and what is on the wire are together `Framed`: that is the part `InPlace`
of its `IInv`, next to `Reads` (how far a read may go, hence `Bounded`), `Sends`
(a dropped call leaves at most one frame unfinished) and `Answers` (as many Pongs begun
as Pings taken). `TypeCorrect` and `Bounded` hold over both transports, whatever
bytes that are no header say. Numbers and counts are natural numbers there: the 64-bit sums of
client.rs:714 and 732 are not proved not to overflow. `KeepsItsPlace` and `AnswersPings` are proved over TCP, and do
not hold over QUIC, where a dropped read leaves zeros (`event_loop_quic`).

`CountsEachGapOnce` and `CountsBytesOnce` are about the two counters, over TCP. For the
gaps, `Numbers` says how the node numbers what it writes: between two frames lie exactly
the numbers it dropped, whether a Lag tells of them or the next frame's own number does.
`Accounted` says that `gaps` is how many of those below `expected_seq` there are, and no
more than that once frames were skipped. For the bytes, `Tallied` says that those counted,
those in `pending` and those on the wire are all the cells of the frames written
(`CellsGrow`); a frame in front that can never be taken stays there (`StuckStays`), which
is when the promise ends, and it is the case in which `event_loop_wire_bytes` counts
bytes twice.

`PyClient` reads a frame in two halves, so `IInv` says where a call may stand between
them: `Front` puts a header that was taken back before its payload, and with it what is
in the reader's buffer and on the wire is `Framed` (`InPlace`), until `torn` is set.
`Tally` says that the cells counted and those on the wire are all there were, torn or not,
and `Answers` that as many Pongs were begun as Pings taken. From these follow `StaysInStep`, that a call which was not cancelled between two halves finds
the stream where a frame begins and has handed out every frame before it, and
`AnswersPings`. What a stretch of whole frames has in cells, and what remains of it when
a read cuts it inside a frame or between two, is said once for the Python and TypeScript
clients (`Parted`, `CutThrough`, `FrameAdded` of `FeedProofs`).

In `TsClient` the functions that resolve and those that reject are proved to be
of the same calls, each once and each still waiting, which `WaitsForNothing` needs.
`Bounded`: the transport is not paused while it delivers (`Gate`), so a chunk finds
less than the bound queued; and a chunk completes at most one frame begun before it and
those it has all the headers of (`Taken`). `Sequenced` is `InOrder`: the events taken off
the stream are those of its first frames (`Placed`, which is `Framed` of what is left), an
earlier call has the earlier of them (`Ordered`), and the calls that wait were made after
every call that was answered (`Lined`).

**Transactions** (`DataProofs`). `SectionsWithin` says where the sections lie,
`ReadsExactly` that a transaction is accepted exactly if its declared lengths and
every entry fit, `SlicesStayInside` that no accessor leaves its section. The
invariant places the sections taken so far one behind the other, aligned, and says
of the entries checked so far that they fit. `TransactionAssumption` says that the sum
of two 32-bit fields does not wrap in an index, which a 64-bit target gives;
on a 32-bit one it would.

For the other kinds of body, `LoadsWhatIsThere` and `OldFieldsStay` hold of any length,
any number declared and any kind byte. `Laid` is what is said of each reader: if what it
requires is there, its fields lie inside the body and apart. `ReaderOf` says the reader
depends on the kind alone, and `ReaderGrown`, for any longer body and not only those the
run tries, that it is satisfied again and finds its fields where they were. `ReadsTransactions`
says that `Bodies` implements `Transaction`, so the invariant of the one is there in the
other.

**Cache** (`DataProofs`). For any finite set of processes, `Published` and
`Tidy`: what is published is whole unless damaged from outside, and temporary files
are at most the stores under way, the processes that died and the removals that were
refused. The invariant adds `Numbered` (calls have numbers of their own, hence temporary
names do), `OwnFiles` (whoever writes has its file, and renames none that is not whole)
and `FewFiles`, the count.

`Few`, `Latest`, `Finds` and `Spent` need to know what a process in the middle of a listing
has missed. For `KeepsFew`, `Ordered` is an order of the beginnings of the listings under
way: a process may have missed only what those who began later published, each of which has
still to prune, and what it was refused. So the last to prune sees everything else, and what
is left is at most KEEP, one for each that has yet to prune, one for each that died before
it did and one for each name or removal a prune was refused.

The other three rest on `Order`, four parts. `Clocked` keeps every time within the clock.
`Uses` ties `last` to the files: none has a later time than that of its last use, and
one that is not `late` has exactly that. `Stamps` says that a touch under way will set no later time
either. `Fresh` is about each listing, one id at a time: a file that is not `stale`
is listed with the time it has, or yet to be listed; one `newest` has tried and passed over is
no longer intact or is stale; and for each file a prune is to remove there are KEEP others,
kept or taken away by another, used no earlier than that file was listed with. `FreshNext` has a lemma for each way a listing can change:
`Disturbed` for what others do, `FreshBegun`, `FreshList`, `FreshListed`, `FreshTried` and
`FreshPruned` for the steps of its own process.

Every safety and action property of a passing run is stated by a theorem. Only
model-checked:

* What is live (`ConnectReturns`, `Delivered`, `Served`, `TcpEnds`, `CloseEnds`), as
  fairness is out of the prover's reach.

## Not modelled

* TLS, opening a transport, certificate verification and pinning: libraries do
  them, and the handshake does not rely on them.
* The JSON of filters, the masks of streams and capabilities, the writers of Hello
  and Prove, the values of the fields of events, error texts, `decoded_bytes` and
  `message_bytes`: no property depends on them.
* The limits on the frames of a handshake: a frame past one is told apart only as
  one that was not expected.
* The decoders of TypeScript and Python: the same layouts as `Transaction` and
  `Bodies`, in the same steps, tested against the same fixtures.
* The caches of TypeScript and Python as modules of their own: they make the same
  calls in the same order as `DictCache`, but for the touch named above.
* `default_dir` and where a cache is; errors, crate root and package index, which
  keep no state.
* Of the cache: a listing that misses a file that was there all along, as a file system may
  allow while another is renamed, a system clock that goes back, and file systems that
  rename or remove an open file differently.
* Overflow of the 64-bit counters of `next_event` (client.rs:681, 714, 732): `Feed` and
  `Noise` have natural numbers.
* The node, beyond what clients expect of it.

## Plan

1. Done: `Session`, `Handshake`, `Connect`, `Exchange`; `Feed`, `EventLoop`,
   `PyClient`, `TsClient`; `Transaction`, `Bodies`; `DictCache`; the proofs above.
2. Done: theorems for every safety property the passing runs check.
3. An abstract queue that delivers each event once and in order, for `TsClient` to
   implement: `Sequenced` has the mapping, the first n frames of the stream.
4. A parameter of `DictCache` for the Python variant.
