# bare-network-inspect: TLA+ models, checks and proofs

This directory holds TLA+ modules that model the code under `packages/`, TLC
configurations that check them on small instances, and TLAPS proofs of what
holds for every instance.  `PROJECT.json` maps every definition to the source
lines it stands for, and lists the runs, the mutants that show each property can
fail, the hazards the properties are aimed at, and the theorems.

## The system

The package observes the network traffic of a peer-to-peer application and shows
it in a local viewer.  An application wraps its client or its transports; the
wrappers report lifecycle events; the events are staged, redacted and exported in
batches, over a WebSocket to a hub on the developer's machine or over a Hyperswarm
stream; browsers connect to the hub and merge the events of all devices into rows.
A second consumer of the same events, the collector, correlates requests with
answers and shows requests that nobody answered.

```
 wrapClient / adapters --report--> sink --> BatchFlusher --onFlush--> redactor
        ^                            |                                   |
        | __invoke (replay)          +--> CollectorSink --> Collector    v
        |                                       |             WebSocket reporter | Hyperswarm
        |                                       +--> RingBuffer          |
        +------------------------------- GUI server (hub) <--------------+
                                             |  history, sources
                                             v
                                          viewers
```

Envelopes of the protocol package (four encodings, with tables that make the compact
ones reversible) travel in length-prefixed frames; two clocks put the events of
several devices on one timeline.

| Part | Source | State | Operations | What is hard | What must hold | Modelled |
|---|---|---|---|---|---|---|
| Ring buffer | `bare-probe/core/ring-buffer.ts` | `buf`, `head`, `count`, `dropped` | push, iterate, toArray, drain, clear | wrap-around after a clear; a generator whose consumer mutates the ring | it is a bounded FIFO that counts its evictions | yes, proved |
| Collector | `bare-probe/core/correlator.ts` | `pending`, `settled`, `events`, counters | request, response, sweep | late answers, reused ids, three limits | bounded memory, no silent loss, truthful timeouts, no resurrection | yes, proved |
| Collector sink | `bare-probe/core/sink.ts` | none of its own | emit, sweep | fan-out built up while answers arrive | every request is accounted for, and ends | yes, proved but for liveness |
| Flusher | `bare-probe/core/flush.ts` | `batch`, timer, counters | add, flushNow, start, stop | a handler that throws half-way; stop between ticks | each row once and in order, holes counted | yes, order proved |
| Observe pipeline | `bare-observe/src/observe.ts` | flusher, exporter, in-flight table, call log | report, attach, stop, handleInvoke | rows before a stream is attached, batches that cannot be redacted | nothing leaves unredacted; a row ends once | partly, proved |
| Redactor | `bare-probe/core/redactor.ts` | the registry of peer handles | redactBatch, hashPeer, resolvePeer | values that throw while they are hashed; handles that collide | a handle stands for one peer; nothing raw leaves | yes, proved |
| Client wrapper, replay | `bare-observe/src/wrap-client.ts`, `observe.ts` | `seq`, invoke tag, tables | wrapped call, stream events, replay | the tag against organic and nested calls, decorated methods | each call starts and ends once; tags never leak | yes, proved |
| WebSocket reporter | `bare-observe/src/reporters.ts` | `ws`, `queue`, `closed`, timers | export, close, onopen, onclose | overlapping sockets that share one variable | announced first, in order, nothing lost but by overflow | yes, proved but for liveness |
| GUI server | `bare-observe/gui/server.mjs` | `HISTORY`, `sources`, `sourceRefs`, `sourceConns`, `browsers` | announce, event, hello, clear, invoke, close | reconnects that overlap, purges that race events | viewers agree with the hub; replay reaches a live device | partly, proved |
| Viewer | `bare-observe/gui/index.html` | rows by corrId, counters, devices | upsert, device registration, clear, replay | history replayed after a reconnect | a row tells what happened to one call | no |
| Adapters | `bare-probe/adapters/*.ts` | wrapped functions, listeners | instrument, restore | nested wrapping, order of restoring, polls under way | the application sees its transport; restoring ends the reports | yes, proved |
| Registries, identity | `bare-protocol/src/registry.ts`, `version.ts`, `identity.ts` | method and peer tables | intern, register, drop | hash collisions, tables that differ, version skew | a message decodes to what was sent, or is refused | partly, proved |
| Wire encoding | `bare-protocol/src/{encode,decode,cbor,utf8,ulid}.ts` | none | encode, decode | lone surrogates, cut messages, several widths | decoding undoes encoding; damage is refused | yes, proved |
| Framing | `bare-probe/transport/framing.ts` | receive buffer | encodeFrame, push | any chunk boundary; a handler that throws | messages come out whole, in order | yes, proved but for liveness |
| Logical clock | `bare-probe/clock/hlc.ts` | `l`, `c` | send, update, recv | clocks that jump backward, ties | order follows causality and is total | yes, proved |
| Offset, skew | `bare-probe/clock/offset.ts`, `skew.ts` | sample window, cached estimate | addSample, reestimate, estimate | estimates that outlive their window, two methods | the truth is within half the round trip the estimate rests on | partly, proved |

All of it is single-threaded JavaScript: a handler runs to completion, so one call
is one step, and interleaving happens between handlers of sockets, timers, streams,
promises and generators.  Where one function calls back into the application before
it returns (a wrapped method, a replay) the JavaScript stack is part of the state.
Nothing is persisted; there is no crash recovery to model.

## Modules

| Module | Models | Correspondence |
|---|---|---|
| `Bounded` | eviction of the oldest past a limit | `Newest`, `Excess` |
| `Selection` | `filter` on an array | `Only`, and `KeepIf` for one element |
| `BoundedFifo` | what an event store promises | abstract specification, refined by `RingBuffer` |
| `RingBuffer` | `ring-buffer.ts` | one action per method; the generator is `IterOpen`, `IterNext`, `IterDone`, one per `next()` |
| `Collector` | `correlator.ts` | `Request`, `Response` (three outcomes), `Sweep`; `Tick` is the clock |
| `CollectorSink` | `core/sink.ts` over `Collector` | `EmitStart`, `EmitAnswer`, `Sweep` |
| `MCBroadcast` | callers that broadcast through the sink | an environment that announces each target once |
| `Flusher` | `flush.ts` | `Add`, `FlushNow`, `Tick`, `Start`, `Stop`; the handler takes a prefix and throws, or takes all |
| `Pipeline` | `observe.ts` over `Flusher` and `Registry`, with `redactor.ts` and `exporters/hyperswarm.ts` | `Report`, `Ship`, `Starts`, `Stops` are the flusher's steps with the handler `OnFlush`; `Attach`, `Dies` for the streams; `Elsewhere` for another user of the redactor |
| `Calls` | `wrap-client.ts` and the replay side of `observe.ts` | `Start` and `HandleInvoke` push a frame; how a method returns, throws, or hands back a promise or a stream, and what that does later, are actions of their own |
| `WsReporter` | `reporters.ts` and its sockets | `Export`, `Open`, `Fail`/`Closed` (onclose), `PeerCloses`, `Timer`, `Close` |
| `GuiServer` | `gui/server.mjs` | one action per kind of frame (`Announce`, `Event`, `Hello`, `Clear`, `Invoke`), `Accept` for the upgrade, `CloseDevice` and `CloseViewer` for `onClose` |
| `Target` | what an adapter is given | the target (`transport`, `removable`) and what the caller's clock does in one call (`Clock`) |
| `DataTap`, `PeerTap`, `SocketTap` | `adapters/webrtc.ts` and `hyperswarm.ts`, `instrumentPeerConnection`, `adapters/websocket.ts` | instrument, restore, and what the application and the transport do in between |
| `Adapters` | `transport/contract.ts` over the three | the registry chooses the tap |
| `Utf8` | `utf8.ts` | both directions, as operators: `utf8Encode` unit by unit, the decoder byte by byte (`Octet`), its state between two bytes a record |
| `Numerals` | digits of a number, as frames, CBOR heads and ULIDs hold them | `Digits`, `Number`, `Fits` |
| `Cbor` | `cbor.ts` | both directions, as functions over `Utf8` and `Numerals`: `encodeItem` by the level of nesting, `decodeItem` by the position at which an item begins |
| `Registry` | `registry.ts` | the tables as values: `intern`, `lookup`, `Entered`, `Collides`, `Names` |
| `Envelope` | `encode.ts`, `decode.ts`, `ulid.ts`, `version.ts`, `identity.ts` over `Cbor` and `Registry` | `Encode`, `NewerSends`; an envelope, and the object that goes on the wire, are functions from fields to values; decoding changes nothing and is an operator of the properties |
| `Framing` | `transport/framing.ts` | `Send` (encodeFrame), `PushChunk`, and one step per pass of push's loop: `HandOver`, `Wait` |
| `Hlc` | `clock/hlc.ts` | `send`, `update`, `recv`; a message set that is never emptied |
| `Offset` | `clock/offset.ts`, `skew.ts` | `Probe` (addSample), `Reestimate`, `estimate`; `ciHalfWidth` |
| `*Proofs` | theorems | see Proofs |
| `MC*` | instances for TLC | |

`Pipeline` EXTENDS `Flusher` and adds the handler to each of its steps; `Envelope`
and `Pipeline` share `Registry`.  Three runs put components that do not touch each
other side by side, one to a behaviour, chosen by a variable that never changes:
`MCWire` (`layer`: texts, envelopes, frames, or the ring that keeps what came out of
them), `Adapters` (`transport`) and `MCClock` (`clock`).

Abstractions worth knowing before reading them:

- A pushed item, a staged row and an exported event is the number of its push, so
  order, loss and duplication are visible in the state.  History variables are
  marked as such where they are declared and never guard an action except as a
  named bound.
- `Collector.pending` is a function; the insertion order of the JavaScript `Map` is
  the field `born`.  `Map.set` on a live id keeps its place, and `WithRequest` does
  too.  The settled `Set` is a sequence without repetitions.
- The code compares `now - p.t` with `timeoutMs` and uses timestamps for nothing
  else that a row's content depends on (`t` and `rtt` are left out), so an entry
  carries its age, saturated one past the timeout.
- `events` of the collector is the ring by its abstract specification: `Emit` keeps
  the newest `MaxEvents` rows and counts the rest.  That `RingBuffer` implements
  this is what the run `wire` checks and `DataProofs!Refinement` proves.
- In `Pipeline` a row has a method and one field for the redactor to look at.  A
  frame that leaves is abstracted to what it discloses: hashes, summaries and shapes
  are nothing.  A value is a string, a list, a plain value, one on which
  `JSON.stringify` throws, or a symbol.  `observe()` gives the flusher no cap
  (Infinity); the run uses a small one, which only adds flushes.  `tried` records for
  each stream what was written and whether the write succeeded.
- In `Calls` the stack holds frames of running wrapped functions and of replays being
  dispatched.  A decorated method's own code runs between the dispatch and the
  wrapped function, which it calls once, often, later or never.
- In `WsReporter`, `send` on an open socket throws only for an event that
  `JSON.stringify` rejects; on a closing or closed socket it discards silently, as
  the WebSocket API says; on a connecting one, and on `null`, it throws.
- In `GuiServer` a connection is a device's or a viewer's: the reporter never
  greets and the viewer never announces.  An event's source is one its connection
  announced, as the reporter sends its identity first.  The frames of one connection
  arrive in order and nothing orders two connections, which is what makes a
  reconnect overlap with the close of the connection it replaces.  `shown` of a
  viewer is what it was sent and not told to clear.
- In the three taps every call of a probe's code meets a clock (`opts.now`, the
  caller's) that works, fails each time it is read, or fails the first time.  The
  targets of `DataTap` and `PeerTap` may lack the optional `removeEventListener` or
  `off` (`removable`).  Events are abstracted to their type, their probe and what the
  properties speak of.  In `DataTap` the state of `send` is the list of probes a call
  goes through; in `SocketTap` a socket holds the probes that wired it, which are those
  of its class but for one whose clock failed at the attempt.  A sink that throws is
  kept away by `emitSafe` and shows nowhere.
- In `Cbor` a digit of a length or an integer is of base `DigitBase` (256 in the
  code) and integers below `Direct` (24) need none, so that every width occurs in
  small values.  A value nests `Nesting` deep at most, a number takes 8 digits at most
  (the code's double tells integers apart up to 2^53), and a string holds no half of a
  surrogate pair, which `utf8Encode` would replace.  A map is the sequence of its pairs:
  what `obj[k] = val` makes of a repeated key, of `__proto__` or of the order of keys
  that look like indices is left out, and no envelope has such a field.  In `Envelope`
  a ULID is the sequence of the values of its characters, `UlidLength` of them (26), and
  takes `UlidBytes` bytes (16), with the same two bits too many; what stands for a peer
  is a hash of bytes or a handle of characters.  `JSON.parse` undoes
  `JSON.stringify`, so JSON on the wire is the object itself.  A malformed `hlc`, which
  makes `Encode` throw before it enters anything, occurs in no envelope of the run
  `wire`; a malformed `causedBy`, which throws later, does.
- In `Framing` the prefix is `PrefixLength` digits of base `Base`; the code's is 4
  of base 256.  A prefix can state the length of each message, as 4 GiB are not sent
  in one.
- In `Hlc` each stamp and each message carries, as history, the set of stamps and
  wall clock readings that causally precede it.  Messages are never removed, so that
  receiving one late, twice or never needs no action of its own.
- In `Offset` the true offset does not change and a probe is answered at once.
  Offsets are counted in quarters of a millisecond and round trips in halves, so
  that the averages are exact.  Sorting is abstracted to what it puts at a place
  (`Ranked`).

## Runs

| Run | Question | Bounds |
|---|---|---|
| `collector` | are the collector's memory, counters and rows right under any order of calls? | 3 ids and 2 peers, 4 requests, 3 answers, room for 2 pending, 2 settled, 4 rows: each limit is exceeded, an id is reused while live and after it settled |
| `sink` | do lifecycle events keep that, and does every request end? | 2 ids, 2 peers and events without a peer; room for 1 pending, 1 settled, 2 rows |
| `broadcast_fanout` | do the sink and the collector do for broadcasts what a comment says? | 2 ids, 2 peers; a counterexample of a few steps |
| `timeout_partial` | does a timeout row count the peers that answered, as a comment says? | the same, with at most 3 answers and without an eviction of rows in the counterexample |
| `pipeline` | do rows end once, in order and without a secret, whatever throws and whenever a stream is attached or dies? | 3 rows of 6 kinds (a peer, a list of peers, a URL, a ciphertext, a cyclic body, a symbol), cap 2, 4 peers two of which share a handle and one of these is hashed by another user of the redactor, 2 streams: a cap that fills, a row left over, a stream attached before, between and after batches |
| `calls` | are calls and replays told apart, and does each call end once? | 2 clients that share a method name, 1 decorated method, 3 calls, 2 replays, room for 2 in each table, 1 stream of 1 item: nested calls, an eviction, a replay inside a replay |
| `reporter` | what do overlapping, failing and unavailable sockets do to the events, and do queued ones get out? | queue of 2, 4 events (one of which cannot be serialised), batches of 1 and 2, 2 closing handshakes, 1 failure, 1 constructor that throws |
| `reporter_announce` | is the identity sent once per connection? | 3 events, 1 closing handshake |
| `hub` | do the hub's tables, its history and its viewers agree, however connections overlap? | 4 connections, 3 of them able to replay, 2 sources, history of 2, 3 events, 1 purge, 1 replay: two connections of one source overlap in any order while a viewer purges and another arrives |
| `adapters` | does the application see its transport, is what a probe tells true, and does it stop when it is taken off? | clocks that work, fail or fail once; targets that can or cannot take listeners off; 3 probes on a channel, put on and taken off in any order; 2 polls answered in any order by reports of up to two candidate pairs; 2 probes on the socket class, 2 sockets, to which anything may happen for ever |
| `wire` | does every layer give back what it was given, and refuse what is damaged? Is the ring a bounded FIFO, and is an iteration over it safe? | texts of 3 units and 4 bytes over the boundaries of UTF-8; 4 envelopes in 4 encodings, 2 messages between 2 nodes with shared or separate tables, 3 peers two of which share a hash; prefix of 2 binary digits, 4 messages of 0 to 3 bytes, every division into chunks, 2 handlers that throw; a ring of 3 slots and 7 pushes: the head passes the end twice, with clears and drains at every offset |
| `clock` | does the order of stamps follow causality, and is an offset estimate near the truth? | 3 nodes, wall clocks that read 0, 1 or 2 at will, 2 stamps a node: each of the four rules of `recv` decides a tie; delays of 0, 1 and 4 each way, window of 3, 4 probes: both methods, and a cached estimate whose window moved on |

`collector` uses symmetry in ids and peers, `hub` in sources and in the connections
that can replay; both check invariants and action properties only.  Deadlock is
checked in `pipeline`, where a step is always possible.  The other runs
switch it off because the system may stop: the bounds on requests, answers, events
and failures are exhausted, and a closed reporter does nothing.

### Fairness

- `CollectorSink`: weak fairness of `Tick` (time passes) and `Sweep` (the sink's
  contract at `core/sink.ts:43`: the caller invokes `sweep`).  Adapters and peers
  owe nothing.
- `Pipeline`: weak fairness of `Interval`, the flusher's timer, which is enabled only
  while it is set.  Streams and other steps owe nothing.
- `Framing`: weak fairness of the wire, which delivers what was sent, and of the
  loop in `push`, which runs to its end.  Sending is not fair.
- `WsReporter`: weak fairness of the reconnect timer, of a connection attempt's end
  and of a closing handshake's end.  Exports are not fair: queued events must get
  out without another one.

### Disagreements between comments and code

Three runs are expected to find a violation; each states a sentence of the source.

1. `broadcast_fanout`: `core/sink.ts:32-35` says repeated starts build one awaited
   set.  When the first target answers before the second is announced, the request
   has settled and the second start registers another.
2. `reporter_announce`: `reporters.ts:20` says the identity is sent once per
   connection.  The close event of a replaced socket nulls the new one: the new
   connection opens without being announced, and the next is announced twice.
3. `timeout_partial`: `core/correlator.ts:29` says `partial` is how many of the
   fan-out answered.  The code counts answers (`:140`): a peer whose one answer is
   told by `message.in` and by `request.end` counts twice.  What does hold of the
   count, and is checked in `collector` and proved, is that it leaves no peer that
   answered out.

Others were met while modelling.  The models do what the code does, and the
properties state what holds of it:

- `core/correlator.ts:52-53` says the most recent settled ids are remembered.  An id
  that settles again keeps its old place (`:92`) and is evicted as if it had not.
- `adapters/webrtc.ts:162-174` reads the probe's clock inside the `try` that
  rethrows, so a clock that throws is reported as, and looks to the application
  like, a send that failed, against `webrtc.ts:8` and the comment at
  `hyperswarm.ts:129-132`.  `AppLearnsTheTruth` excepts the calls whose clock threw.
- `adapters/websocket.ts:126` does the same, against `:115`: a clock that throws after
  a successful send makes a false `send.error`, or no event when it throws at `:136`
  too, and an exception either way.  At `:76` it ends the constructor's `try`: the
  socket works, with no listener and no wrapper of that probe for its whole life, and
  its attempt is not reported.  In a listener (`:78-113`) the event is lost.
  `SocketsToldTruly` says which probes tell what in spite of this, and that what is
  told of a send is true unless a clock on its way threw.
- `adapters/webrtc.ts:297` takes listeners off by the optional `removeEventListener`.
  A connection without it goes on reporting `conn.state` after `restore()`, and a
  channel without it what arrives.  `RestoreEndsReports` and `ProbesSeeTraffic` except
  just these events.
- `adapters/websocket.ts:73` calls `peerIdFromUrl` outside the `try` that the comment
  at `:142` speaks of: a throw fails the application's constructor after the base
  socket was made.
- `decode.ts:5-7` says required correlation fields are enforced.  `cbor-compact`
  decodes without a `corrId`; `EnvelopesSurvive` asks for the refusal of JSON only.
- `cbor.ts:36` speaks of 64-bit integers; above 2^53 a JavaScript number no longer
  tells neighbours apart, and beyond 64 bits the head is cut off.
- `skew.ts:11-14` takes the smallest round trip of the present window as a floor for
  the interval.  The interval of a median, or of a cached estimate whose window has
  moved on, may not contain the truth.  `TruthIsNear` states what does hold: the
  truth is within half of the round trip the estimate itself rests on, and, for the
  present window, within the interval of a sample's estimate or that of a median
  widened by the spread.
- `redactor.ts:258-287` redacts peer, text and URL fields that hold strings and lets
  anything else in them through as it is.  `NothingRawLeaves` is about the strings.
- A body that is a symbol makes `toBytes` throw: the batch it is in is dropped as a
  whole, and counted.

## Proofs

`tlapm` proves the following for every value of the constants that meets the
`ASSUME`s of the modules (limits are natural numbers, the ring has a slot, ids and
connections are finitely many, the items of a row are numbered, a report of `getStats`
is nothing or has a sequence of entries, a prefix can state the length of each message,
delays are natural numbers).  `Envelope` and `Cbor` ask for what the code's are: two nodes,
a seed of methods without repetitions, handles that are not `*` and hashes that are not
empty (as broadcast is written), digits that fit a byte, room for the major type, the
lengths and the four widths in the head of an item, numbers, lengths and ids that 8
digits can state, and values that nest at least as deep as an `hlc` in its envelope.

- `DataProofs!Refinement`, `Iteration`, `NothingStale`: a ring of any capacity
  implements the bounded queue, an iteration survives any mutation by its consumer,
  and no evicted item stays reachable.
- `DataProofs!Survival`, `Damage`: any text comes back from its bytes with nothing changed
  but the surrogates that stood alone, what a fatal decoder accepts is the one encoding
  of the text it returns, and whatever bytes came before, a whole character is read and
  no byte costs more than one replacement.
- `DataProofs!CborRoundTrip`, `CutRefused`, `UlidWhole`: any CBOR value comes back from
  its bytes as it was, no bytes that decode begin with others that do, and a ULID comes
  back from its bytes, for any base of the digits and any depth.
- `DataProofs!MessagesCarried`, `EnvelopesReturn`, `DamageNeverRead`: whatever envelopes are
  sent, by whom and with which tables, each message decodes to the envelope it was made of
  or is refused, in all four encodings; with the tables it was encoded with it is never
  refused.  CBOR that was cut short or that has a tail is refused.
- `CollectorProofs!TypeCorrect`, `MemoryIsBounded`, `Accounts`, `TimeoutsTrue`,
  `Finality`: the type invariant, the bounds, both accountings, that a timeout row
  names just the peers that have not answered and leaves none that did out of its
  count, and that nothing about a request is shown after its timeout.
- `CollectorProofs!SinkCounters`, `SinkMemory`: the collector driven by lifecycle
  events; `SinkCounters` shows further that no live id is ever reused, so the public
  counters alone account for every request.
- `PipelineProofs!FlusherInOrder`, `RowsOnce`: each row is handed over at most once
  and in order, by the flusher with any handler and by the pipeline with its own.
- `PipelineProofs!Handles`: a handle that was exported stands for one peer for ever.
- `PipelineProofs!NothingRaw`: nothing sensitive is exported or kept for export,
  provided peer, text and URL fields hold strings (`Typed`: the redactor lets anything
  else through) and a host is not its URL.
- `PipelineProofs!Ends`: a row handed to the exporter is written to one stream, waits
  in the exporter's buffer, or was counted as dropped; and if a write failed, a stream
  has died or the row's body cannot be serialised.
- `CallsProofs!Tags`, `Seen`, `Inflight`, `Endings`: tags are on the calls their
  replays made and on no other, replays are seen, the table of calls in flight is
  true, and a call ends once.
- `GuiServerProofs!Chips`, `Agreement`, `Purges`, `Replays`: a device is on the viewers'
  screens exactly while one of its connections is open; what a viewer shows ends with
  the hub's history, and of two viewers one shows an end of what the other shows; what
  was purged is shown by nobody again; a replay goes to the open connection that
  announced its source last.
- `WsReporterProofs!Announcements`, `Order`, `Losses`, `SocketsSuffice`: each
  connection begins with the announcement of the device, events leave in order and once over all
  connections, and none is lost but by overflow.  `SocketsSuffice` is about the model:
  the sockets it has are as many as its bounds on failures can ask for.
- `ProbeProofs!Transparency`, `Reporters`, `Silence`, `Statistics`, `SocketTruths`: any
  number of probes, put on and taken off in any order, show the application its
  transport, unless a clock throws; the probes that are on report each send and each
  arrival once, and the others none where listeners can be removed; a restored peer
  connection reports no more than answers to the polls then under way, and changes of
  state if it cannot remove listeners; the statistics are those of the candidate pair
  that ranks first, for any report; what happens to a WebSocket is told once by the
  probes it was made for, whatever became of the class since, and what they tell of a
  send is true unless a clock on its way threw.
- `ProbeProofs!WholeMessages`: any division of the stream into chunks yields the
  messages sent, in order and each once, also after handlers that throw, for any
  messages, base and prefix length.
- `ProbeProofs!Causality`, `Ceiling`, `Monotonic`: the order of stamps follows causality,
  the physical component is the largest reading among a state's causes, and no node
  rewinds, for any set of nodes and of wall clock readings.
- `ProbeProofs!Accuracy`: the truth is within half of the round trip an offset estimate
  rests on, by either method and however old the estimate is, and within the interval
  of the present window as `TruthIsNear` says, for any delays, offset and window.

### The inductive invariants

*Ring.*  The invariant adds to the properties that `toArray()` is in push order and
that what an open iterator has yet to visit is newer than what it has yielded.  All
arithmetic on the ring is in two lemmas: from any head, `i` steps lead to `head + i`
or to `head + i - Capacity` (`Turn`), and every slot is reached within one turn
(`TurnOnto`).  From them `PushMoves` states what a push does to `toArray()`, and the
invariant and the refinement are argued from that alone.

*Strings.*  Both invariants are about data and hold of any text and any bytes; the
argument is about the two algorithms.  The encoder is taken apart unit by unit
(`EncodeAppends`: the bytes of a code point follow those of the text before it) and the
decoder byte by byte (`OctetKinds`: a byte ends a code point, adds to the one that is
under way, or is malformed).  The decoder's state determines the bytes it holds
(`Held`), for the ranges it asks of the next byte are those that neither an overlong
form, a surrogate nor a code point that is too large can meet (`Shaped`).  `Sound` is
the invariant of the decoder: while nothing was malformed, the bytes of the units put out
and then the bytes held are the bytes taken in, and at any time units and held bytes
together are no more than these.  In the other direction the bytes of a code point are
read as that code point whatever came before them (`ReadsWhole`), so that each unit of a
text moves the decoder on by what it puts out (`ReadsAhead`).  Each is carried along a
sequence by taking the least place at which it would fail.

*Values.*  The decoder is a function of the position, defined from what it is at later
ones, so that what holds of every read is proved by taking the last position at which it
would fail (`LeastElement` once more).  Two facts are enough for damage: a read that
succeeds ends after it began and within the bytes (`Onward`), and reads the same, to the
same end, when more bytes follow (`Upheld`).  Bytes that decode end with their item, so a
part of them that decodes as well would have to end elsewhere.  The round trip goes by
level of nesting (`RestoresAll`): the bytes of a value are read as that value wherever they
lie among others, and what a list is read as follows from its members, one after the other
(`ListRestores`).  Below it are the heads: each width is announced, and its digits are read
back as the number, by the two lemmas on `Numerals` that frames and ULIDs rest on as well.

*Envelopes.*  `EnvelopeInv` says of each message that its bytes are those of the object
that its envelope is written as, under a method id that the seed, or with shared tables
every node's table, gives back, and with peers that every node knows when tables are shared
and the message names them; and of the tables that methods and codes are without
repetitions.  The second part is what survives a step: tables only grow, `intern` puts a
method at the end, and a peer whose handle or hash is another's is not entered
(`StaysCarried`, `EnvelopeStep`).  From the first part decoding is a calculation: the
object goes into its map and out of it (`Unpacks`), each field comes back
(`Regained`), and the peers do where the receiver's table tells them apart.  Where it
does not, the property asks for nothing, and where it does not know them, for a refusal.

*Collector.*  `IInv` is `TypeOK /\ MemoryBounded /\ RequestsAccounted /\
RowsAccounted`.  `RequestsAccounted` needs the bound (an eviction removes exactly one
entry because the table was at most one over) and the finiteness of the ids;
`MemoryBounded` of the settled set needs that the set holds no id twice.  `Sweep`
settles a whole sequence of ids at once: that `MarkAllSettled`, a recursive function,
preserves the invariant is proved by taking the least index at which it would fail
(`BoundedProofs!LeastElement`).  `NoResurrection` holds because the table lists no id
whose last row is a timeout (`Quiet`), `TimeoutRowIsTrue` because an entry of the
table agrees with the rows of the ring about which peers have not answered, and has
taken at least as many answers as peers did (`Truth`).  Neither is inductive without the part about the
table, and both are stated of any sequence of rows, so that one lemma each shows
that an eviction, which moves every row down, disturbs nothing.

*Sink.*  The invariant adds `superseded = 0`; extending a fan-out changes one entry's
awaited set and nothing that the collector's invariant mentions.

*Pipeline.*  `PipelineInv` is four parts: `Numbered` (rows are
handed over in the order of their numbers, none missing, and the rows that wait
continue those numbers), `Reported` (there is a row for each number), `Registered` (the
table holds no collision), and `Exported` (each frame buffered or tried discloses
what redaction lets through of its row, and the peers of the row are in the table).
That a batch enters its peers before it is exported, and enters none twice under one
handle although it may throw in the middle, is in `HashPeersRegisters` and
`HashPeersKnows`, by taking the first place of the batch that throws.  `EndsInv`, for
`Ends`, says that what was written, stream after stream, and then what is buffered, is
what the exporter was given: so that writing to the live stream is appending to the
end, streams after it are empty, and nothing is buffered while there is one.

*Calls.*  `CallsInv` joins the types with three parts: `ReplaysInv` relates the tag
variable and the frames of the stack to the replays (a tag that waits belongs to the
innermost replay, which no call has consumed yet), `AllAccounted` counts what has
happened to each call by its state, and `InflightIsTrue` is inductive because ids
only grow and an eviction removes the least.

*Hub.*  `HubInv` says that the table of counts is the number of open connections of
each source, that a connection announces one source at most, that sources are listed
while they are counted, and that viewers know just the list.  A close that finds a
count of 1 is then the close of the last connection.  `ScreenInv` is `ViewersAgree`
and `PurgeSticks` with the types of what they compare: a sequence and the end of it stay
so when both grow, when the hub forgets its oldest, and when both are filtered
(`EndsWithSplit` and the lemmas after it).  `RouteInv`, for `Replays`, says that the
list of a source's connections is its open ones in the order in which they first
announced it: a close takes one out and keeps the order of the rest.

*Filters.*  Three components take elements out of an array by a test.  What is left, in
which order, and that the left elements sat at increasing places, is proved once, by
least counterexample (`BoundedProofs`, over `Selection!Only`).

*Reporter.*  `ReporterInv` adds to the three properties that everything in the queue is
newer than everything sent, that an open connection has left nothing in the queue but
what cannot be serialised and has announced itself, and that sockets are made in order
and no more of them than closing handshakes and failures account for (`SocketInv`).

*Adapters.*  `WiringInv` says of the probes on a channel that neither the chain of `send`
nor the list of listeners holds one twice, that what a probe would restore does not
contain it, and that an unused probe is nowhere; which probes a call passes is a
recursive function of the chain, argued about by least counterexample.  It relates the
chain and the listeners to the probes that are on: the listeners are theirs where they
can be removed, and so is the chain while probes come off in the reverse of their order.
`PeerInv` says that a poll under way was asked for and has not been answered, and that
a restored probe has no listeners left where they can be removed.  `ClassInv` says of
the stack of subclasses what `WiringInv` says of the chain, and `SocketsInv` that each
socket carries the probes that were on when it was made and whose clocks had the time of
the attempt (`Audible`), which no later step touches.  What a send comes to is argued
wrapper by wrapper, from the platform's own outwards (`SentOut`).

*Framing.*  `FramingInv` says that the bytes the receiver holds, followed by those on the
way, are the frames of the messages not yet handed over, one after the other.  Chunks
only move the border between the two.  A prefix read digit by digit gives back the
length because after `k` digits the reader holds what `Shifted` left after as many from
the other end.  A handler that throws leaves the invariant alone, since the message was
cut off before the call.

*Clock.*  The invariant is the conjunction of the type, `OrderFollowsCausality` and
`CeilingOfObserved`: each speaks of the nodes and of the messages under way at once,
because a step of `recv` is justified by what held of the message when it was sent.
The proof that a stamp is after all of its causes goes through the transitivity of
`Before` and a case per rule of `recv`.

*Offset.*  `OffsetInv` says that each sample of the window is wrong by no more than its
round trip, and that the cached estimate was sound for the window it was made from.
For the median this needs that a median of offsets is no further off than the median of
the round trips, although the two are taken from different samples: counting shows that
the values at one place of two orders are related when the values of each sample are
(`RanksFollow`), and so are those at opposite places (`RanksOppose`).

### Only model-checked

Every liveness property (`RequestsEnd`, `StagedRowsLeave`, `EventsGetOut`,
`MessagesArrive`), which the prover does not handle.  Every safety property of the
passing runs is stated by a theorem.  `EnvelopeInv` is proved and not checked by TLC, as
it asks for a method id among all numbers; the properties it implies are.

## Not modelled

- The viewer (`gui/index.html`) is one script of event handlers tied to the page they
  draw.  What the hub sends it is modelled; that its rows are keyed by `corrId` alone,
  and that it keeps what it has when history is replayed to it, are hazards that no
  property covers.
- `bridgeTraces`, the choice of exporter and the resolution of the source identity in
  `observe()` are straight-line.  `negotiate()` is one comparison whose result nothing
  keeps, the capability records are constants that nothing reads back, and the sampler
  is a pure function of two comparisons.
- In the hub: the demo feed, frames without a source id and the check of a request's
  origin.  `find()` of the ring is an iteration that stops early.
- An orphaned socket of the reporter, which `close()` does not reach, stays open for as
  long as its peer keeps it: nothing in the code bounds its life.  A constructor that
  throws in the reconnect timer ends the retries until the next export: `EventsGetOut`
  says so.  Both are listed as hazards.
- The native probes are Swift and Kotlin callbacks scheduled by their platforms.
  `detect.ts`, `init.mjs`, the command line and the release scripts are straight-line
  I/O.
