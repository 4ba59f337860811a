# latkit in TLA+

latkit measures the latency of database and HTTP requests from outside the
server.  BPF programs in the kernel copy what a server process sends and
receives on its listening ports; a single-threaded agent puts the copies back
together into protocol messages, matches requests with replies, and exports what
it observed.  Everything it sees is second-hand: records are lost when the ring
buffer is full, calls are captured only up to a budget, connections are joined
in the middle.  The question this project asks of every part is the same: after
any of that, is what the agent believes still true, or does it at least know
that it is not?

Paths below are relative to `src/` of the repository's own source tree.

## The system

    socket calls, TLS calls          (kernel, several CPUs at once)
      -> records OPEN / DATA / CLOSE, numbered per connection
      -> ring buffer                 (bounded; a failed reservation is a loss)
      -> handle_event                (agent, one thread)
      -> connection table            (sequence detector, LRU, idle sweep)
      -> framer, per direction       (chunks and holes -> messages)
      -> protocol handlers           (messages -> requests with their replies)
      -> metrics, spans              (observations)
      -> Prometheus endpoint, OTLP push

| Part | Modules | What is hard about it |
|---|---|---|
| Capture (`bpf/latkit.bpf.c`) | `Capture` | number claimed and space reserved in two steps; several CPUs on one socket; LRU maps that evict a live connection |
| Connection table, event router (`agent/conn_table.c`, `agent/events.c`) | `ConnTable` | ceiling, data after close, failed allocation; a flag and the kernel map it stands for change in different calls |
| Framer, message mode (`agent/reassembly.c`) | `Framer` | a hole is known only when the next call comes; every state meets every kind of hole |
| PostgreSQL (`proto/pg/`) | `PgQuery` | replies are matched by position; a text is borrowed from a cache that evicts |
| MySQL (`proto/my/`) | `MyConn`, `MyHandlers`, `MySql` | the shape of a reply depends on capabilities that may not have been seen |
| HTTP and S3 (`proto/http/`, `proto/s3/`) | `HttpFrame`, `HttpUnits`, `Http` | two queues, in the framer and in the handler, that must stay in step |
| Redis (`proto/redis/`) | `RedisFrame`, `RedisUnits`, `Redis` | a reply can be read before its command is put together |
| Metrics (`metrics/`) | `Registry`, `Exposition`, `Metrics`, `TopQueries` | rows evicted and folded while allocations fail |
| Event loop (`agent/loop.c`) | `Loop` | a handler that removes another's descriptor in the middle of a batch |
| Endpoint, push, spans (`export/`) | `HttpServer`, `Otlp`, `Spans`, `Exporters` | an export can fail in a dozen places; late answers; slow clients |

`components` in `PROJECT.json` lists every part, with what is not modelled and
why; `hazards` lists the places where they can go wrong, with the properties that
would show it; `map` gives the lines of each definition.  Definitions whose
comment calls them a mutated form are not part of the model: they are plausible
bugs, and each property is known to fail when one replaces the definition behind
it.  `MC...` modules give the constants their values for TLC.

## How the modules follow the code

**ConnTable.**  `tab` is the table: `conn` the hash, `lru` the list, `active` and
`tls_active` the gauges, `heap` the parser states allocated and not freed.
`capmode` is the override the agent asked the kernel's map for: none, in force, or
asked for and not there, because the write failed or the LRU map has dropped it
(`SetCapHeaders`, `CapAges`; `CapLossy` allows it).  `lost` is the count that
`touch` reported for the last record.  The operators take a table and return the
one the C function leaves behind; an action is one record handled to its end
(`OpenKnown`, `OpenNew`, `Close`, `Data`, `DataCiphertext`, `DataDecrypted`,
`CreateFails`), the timer (`Sweep`), teardown (`Free`), or time passing (`Tick`).
Records are arbitrary: any cookie, number and order.  That covers the kernel, a
replayed trace, and data that comes after its CLOSE.  Time is the age of an
entry, saturated at the timeout; a record may carry a timestamp up to `Skew` old.
The buckets of the hash are left out.  What the framer does to an entry is any of
the effects the table can see (`FramerEffect`).

**Capture** extends `ConnTable`.  Contexts (`Task`) run the programs step by
step: look the registration up or insert it, claim a number (`Claim`), reserve
and submit (`Reserve`, which fails when the ring is full), delete the
registration after CLOSE (`Unregister`); `SslRet` is the decrypted path with its
own counter, whose lookup and add are one step: its comment says why nothing is
lost by that.  `Evict` is the LRU map dropping an entry; a context that already
holds its pointer goes on with the old counter (`epoch`).  The agent takes the
oldest record (`Deliver`) and runs the handler of `ConnTable` on it.  The
variables in `hvars` are history: which records were claimed, dropped, shown to
the agent and reported missing.  They appear in no guard.  Reuse of a deleted
element's memory for another connection is not modelled.  A call of several
chunks is several calls of one chunk.

**Framer.**  One direction.  `wire` is the stream as a map from positions to
headers; bytes have no values, and a header read at a position where there is
none parses to anything.  The environment cuts the stream into calls and chunks,
captures less than a call holds, and loses chunks, in which case the next record
is preceded by `MarkDirty`, which is what the table does on a gap.
`lk_reasm_data` is run one loop iteration a step: `pc` says whether it is in the
hole before the chunk, in the chunk or in the end.  A buffer may be refused at
any time.  Two assumptions are constants, so that they can be dropped:
`FalseAnchors` (may data imitate a resync anchor) and `FlipsCaptured` (is a
message that switches the connection to TLS or compression captured whole).

**PgQuery.**  Client, server and agent on one connection.  Requests are numbered,
replies carry the number of the request they answer; the agent never reads the
numbers, they stand in the place of its timestamps, so that an observation made
of two requests shows.  `pc` is `struct pg_conn`.  A request reaches the agent
when the server receives it, a reply when the server sends it, each handled to
its end.  `dirty` is the set of directions the framer has lost; `held` is a
request that was cut by the capture budget and that the framer delivers with the
next call.  Left to itself the client waits for the ReadyForQuery of a batch
before it starts the next, executes each portal it binds once, and copies in a
batch of its own.  `Habits` lifts these restrictions one by one.  Two are not
lifted: the client parses anew a statement whose Parse was skipped behind an
error (the agent has cached it and cannot know better), and faults come after the
handshake (a lost AuthenticationOk leaves the phase AUTH for good).  A Parse,
Bind or Close may be cut before its name, be lost, or find no memory for the
cache; the text of a statement whose Parse the handler was not given is marked
`Unseen`.  A batch may begin a transaction and fail in it, or end one and begin
the next (`NextStatus`).  Left out: the observation of a CancelRequest, the
labels of the session, flags for truncated text, counters, a refused allocation
of `pg_conn` itself.

**MySQL.**  `MyConn` is `struct my_conn` with the statement cache and the labels,
`MyHandlers` the handlers of both directions as operators from a connection to
the one they leave behind, `MySql` the server's script of packets for each
command under each set of capabilities, delivered one packet at a time.  A packet
may be cut, before or inside a name (the label is then the captured part, `Stem`),
hidden, lost, or handled without memory.  A transaction of the server may end with
an error, in a COMMIT AND CHAIN or with a change of user; `ex.unshown` is the
reply whose status was the first to show it.  Timestamps are the numbers of
exchanges.  Left out: the version and program labels, the prefix of a truncated
text, counters.  Continuation fragments are part of `Framer`.

**HTTP.**  `HttpFrame` is the stream framer of both directions with its account
of the call, `HttpUnits` the ring of exchanges with the S3 error scratch, `Http`
the client, the server and the capture around them.  A message is a sequence of
tokens (head, body, chunk headers); calls cut it anywhere, a head in its first
line, before its fields or after them.  All ceilings on headers are one kind of
bad head, which the framer refuses, in a request (`bad`) or a response (`odd`);
an interim head is never split; a TLS connection is one whose first token is a
TLS record.  Left out: counters, the
degraded mark, `PIPELINED`, timestamps, labels, routes and masks, and the
classification of S3 requests.

**Redis.**  `RedisFrame` is the RESP framer, `RedisUnits` the ring of units with
early replies, batches, the session and its transactions, `Redis` the rest of the
world: clients follow scripts of commands, the server answers, pushes and
subscribes, and a pause is longer than a unit may wait.  The command table is a
set of kinds; a payload is one token.  `args` counts the elements of a command
that are whole in the text that was kept: its name, the number of a database and
a user are read only from those (`CommandOf`, `ParseDb`, `HelloAuth`, `Session`).
The server queues SELECT and AUTH like other commands (`srv.then`), and EXEC,
DISCARD, a failed WATCH or a refusal decide what becomes of them.  Left out:
`PIPELINED` and `BLOCKING`, redirects, durations, counters, `--redis-user`, length
ceilings, masks; REPL commands are folded with MONITOR.

**Metrics.**  `Registry` is the query dictionary (open addressing with backward
deletion, LRU list, free stack, doorkeeper) and the series with their histograms,
`Exposition` the scrape and the structured walk that the push uses, `Metrics` the
facade with its cache of sessions, driven by loads of observations with and
without failing allocations.  `TopQueries` is what the dictionary promises: `K`
rows, the least recently observed makes room, only for a fingerprint turned away
before, and its counts move to "other".  `Metrics` implements it
(`TopQueriesKept` is `Top!Spec` under a refinement mapping).  A scrape is the set
of its samples: the order of the lines (`order_dims`, `order_err_codes`), escaping
and the HELP and TYPE lines of the text are left out.

**Exporters.**  `Loop`, `HttpServer`, `Otlp` and `Spans` are operators on the
state of their C file; `Exporters` composes them as the agent does.  A *world* is
the record of the four states; a handler is the set of worlds it may leave
behind, over everything clients, collector and system calls may do.  One event of
a batch is one step, taken in any order; the loops of `on_accept` and of the ring
buffer's handler are run a turn a step, with nothing else in between.  Seconds
pass between batches and show as timer expirations (`lag`).  A signal is the last
event of its batch; a handler that fails ends the loop; `LkEventsFree` is the
teardown.  The counters of exports and spans are kept as a difference, `owed`:
what was started, or sampled, and is not counted yet.  The bytes of requests,
answers and exports, self-metrics and the address cache (which decides only which
failures can occur) are left out.

## Runs

| Run | Asks | Result |
|---|---|---|
| `conn_table` | do list, hash, gauges and parser states stay consistent; does the override flag always stand for a write that was tried; is every removal justified | holds |
| `conn_table_live` | is a silent connection ever collected | holds |
| `capture` | with evictions and two contexts on a ring of one record, on both channels: is every lost record reported, every reported hole a loss | holds within a registration |
| `framer` | is a clean framer where it thinks it is; is what it emits what was sent; does the handler return | holds |
| `pg_query` | is each observation made of its own replies; is everything answered reported; does the agent stay ready | holds |
| `pg_any` | do ring and cache keep their shape, texts and transaction spans their truth, when the peers keep no discipline | holds |
| `pg_sync_ahead` | are replies matched when the client sends the next batch before it has read this one's end | **violated** |
| `mysql` | is an observation of one exchange, is an exchange captured whole reported exactly, are labels and transaction statuses the server's | holds |
| `http` | is a response paired with its own request, are bytes exact, is everything reported after a quiet moment, is an S3 error code that of its response | holds |
| `redis` | the same as `http` for commands and replies, with batch depths, sessions and transactions | holds |
| `metrics` | does the registry implement `TopQueries`; does a scrape add up to the reports and agree with a push; does "other" only grow | holds |
| `exporters` | can an event reach a later registration; is each export and span counted once; do clients end and full buffers flush | holds |

`pg_sync_ahead` checks what a document of the repository states; `findings` quotes
the line and says what happens.

Where the code does not do what one would ask of it, the properties of the passing
runs leave the case out and say so, and the claim that includes it is a property
of its own, in the table further down:

- `PairTrue` of `http` leaves out, until the connection is quiet and both lists
  of pending requests are empty, what follows a lost start line, a request that
  was dropped or found the ring full, a head that the framer refuses, and a cut
  head whose stale method made the framer misread a later response; `Reported`
  starts from such quiet moments and asks for exchanges that were captured whole;
  `ErrTrue` asks for the code of an error whose body came in one piece, since
  `body_add` hands over the first alone;
- `AllReported` of `redis` leaves out what follows one of three values
  (`Confuses`): something published in RESP2 after a RESET was sent, a further
  confirmation with another command of the subscribe family queued, a list that
  begins with the word of a delivery on a connection that has subscribed; and what
  follows a long pause on an open unit;
- `SessionTrue` of `redis` leaves out a label that was chosen by a queued command,
  for the command that ends the transaction, and, if the choice was thrown away or
  refused then, until the next one; and everything after a command that moves a
  label was missed, paired with another's reply, or cut before its last argument
  (AUTH without its password reads as AUTH with a password only).  A database whose
  number `parse_db` does not read is unknown, by design;
- `TxnSpanTrue` of `pg_any` speaks of transactions whose first status is T, and
  `TextTrue` of statements whose Parse was seen with its name;
- `TxnTrue` of `mysql` speaks of what the statuses of the replies show, and
  `LabelsTrue` lets a name that was cut be the part that was captured.

### Further counterexamples

These properties state what a comment or document says, and TLC finds each of them
violated.  Run `tlc -config <cfg> <module>`; where a configuration holds several,
`-continue` shows them all.  "In" a run's configuration means: with the property
in place of the run's own.

| Configuration (module) | Property | The line, and what happens |
|---|---|---|
| `MCCaptureRestart` (`MCCapture`) | `ConnLossReported` | `bpf/latkit.h:177` "per-conn, monotonic; a hole means loss".  A socket evicted from the kernel's map is registered anew and numbered from 0 (`latkit.bpf.c:422`); the agent's `last_seq` stays high (`conn_table.c:161`), so losses go unreported until the numbers catch up. |
| `MCFramerFlip` (`MCFramer`) | `BlindStops` | `reassembly.c:179` "the rest of the chunk is ciphertext / compressed frames — drop it".  When the message that flips the connection is completed by a hole (`:447`), the chunk after it is still parsed. |
| in `MCMetrics`, with `LabelLen = 1` | `SeriesUnique` | `registry.h:112` "the series identity must stay unique".  A label keeps the first `query_label_len` bytes of a text (`registry.c:682`): two queries with the same beginning are one series twice. |
| in `MCExporters` | `SinksAlive` | `otlp.h:63` "Borrowed — valid for the exporter's lifetime".  `lk_events_free` frees the exporter and its collector before the pipeline, whose connections may still report a response (`events.c:1003`, `proto/http/http.c:548`). |
| `MCMyClaims` (`MCMySql`) | `NeverSpans` | `my_query.c:29` "a unit open when the stream breaks ... is dropped, never emitted".  With unknown capabilities the terminator of a server that uses `DEPRECATE_EOF` is taken for a row (`:682`), and the unit stays open for the next command. |
| `MCHttpClaims` (`MCHttp`) | `ResponsesPaired` | `docs/notes-httpproto.md:574`: a loss on the response side "ruins the unit being answered and nothing else".  A response wholly inside a hole leaves its unit waiting, and later responses go to the unit before theirs. |
| `MCConnTableCap` (`MCConnTable`) | `CapInForce` | `events.c:733` "is flipped to HEADERS so its bytes stop travelling the ringbuf".  A write that fails is only logged and an override that ages is gone, while the flag keeps the agent from writing it again (`events.c:740`). |
| in `MCPgAny` (`MCPgQuery`) | `NoTextUnseen` | `pg_prep.c:123` "no cache — Bind on this name will be NO_TEXT", and `:114` on a name that was cut.  With an entry of that name from an earlier Parse, the Bind finds it and shows its text. |
| `MCMyClaims` (`MCMySql`) | `TxnExact` | `my_query.c:469` "same contract as the PG 'Z' tracking".  An error that rolls back, a COMMIT AND CHAIN and a COM_CHANGE_USER end a transaction without a status that says so; the span goes on into the next one. |
| in `MCPgAny` (`MCPgQuery`) | `TxnSpanOpened` | `pg_query.c:584` "remember the I->T that opens one, emit on_txn on the T\|E -> I that closes it".  A Query that begins a transaction and fails takes the status from I to E; the start reported is that of an earlier transaction, or 0. |
| `MCHttpClaims` (`MCHttp`) | `RefusedDropped` | `http_frame.c:290` "a dropped unit is honest where a guessed one is not".  A response with both Transfer-Encoding and Content-Length is refused before its request is taken off the list or the handler told (`:403`): the request is not dropped, the next response is paired with it. |
| `MCHttpClaims` (`MCHttp`) | `HeadBodyless` | `docs/notes-httpproto.md:137`: no body for "*any* response to a `HEAD` request".  A resync drops the handler's units and keeps the framer's pending methods (`http_frame.c:739`): the next responses are read with the methods of earlier requests. |
| `MCRedisClaims` (`MCRedis`) | `DeliveriesCloseNothing` | `redis.c:117` "Answers no command and must close no unit".  The agent leaves subscribe mode when RESET is sent (`:756`); a delivery written before the server read it closes the unit of the RESET. |
| `MCRedisClaims` (`MCRedis`) | `FurtherCloseNothing` | `docs/notes-redisproto.md:328` "the first confirmation answers the unit and the rest answer nothing that is still queued".  The second confirmation of a SUBSCRIBE closes the unit of a SUBSCRIBE behind it (`redis.c:911`). |
| `MCRedisClaims` (`MCRedis`) | `AllAnswered` | `docs/notes-redisproto.md:341` "`GET` while subscribed works normally and answers with an ordinary value".  A list that begins with the word of a delivery is passed over on a RESP3 connection that has subscribed (`redis.c:870`), and the next reply closes its unit. |
| `MCRedisClaims` (`MCRedis`) | `DatabaseTrue` | `docs/notes-redisproto.md:566` "only a **successful** `SELECT` moves it".  +QUEUED moves the label too (`redis.c:520`), and DISCARD does not move it back. |
| `MCRedisIdle` (`MCRedis`) | `RepliesPaired` | `docs/notes-redisproto.md:371`: the queue "is flushed into `units_dropped_close` instead of mis-attributing latency for ever".  A reply that waits for the next call of its direction closes the unit of the command that made its own expire (`redis.c:355`). |

The passing runs rest on conditions that are constants of the modules, and the
conditions are necessary: TLC refutes

- `HoleMeansLoss` when numbers wrap within the run (`SeqMod = 3`, with more
  records): `touch` never moves `last_seq` down, so every record after the wrap
  reports a gap;
- `EmittedTrue` when a call boundary may look like a header without being one
  (`framer` with `FalseAnchors = {"call"}`);
- `RepliesMatched` under the habits `"bare bind"` (a portal never executed takes
  the reply of the next) and `"late request"` (a request cut by the budget is
  delivered after its replies), `Accounted` under `"re-execute"` and
  `"copy amid batch"`;
- `TxnSpanTrue` with a loss inside a failed transaction: `pg_on_resync` forgets
  the status and keeps the start.

### Bounds

- `conn_table`: three cookies on a table of two, so that eviction happens with
  a choice of victim; two protocols, one of them not the default; a timeout and a
  skew of 1, so that the order by activity is violated by at most the skew; writes
  of the override may fail and age.  `SeqMod` is 1: no property of this run looks
  at numbers, `Capture` does.
  The view leaves `dirty` out, which no guard and no property of the module reads,
  and names cookies by their place in the list, which makes states that differ only
  in the names one.
- `conn_table_live`: two cookies, a timeout of 2, no symmetry and no view, since
  the property is temporal.
- `capture`: one connection, two interchangeable contexts, up to four records over
  both channels, two registrations and a ring of one: any two records may race,
  any of them be lost.  Numbers do not wrap (`SeqMod` 8).  `FramingQuiet` drops
  states whose difference the detector cannot see; the view leaves out what is
  written and never read (`dirty`, the capture policy, and `lost`, which only the
  step that writes it looks at).
- `framer`: headers of two bytes (so that they can be torn), a prefix of at most
  two, bodies of 0 to 8 bytes, so below, at and above the prefix; ten bytes
  of stream; four streams, with glued fragments and a flip.
- `pg_query`: three requests in four messages, a ring of two units, one fault.
  `pg_any`: two names and two texts on a cache of one slot, so that each Parse of
  the other name evicts, three requests, transactions, failing allocations.  The
  texts are interchangeable (symmetry): nothing compares them but for equality.
- `mysql`: three exchanges, two of any command and then an execution or a ping,
  four capability sets, one fault, a statement cache of one slot.
- `http`: three exchanges, the first of any kind, the others a HEAD or an error,
  pipelined three deep on a ring of two, so that it overflows, calls of at most
  four tokens, one fault.
- `redis`: twenty-five scripts of two to four commands, two under way at a time on a
  ring of two, one early reply, one push, one fault, calls of at most four tokens.
- `metrics`: two slots in a hash of eight whose home positions collide and wrap
  at the end of the table; four loads, one of them with failing allocations.
- `exporters`: six descriptor slots, one client at a time, a buffer of two spans,
  one observation a pass, timeouts and intervals of one second.

One fault is the bound of the protocol runs: of any kind, on any call or packet.
How two faults close to one another combine is not explored.

### Fairness

`conn_table_live` assumes weak fairness of `Tick` and `Sweep`: time passes, and
the sweep is driven by a periodic timer of the agent's loop.  Nothing is assumed
of records.  `framer` assumes weak fairness of the steps of `lk_reasm_data`, for
`HandlerReturns`: it is a function that was called and runs on.  `exporters`
assumes that the loop is scheduled (`Scheduled`: weak fairness of `Pass` and of
`LkEventsFree`, written out) and that the clock runs (strong fairness of `Second`,
which is enabled only between batches).  Nothing is assumed of clients, collector
or observations.  All other properties are safety properties.

### Deadlock

`framer` checks it: the handler never stops in the middle.  The other modules
may stop: their environment is bounded (records, requests), and after teardown
nothing happens.

## Proofs

All theorems hold for every value of the constants that satisfies the named
assumptions of the modules.

**ConnTable** (`ConnTableProofs`; finite cookies, a ceiling of at least one, a
skew not above the timeout).  `IInv` is `TableOK` of the table together with what
backs the flag: the write of the override was tried since the last CLOSE,
whatever the kernel made of it (that it is in force is false, `MCConnTableCap`).
The properties are not inductive alone: that `active` is at most the ceiling
needs `active = Len(lru)`, which needs the list to hold each entry once;
exactness of the TLS gauge needs the removed entry to be in the table, which the
list guarantees.  So `TableOK` joins them, one lemma per function of
`conn_table.c` shows that it keeps `TableOK`, and one step puts the handlers
together.  From it: `TypeCorrect`, `LruMatchesHashAlways`, `TableAlwaysBounded`,
`TlsGaugeAlwaysExact`, `ParserStateAlwaysOwned`, `LruAlwaysByActivity`,
`CapGuardAlwaysBacked`, and `RemovalAlwaysJustified` (an action property).

**Capture** (`ClaimOrder`, `CaptureProofs`, `CaptureDeliverProofs`,
`CaptureLossProofs`; any number of contexts and connections, any ring of at least
one record).  `CaptureTypeCorrect`, and `CaptureImplementsTable`: every step of
the composed system is a step of `ConnTable` or leaves the table alone, so
everything above holds of the agent behind the kernel programs
(`CaptureKeepsTable`).

`LossAlwaysReported` and `HoleAlwaysMeansLoss` need more, and one hypothesis:
`NoWrap`, fewer than `SeqMod` (2^32 in the code) records per connection and
channel.  Without it they are false, as said above.  The argument is about the
history of claims.  Every record of a channel has a place in the order of claims;
its number is the count of the earlier claims of its registration (`ClaimOrder`
is the arithmetic of this order, without a program).  The invariant `LossInv`
then says what each side knows: the counters in the kernel are the counts of the
claims; a record in a context's hand or in the ring carries its claim's number;
`last_seq` and its decrypted twin are the highest number the entry was shown,
as long as it was shown records of one registration only; and every claim between
the first one shown and the highest is shown or reported missing.  `FatesOK` says
that no claim has two fates: in a context's hand, in the ring, lost, or shown.  A
lost claim that a later one has passed was therefore never shown, and so it was
reported.  The proof follows the steps:
`CaptureProofs` the kernel's, `CaptureDeliverProofs` the agent's detector on one
record, `CaptureLossProofs` that each handler of `ConnTable` moves `last_seq` as
the detector says.

**Framer** (`FramerTypeProofs`, `FramerProofs`; well-formed streams, a prefix of
at least one byte).  `FramerTypeCorrect` needs no assumption on anchors or flips:
the prefix stays within its bound whatever is parsed.  The other four
(`FramerStaysInSync`, `FramerEmitsTruth`, `FramerSkipsNothing`,
`FramerStopsBlind`) assume `Healthy`: no imitated anchors, flips captured whole.
Neither can be left out, as `MCFramerFlip` and the list above show.  The invariant
`SInv` says where the framer is in the message it has begun (`SyncAt`), also
between the hole and the chunk of one record, where `InSync` says nothing yet;
the position where the last message ended (`due`) ties one message to the next.

**Exporters** (`ExporterProofs`; at least three descriptor slots for the standing
files, any number of clients, spans, observations, any timeouts).
`ExportersInvariant` is the inductive invariant; from it `NeverStaleDispatch`,
`LoopAlwaysMatchesOwners` and `ExportsAlwaysAccounted`.  A handler calls several
functions, between which no property holds: the export's file is closed but still
counted, the client is gone but still registered.  So the invariant is stated of
the world that is passed from one to the next.  `Sound` holds between handlers;
inside one, `Flying` is a world whose export is to be ended or goes on, `Done` one
whose export was just counted, `Built` one whose export is prepared and has no
file yet; a lemma for each function says from which to which it leads.  `LoopOK`
says how the table of the loop and the batch are related: a slot held back is in
the batch and empty, and no file is registered twice.  That a new descriptor is
fresh is a counting argument: the owners hold fewer descriptors than there are.

### Only model-checked

- Liveness: `SilentConnsCollected`, `HandlerReturns`, `ClientsEnd`,
  `WatermarkFlushed`.  Liveness under fairness is out of the prover's reach.
- The properties of `MySql`, `Http`, `Redis` and `Metrics`, the refinement of
  `TopQueries` included.  Their handlers are folds and recursive functions over
  sequences of tokens, units or rows, and what such a function computes for every
  input needs induction over data, which the installed provers cannot do.
- The properties of `PgQuery`.  They compare the agent's ring with the whole
  exchange between client and server; no inductive invariant for them has been
  worked out.

## Not modelled

The parts marked `not_modelled` in `components`: text and file processing without
state of its own (record decoder, normalisation, option parsing, ELF reading),
the recorder, the cgroup filter, the set-up of the process, and the maps by which
the kernel programs find the socket of a TLS call.  So nothing is said of a
goroutine that changes its thread inside a TLS call, of a receive call whose entry
state is gone when it returns (its bytes are missing and no number is spent on
them), or of what the framer makes of two threads in calls of the same direction
of a socket at once (`Capture` numbers their records).
