# A TLA+ model of mnapp

mnapp is a C library of application components: a daemonizer, TCP/Unix socket
servers, an HTTP parser, an HTTP client and a command-line parser.  The servers
and the client run on mnthr, a library of cooperative threads; the parser reads
from a bytestream.  This directory models what they do when reads are cut,
threads interleave, peers close, buffers move and processes die, and the pure
functions between them.

## The parts of the system

| Part | Source | Modules | Proofs |
|---|---|---|---|
| HTTP message parser | `src/mnhttp.c` 557-591, 797-1439 | `HttpParser`, `HttpStream`, `MessageDelivery` | `HttpParserProofs`, `HttpStreamProofs` |
| URIs, query terms, URL encoding, request line | `src/mnhttp.c` 26-554, 676-702 | `HttpUri` | `ClientRequestsProofs` |
| HTTP client: requests and the pool | `src/mnhttpc.c` 119-280, 358-425, 770-922 | `ClientRequests` | `ClientRequestsProofs` |
| HTTP client: one connection | `src/mnhttpc.c` 283-336, 428-764, 863-936 | `HttpClient` | `HttpClientProofs`, `HttpClientRequestProofs` |
| TLS stream functions | `src/bytestream_ssl_helper.c` | `SslStream`, `BytePipe` | `SslDaemonProofs` |
| TCP/Unix server | `src/local_server.c` 116-295 | `TcpServer` | `ServersProofs` |
| `local_server` threads | `src/local_server.c` 20-112 | `LocalServer` | `ServersProofs` |
| daemonize | `src/daemonize.c` | `Daemonize` | `SslDaemonProofs` |
| command line | `src/mncommand.c` | `MnCommand` | `MnCommandProofs` |

The client takes URIs apart and writes request lines with the functions of
`HttpUri`, keeps a pool of connections (`ClientRequests`), sends each request over
one of them (`HttpClient`), parses responses with the parser and, for https,
reaches the network through the TLS functions (`SslStream`).  bytestream, hash,
array, bytes, mnthr, OpenSSL, getopt_long(3) and the kernel are not in this
repository: they are modelled from how the code uses them.

## The modules

**HttpParser** is `_http_parse_message()` on one connection.  `wire` is all the
peer sends, `rcvd` what has been read, `base` what has been recycled, `spos` the
stream position, `ctx` the `mnhttp_ctx_t`, and `events` the callbacks made.  An
action is one round of the loop, or one read; `EmptyLine` includes the call of
`process_body()` behind the `goto`.  `NextMessage` is a caller that goes on with
the next message.  A text whose characters no decision depends on is one byte;
CR and LF are bytes of their own; the number of a length or a chunk size is any
integer, as `strtol()` makes it.  `PS_BODY_IN` is not told from `PS_BODY`.
`bytestream_recycle()` drops any whole number of blocks up to the given offset.
**HttpStream** adds a peer that sends a stream of messages.  A stream is its bytes
with its parts, the callbacks they call for; `IsStream` says where each part lies
and what may follow it, without reference to the parser, so the properties compare
the parser with an independent definition.  `MCHttpStream` puts streams together
for TLC, which evaluates `StreamAssumption`, that all of them are streams.
**MessageDelivery** is the abstract specification that a caller relies on; the
refinement maps `events` to `delivered`.

**HttpUri** has no state: it holds `mnhttp_uri_parse()`, `mnhttp_parse_qterms()`,
the request line, the sizes that are reserved, and the URL encoding, as functions.
URIs are sequences of characters of which only delimiters and the port 443 are
told apart; URL encoding works on byte values.  **ClientRequests** runs them: a
thread makes a request (`New`, which looks up the pool), adds terms and fields,
finalizes and destroys it.  The hash of terms gives them in any order.
**Traversal** has the loops over texts and arrays that `HttpUri` and `MnCommand` share.

**HttpClient** is one connection: threads in `mnhttpc_request_finalize()`, the
two workers, `mnhttpc_gc()`, `mnhttpc_fini()` and the peer.  Threads are
cooperative, so an action is what a thread does between two blocking calls.  A
thread submits one request and destroys it after finalize, as
`test/testmnhttpc.c` does; `mnhttpc_fini()` is called when all threads have
returned.  A request is two pieces, so that a write may be partial; a response is
one token.  `crashed` is set when the header callback is given a NULL request.
The constants select what may happen: `PeerCloses`, `Interrupts`, `MemoryFails`,
`Https`, and `ReadYields` (may a read suspend although its outcome is there?).

**SslStream** is the pair of TLS functions in the workers of one connection, with
the threads that write requests, answer and collect garbage, and with a parser
that recycles the incoming stream.  Bytes are numbered.  OpenSSL remembers a write
that is not done by its bytes (`retry`) and its address (`moved`).  `Gc` may come
whenever no thread is in finalize, and makes the streams plain ones (`plain`), as the
code does.
**BytePipe** is what the one who writes may expect.

**TcpServer** is a `mnapp_tcp_server_t` with its owner, its worker, another
thread that calls `stop()`, and clients.  The owner may call `serve()` or not,
and `fini()` with or without `stop()`.  **LocalServer** has threads in
`local_server()`, the global flag, and clients that connect to paths.
`MCServers` is a program with one of the two.

**Daemonize** has several programs call `daemonize()` with one pidfile or none.  A
system call that others can observe is an action; a process may die anywhere.  A
program has a table of descriptors (`fds`), of which its caller may have left any
open, and a limit of open files; `open()` takes the lowest closed descriptor.  The
pidfile is a sequence of digits.

**MnCommand** registers commands one by one, calls `mncommand_ctx_getopt()`
between or after them, and asks for help.  A pointer into `ctx->commands` becomes
`Stale` when the array may have moved.  Words are full names: the abbreviations of
`getopt_long()` and several letters in one word are not modelled.

## What the runs check

| Configuration | Bounds | Result |
|---|---|---|
| `HttpStream` | 1-2 messages, bodies of 0-4 bytes, or one without a length or with length -7, blocks of 4, closed after any byte, fair | callbacks are the right ones on the right bytes; only malformed messages are rejected; a complete stream is delivered completely, and the connection given up at last; a truncated message is not taken for the end; implements `MessageDelivery` |
| `HttpClient` | 3 threads, 2 connections, https, everything may happen | mutual exclusion; one request at a time; unless a join was interrupted, thread pointers are right and a freed connection has no workers |
| `HttpClientServed` | 4 threads, 4 connections, http, closes while it has a whole request, fair | every finalize and `mnhttpc_fini()` return; responses are not mixed up and none comes unasked for; gc throws no data away |
| `ClientRequests` | all texts of up to 4 characters with any scheme, 432 full URIs, 2 threads that share the pool, 2 terms, lengths around a multiple | URIs are taken apart without loss; the pool goes by peer; TLS by scheme; the peer reads the path, the terms and the body; room suffices |
| `SslStream` | 5 bytes in blocks of 2, fair | until gc, writes are repeated as they were and the stream implements `BytePipe`; reads have room |
| `Servers` | 3 clients, 2 starts, both families; 2 threads, 2 paths; fair | connections are passed on or reset; stop and fini return, with no worker left; paths lead to their servers; one batch after shutdown |
| `Daemonize` | 2 programs, 6 descriptors, a limit of 3 or 6 or none (4 are closed), process IDs of 1 and 2 digits, with and without O_EXLOCK | one daemon; the pidfile ends in its process ID, with O_EXLOCK that is all; it is detached and its files have the right descriptors |
| `MnCommand` | 4 sets of commands, up to 3 words, 2 calls of getopt, texts of up to 6 characters in lines of 4 | options match commands; words reach their commands; the last word counts; help loses no text |

The bounds: two messages show that one ends where the next starts, and blocks of
4 (512 in the code) make recycling happen inside them.  Three threads are needed
for one to wait, one to hold and one to have failed, two connections for a worker
of the first to meet the second; four threads, with four connections, let what one connection leaves behind meet two later ones.  A URI of four
characters can have every delimiter but two; the full URIs have all components.
Five bytes make three writes in a stream that grows twice.  Six descriptors leave
room for one beyond the pidfile, below the limit and above it.  Clients of a server
come in batches of up to three.  Two programs suffice for a stale pidfile and for
a race for the lock.  Two calls of getopt leave a zero option in front of later
commands.  Deadlock is not checked where the program may stop: all requests
finished, the server at its end, all programs gone.

Four more runs are expected to fail, each on one property that a document or a
test supports; the findings in `PROJECT.json` quote them:

| Configuration | What the code does |
|---|---|
| `HttpStreamSplit` | a read that ends inside the blank line of a header shifts the body by a byte |
| `HttpClientIdleClose` | a request left in `conn->out` is sent again; the next one gets its response |
| `HttpClientResult` | finalize returns 0 without a response |
| `ClientRequestsPort` | a URI without scheme and port gets no port, where the test expects 80 |

## Limits of what holds

The passing runs exclude the cases that fail, and properties name their
conditions.  What the models, or reading the code for them, showed:

HTTP parser
- `BlankLineSplit` is FALSE in `HttpStream`, because of the first finding.  It
  excludes no other cut: a read may end inside the CR LF behind a chunk.
- Of the CR LF behind the last chunk process_body() steps over what has not arrived
  (`mnhttp.c:976`): all callbacks are made.  The next call reads
  the rest of it first, and if the peer then closes returns
  `MNHTTP_PARSE_CONSUME_DATA_ERROR` instead of `MNHTTP_PARSE_EMPTY`.
- A message with neither Content-Length nor chunks has `bodysz` -1; `body_cb` is
  called on a range of length -1 (`mnhttp.c:997`), where the README of mnapp says
  "if present".  The position goes back by one byte, and the next message is read
  from the LF of the blank line on: a request line is then taken with that byte in
  its method, a status line refused (`LineMayParse`).
- A negative Content-Length is not refused (`mnhttp.c:854`), and the position goes back
  by it, possibly to in front of the buffer; `CursorInBuffer` says when, and that it
  goes no further.  A call after a length below -1 is not followed (`Astray`): it would
  read header bytes that the parser has overwritten (`mnhttp.c:1362`, `1365`), or
  memory in front of the buffer.  A stream of `HttpStream` may end with a message
  of either kind; there is none in the middle of one.  `HttpParserProofs` has both
  anywhere.
- A Content-Length behind Transfer-Encoding sets `bodysz` (`mnhttp.c:854`), and the
  sizes of the chunks are then added to it: `body_cb` is told more than there is.
  `Frames` excludes such messages.

HTTP client
- `OwnResponse`, `IdleStreamsAreEmpty` and `CallsReturn` need a peer that
  closes only while it has a whole request to answer.  After an idle close, or one
  while it has a part of a request, what was not written stays in `conn->out`
  (`mnhttpc.c:448`) in front of the next request; two such parts may make a whole
  request.  `WaiterIsServed` does not need it.
- A thread that is interrupted while it joins a worker goes on as if the worker had
  ended (`mnhttpc.c:287`, `292`; variable `cut`).  When that worker ends it resets the pointer to
  its successor, and `mnhttpc_fini()` may free the connection before: hence
  `~cut` in `WorkersAreKnown` and `FreedIsQuiet`.  The same holds for the thread that
  initializes TLS (`mnhttpc.c:695`); what it does later is not followed.
- An interrupted finalize leaves its request queued (`mnhttpc.c:926`), and
  `mnhttpc_fini()` destroys it once more; `OneRequestInFlight` excepts interrupted threads.
- gc gives an https connection the stream functions for plain sockets
  (`mnhttpc.c:745`): its send worker exits and wakes nobody, so a finalize never
  returns.  Liveness is checked for http.
- With `ReadYields`, `WaiterIsServed` fails: the receive worker may start to parse
  before a request is queued.
- The pool ignores the scheme (`mnhttpc.c:824`), so `TlsByScheme` is stated for URIs
  without a port of their own: `https://a:8080` is sent over the plain connection
  that `http://a:8080` has opened.  Only https gets TLS, wss does not (`mnhttpc.c:379`).  Hashes of different
  peers are taken to differ.
- Terms are put behind a query or a fragment of the URI without `&`
  (`mnhttp.c:493`); the fragment is sent to the peer.  A `?` behind a `#` starts a
  query.

TLS
- gc may renew the stream while a write waits (after an answer to part of a
  request, or an interrupted finalize); the write is then repeated from the start
  of the new buffer (`bytestream_ssl_helper.c:99`).  `RetryIsSame` and
  `ImplementsPipe` say nothing of what is sent once gc was called.
- A buffer that was moved by a growing stream makes OpenSSL refuse the repeated
  write, unless it is told to accept that; the worker ends.
- The receive worker waits for the descriptor although OpenSSL may hold data
  (`mnhttpc.c:553`).

URL encoding: digits are escaped too (`mnhttp.c:26-36`), and `http_urldecode()`
writes no NUL, so only the text in front of the returned end counts.

Servers
- `fini()` does not close the listening socket, so an internet server cannot be
  started again, and a client of a local one may wait at the old socket.
- An error of a callback drops the rest of its batch (`local_server.c:196`).
- `local_server_shutdown()` wakes no thread, and nothing resets the flag
  (`local_server.c:82`); a thread that ends unlinks the path of another that
  shares it (`local_server.c:109`).

daemonize
- Without O_EXLOCK the process ID is appended to that of a daemon that died, with
  nothing between the digits: the file then ends in the process ID, and names none.
- Descriptors from `nfiles` on stay open (`daemonize.c:64`): without a limit those
  from 1024 on.  A limit below 3 is excluded (`DaemonAssumption`): `dup2()` then
  fails unnoticed.

Command line
- An optional argument is a required one for the letter (`mncommand.c:133`).
- A letter that `isalnum(3)` is not true of is no short option (`mncommand.c:130`).
- For a word that it refuses `getopt_long()` returns `?`, which is looked up as a
  letter (`mncommand.c:226`): a command registered with `?` is called for any such
  word, and the parsing goes on.  Without one it is an error.
- Long options that are registered after the first getopt are behind the zero
  option and not found (`mncommand.c:197`).
- When `ctx->options` cannot grow, indexes no longer match (`mncommand.c:402`).
- With two blanks in front of a long word the length of a line of help wraps
  around (`mncommand.c:94`); an empty description is read at index -1
  (`mncommand.c:97`).

## Fairness

mnthr runs every thread that can run, so the steps of threads and workers are
weakly fair.  Reads of the parser return: the peer sends or closes.  The client
has no timeouts, so its liveness assumes a peer that answers, or closes, once it
has data of a request.  A TLS write that is repeated again and again is done at
last, as the peer goes on reading: strong fairness of `Written`.  Failures (of a read in `ConsumeError`, of `accept`, of a
TLS call), gc, interrupts, idle closes and `AcceptAllFails` are never forced.

## What is proved

TLAPS proves the following for every value of the constants: any streams, any
number of threads, connections, programs, clients or commands, any texts.  In
parentheses is the property of a run that the theorem states.

`HttpParserProofs`, for all sequences of bytes, block sizes and cuts into reads, the
split blank line and messages without a length or with a negative one included;
`ParserTypes` (`TypeOK`, with lengths that are any integers), and:
- `ParserInvariant`: `ParserInv` is inductive.  `SeesOnlyReceived`
  (`SeesOnlyReceivedBytes`) and `InStreamOrder` (`CallbacksInOrder`) follow.  The
  order of callbacks is not inductive alone: it needs that all callbacks lie
  before the place from which the parser goes on (`Mark`, or the start of the
  chunk), and that the end of the body gathered so far is the stream position
  (`BodyAgrees`).
- `CursorStaysInBuffer` (`CursorInBuffer`).  `CursorInv` adds to `ParserInv` the
  bounds of the position in each parser state, in the body those of the chunk too
  (`BodyCursor`): a body starts in the buffer, so that the position is in front of it
  by at most what a negative body size takes back.
- `EmptyMeansBetween` (`EmptyOnlyBetweenMessages`): before a message starts and
  after one was read the position is not beyond the end of the last one (`Between`).

`HttpStreamProofs`, for any set of streams, any block size, any end of the stream
and any reads that do not end inside the blank line of a header (`~ BlankLineSplit`, the setting
of `HttpStream`):
- `PlaceInvariant`: `StreamInv` is inductive with `ParserInv`.  It says which part of
  the stream the parser is at when it has made so many callbacks (`Place`): in front
  of it in the header; in a body as far into the part as it has gathered
  (`BodyPlace`); and the context frames the body as the fields so far do
  (`FramedAs`).  The one place where a position without its callback would go
  wrong is the blank line: either nothing of it was read when the header loop
  waited, or its rest never comes.  After a message (`Ended`) the parser stands where
  the next one starts, or has gone back into the last one by its negative size.
- `DeliversEveryStream` (`DeliversMessages`, which `HttpStreamSplit` refutes for
  reads that do end there) and `RejectsMalformedOnly` (`RejectsOnlyMalformed`) follow.
- `ParserDelivers`: the safety part of the refinement of `MessageDelivery`.

`HttpClientProofs`, with interrupts and failures:
- `SemaphoreExcludes` (`OneInside`), `PointersAreRight` (`WorkersAreKnown`) and
  `FreedConnectionIsQuiet` (`FreedIsQuiet`).  Exclusion is proved first; the pointers
  need it, as only the holder closes and connects, and also need how far the close
  or the destruction has come (`CloseProgress`, `FiniProgress`): which pointers are
  reset when a thread joins, connects or frees.  Both speak of workers as long as no
  join was interrupted; that a freed connection has no socket holds always.
- `ClientTypes` (`TypeOK`).  `RequestInv` adds to the invariants above that a request
  is in the queue or with one worker, never twice, and belongs to the thread which
  waits, but for interrupted ones.

`HttpClientRequestProofs`, about the requests on the connection:
- `OneRequestOnConnection` (`OneRequestInFlight`), for all constants: `RequestInv` is
  shown to say what the cardinalities in the property count (`FlightCount`).
- `WaitersAreServed` (`WaiterIsServed`), assuming `Undisturbed`: no interrupts and
  no suspended reads, the setting in which the property holds (see above).  The
  peer may close at any time, memory may run out, the connection may use TLS.
  `ServedInv` adds that the worker which will wake the thread was not interrupted,
  as only a thread that closes the connection does that, and that a worker which
  parses has a request.
- `ResponsesAreOwn` (`OwnResponse`) and `GcLosesNothing` (`IdleStreamsAreEmpty`),
  assuming `Served`: in addition plain http, memory, and a peer that closes only
  while it has a whole request to answer, the setting of `HttpClientServed`.  `PipeInv`
  follows the one request: it is on its way to the peer, or answered, or part of
  its response was read after the peer closed (`Sending`, `Answered`, `Broken`), and nothing
  else is in the streams or on the wire; when no thread waits they are empty.

`ClientRequestsProofs`, for any threads, texts, sizes and granularity:
- `PoolIsByPeer` (`PoolByPeer`) and `TlsIsByScheme` (`TlsByScheme`).  `PoolInv` says
  that connections of the pool have different keys, that each request has the
  connection with its key, and that TLS was chosen by a request with that key; the
  key of a request without a port of its own tells its scheme.
- `UriIsTakenApart` (`UriTakenApart`): whatever the text, the components make it
  up again.  The lemmas follow the code: what `strchr()` finds is the first
  occurrence, a text is what lies before it, it and what lies behind it; then the
  authority, the target and the tail.
- `RoomIsEnough` (`RoomForPieces`): the room for encoded terms and for fields, at every
  length.  `WireInv` says that what was written is what the request holds; the sums
  over the terms are those of sequences (`QtermszAdds`, `TermsCounted`).

`ServersProofs`:
- `StoppedIsQuiet` (`QuietWhenStopped`), from the invariant that only the worker in
  `srv->thread` may be alive (`WorkerInv`); `NoneIsForgotten` (`AcceptedIsPassedOn`),
  which adds that a worker which passes connections on has some left
  (`BatchInv`); `ServerTypes` (`TypeOK`), which needs both.
- `PathIsKept` (`PathLeadsToServer`) and `AcceptsOnceMore`
  (`OneBatchAfterShutdown`), from the fact that a batch after the shutdown is a
  thread's last (`LocalInv`).

`SslDaemonProofs`, first about daemonize: `MutualExclusion` (`OneDaemon`),
`PidfileIsRight` (`PidfileNamesDaemon`) and `DaemonIsDetached` (`Detached`).  A
program beyond the lock holds it; so what it has written is not overwritten or
followed by others, and its offset is the end of what it found (`FileInv`).  For the
descriptors the invariant says what the table looks like after each step of the
opening (`Table`, `Stage`): all below `nfiles` is closed but what was opened, and
that fills the table from 0 on, so that the lowest closed descriptor is the right
one.  Then about the TLS functions: `RoomStays` (`RoomForRead`); `RepeatsTheWrite`
(`RetryIsSame`), as writes only append behind the bytes that are being sent
(`SendInv`); and `PipeIsKept`, the safety part of the refinement of `BytePipe`: what was given is
what was taken followed by what is in the stream (`Follows`), kept by writes,
sends and rewinds.

`MnCommandProofs`, for any commands and words and any number of getopt calls:
- `OptionsAreRight` (`OptionsMatchCommands`): in front of the first zero option are
  copies of the commands (`Copies`), and either there is one for each or a zero
  option closes them (`Closed`).
- `CallsAreRight` (`DispatchAsNamed`), from what the scan of the options and the
  lookup by letter find; `CallsInv` carries it over later registrations, which
  append and never move an index.
- `LastWordIsKept` (`LastWordWins`): `ValuesInv` ties each value to the last call
  that set it.
- `RefusesNoKnown` (`KnownIsFound`), an action property: the options of the commands
  that were registered before the first call stay visible (`KnownInv`).  A word is
  refused with an error or with a call of the command for `?`.

The assumptions are those named in the modules (`ParserAssumption`,
`StreamAssumption`, `SslAssumption`, ...), and TLC evaluates them on every run: sizes are positive,
sets of clients finite, markers are not members of the sets they mark, texts are
sequences of characters (`UriAssumption`, `RequestAssumption`), argument vectors
are sequences of words, and commands have a long name, as `mncommand.c:383`
asserts (`CommandAssumption`).

Only model-checked:
- liveness (`EventuallyDelivers`, `CallsReturn`, `StopReturns` and the like) and the
  fairness part of the refinements `ImplementsDelivery` and `ImplementsPipe`: that
  every step is a step of the abstract specification is proved;
- `PeerReadsRequest`, which is about decoding along a text, and takes induction;
- `HelpKeepsText`, about a function that recurs along the text.

## Not modelled

- The text inside start lines and header fields, and number syntax: the parser's
  decisions on them are outcomes.  So the width of `bodysz` (a sum of chunk sizes that
  overflows an int), a stale `errno`
  (`mnhttp.c:1142`) and an empty field value (`mnhttp.c:1363`) have no property.
- The formatting of fields, dates and responses (`mnhttp.c` 646-789), which only
  appends to a stream; what is reserved for them is in `HttpUri`.
- An interrupt of the thread that stops a server while it joins the worker.
- Requests still in finalize when the client is destroyed, and a server started
  again without `init()`: both are misuse by the caller.
- `foo.c`, `mnapp.c` and `diag.txt`, which have no state.
