# LuaSocket in TLA+

A verification development of [LuaSocket](../src/README.md): TLA+ modules translated
from its C and Lua sources, TLC configurations that check them on small instances, and
TLAPS proofs of the central ones for every instance.  `PROJECT.json` is the index: the
components, the runs with the properties each checks, the source lines every definition
stands for, one mutant of the code per property, the hazards and the theorems.

To check a run: `tlc -config MCSelect.cfg MCSelect`.  To check the proofs:
`tlapm BufferReceive_proofs.tla`, and so for the other `*_proofs` modules.

## 1. The system

LuaSocket is a library that runs inside one Lua interpreter and one thread.  Nothing in it
is concurrent with itself; what makes it hard is what happens *between its system calls*:
the peer, the network, other processes that hold the same socket, signals and the clock.
Most of the models therefore have one sequential caller, split into a step per system call,
and an environment that acts at any time between the steps.  The clients for HTTP, FTP and SMTP
are one caller too, against a server that answers, refuses, or goes away.

| Component (source) | State it keeps | Operations |
|---|---|---|
| Timeouts (`timeout.c`) | block limit, total limit, start of the operation | init, markstart, get, getretry, settimeout |
| Buffered input (`buffer.c`) | an array with `first` and `last`, counters | `receive` with `*l`, `*a` or a count and a prefix; `setstats` |
| Unbuffered output (`buffer.c`) | counters | `send` with a range |
| Unix sockets layer (`usocket.c`) | none: the descriptor is the caller's | poll with retry, recv, send, connect, accept, bind, listen, destroy, select |
| Names and addresses (`inet.c`) | none | the loops over the addresses a resolver returns: tryconnect, trybind, trycreate |
| TCP objects (`tcp.c`) | class (master, client, server), descriptor, family, limits, buffer | create, bind, listen, accept, connect, `socket.connect`, settimeout, close, collection |
| `select` (`select.c`) | the map from descriptors to objects, per call | `socket.select` |
| MIME filters (`mime.c`, `mime.lua`) | a context per filter, carried by the caller | b64, unb64, qp, unqp, wrp, qpwrp, eol, dot |
| LTN12 (`ltn12.lua`) | the upvalues of chains, sources and sinks | filter.cycle, filter.chain, source.chain, sink.chain, pump.step, pump.all |
| UDP objects (`udp.c`), Unix datagram objects (`unixdgram.c`) | class (connected or not), descriptor, family, limits | create, setpeername, setsockname, connect, bind, send, sendto, receive, receivefrom, close |
| Unix stream and serial objects | as TCP objects | not modelled |
| Exceptions (`except.c`) | none | newtry, protect |
| HTTP client (`http.lua`, `socket.lua`) | a connection, a request table, the count of redirects | request |
| FTP, SMTP clients, replies (`ftp.lua`, `smtp.lua`, `tp.lua`) | control, data and listening sockets | get, put, command; send |
| Socket options (`options.c`, the tables of `tcp.c` and `udp.c`) | the options of the socket, which live and die with it | setoption, getoption |
| Auxiliar, compat, opening, url, mbox, headers | none or tables | mostly not modelled |
| Windows sockets (`wsocket.c`) | as `usocket.c` | not modelled: the build modelled is the Unix one |

How they interact.  A method of a TCP object marks the start of its limits (`timeout.c`) and
calls the buffer or the address loops with the object's descriptor; these call the sockets
layer, which retries a system call that would block after a poll limited by what
`timeout_getretry` says is left.  `select` asks every object for its descriptor and whether
its buffer holds data.  The clients (HTTP, SMTP, FTP) pull data through LTN12 pumps whose
filters are those of `mime.c`, and use `except.c` to turn errors into results.

What is hard, and what makes it correct:

* **Limits.**  A wait can be interrupted by a signal, woken for nothing, or find its data taken
  by another holder of the socket.  What is left of the limit has to be computed anew each
  time.  Correct: no call waits past its limit, none gives up before it, and each returns.
* **The input buffer.**  A reply is put together from several buffers and, after a partial
  result, from several calls.  Correct: no byte is lost, doubled or reordered, and each
  pattern ends where it should.
* **Partial sends.**  Correct: the index returned is the last byte sent, so a caller that
  resumes sends each byte once.
* **Descriptors.**  A connection attempt may close one descriptor and open another, and every
  step of it can fail.  Correct: each open descriptor is owned by just one object, non-blocking,
  and never lost.
* **Cuts.**  Chunks end inside escapes, line breaks and base64 groups.  Correct: the cuts do not
  matter, decoders undo encoders, lines fit, and a message ends at its marker only.
* **Options.**  A value is converted on its way to the system and back, two names share a
  handler, and the socket an option was set on may be replaced by another.  Correct: what a
  program was told it has set is in force, and what it asks for is what the system has.
* **Datagrams.**  A datagram is whole or cut, never joined; an object changes between connected
  and not while datagrams are queued.  Correct: each is returned at most once and as it came, and
  goes to the peer that was set last.
* **Dialogues.**  A request may fail at any step, with several sockets open and half a body sent.
  Correct: what is reported done is the whole, a half is never taken for it, each reply is read
  for its own command, every socket is closed, and the two ends never wait for each other.
* **Filter chains.**  Filters hold data back, and are asked again or told the end in an order
  the chain decides.  Correct: none is called out of turn and all data comes out.

## 2. The modules

| Module | Models | State and actions |
|---|---|---|
| `Timeout` | `timeout.c` and the time arithmetic of `socket_waitfd` | operators on a record `tm` = start, block, total; no state of its own. `Wakes` gives the times at which a poll may give up, with the cast of `usocket.c:34` |
| `ByteStream` | what `receive` promises | abstract: a mark in a stream moves when a call returns |
| `BufferReceive` | `buffer_meth_receive`, `buffer_get`, the three `recv*` loops, `socket_recv`, `socket_waitfd` | `pc` follows the C call stack: *get* (buffer_get), *recv* and *poll* (the system calls), *body* (the loop of the pattern). The buffer keeps its array, `first` and `last` |
| `BufferSend` | `buffer_meth_send`, `sendraw`, `socket_send` | *send* and *poll*; the kernel has a buffer of `Room` bytes that the peer drains |
| `TcpObject` | `tcp.c` over `inet_tryconnect`, `inet_trybind` and the sockets layer | a record per kernel descriptor, class, descriptor, family and limits per object; *bind*, *try*, *connect*, *poll*, *accept*, *wait* |
| `Select` | `global_select`, `collect_fd`, `check_dirty`, `return_fd`, `socket_select` | collection is one step (nothing else runs in the thread), the system call is another.  Its limit goes to `select(2)` in microseconds, which are the ticks here: no cast to an int as in `Wakes` |
| `SocketOptions` | `options.c`, the option tables of `tcp.c` and `udp.c`, and what creating, replacing and closing a socket does to its options | `kernel` is what the socket has, `told` what the program believes; *setoption*, *getoption*, *connect* (the loops of `inet.c`), *close* |
| `MimeFilters` | the eight filters of `mime.c` as folds over their bytes, and `filter.cycle` | `Feed(chunk)` and `End` for one filter |
| `Ltn12` | a pump over two chains of filters | `pc` is the function the Lua program is in; each call of a source, filter or sink is a step |
| `Datagram` | `udp.c` and `unixdgram.c` over the address loops, `inet_trydisconnect`, `socket_send`, `sendto`, `recv`, `recvfrom`, `socket_waitfd` | one object with the kernel's state of its socket: peer, local address, queue of datagrams; *try* (an address of the loop), *send*, *recv*, *wait*. Actions `udp_*` and `unixdgram_*` are the methods |
| `Http` | `http.request`: `http.lua` with the sources and sinks of `socket.lua`, `pump.all` and `except.c` | `pc` is the function of `trequest` in progress; `wire` is what the server still sends on the connection, as tokens, put together by `Stream` from the headers (`Fields`) and the framed body (`Framed`); redirects are recursion, so `conns` holds a connection per depth |
| `Dialogue` | `smtp.send`, `ftp.get`, `ftp.put`, `ftp.command` over `tp.lua` and `except.c`, and a server | a client function is a *script*, the sequence of its calls on the connections, and an action executes the call at its head; the server is a state machine over commands, a message or a transfer |
| `BufferReceive_proofs`, `BufferSend_proofs`, `TcpObject_proofs`, `Select_proofs`, `Ltn12_proofs`, `Datagram_proofs`, `Http_proofs`, `Dialogue_proofs` | | the theorems about each, with the lemmas they rest on |
| `MC*` | | instances for TLC: sets of streams, address lists, tables, bytes |

`Timeout` is extended by every module that waits.  `BufferReceive` instantiates `ByteStream`
under a refinement mapping.  Definitions keep the names of the C functions where they model
one.  A definition named `f_something` next to `f` is `f` with a plausible bug; the mutants
of `PROJECT.json` put it in place of `f` to see that a property notices.

Environment of the models, each external in the map: the peer sends, ends or resets at any
time; recv, send, poll, connect, accept and select may be interrupted, fail or wake for
nothing; the clock ticks at any time and never goes back; a connection attempt is answered
at any time or never; clients come to a server and leave before they are accepted; datagrams
arrive, are lost or damaged, and errors of earlier ones are reported; a connection is cut with
any part of an answer on the way; an SMTP or FTP server refuses any command, goes away at any
point with its answers, or loses the data connection.

### Abstractions

* Bytes are positions in a stream with a kind (`"cr"`, `"lf"`, `"ch"`) where only lines
  matter, and numbers in `MimeFilters`, where values do.
* In `Select` the readiness of a descriptor is a set the kernel changes at will.
* In `Ltn12` a byte is its position in the source and filters pass bytes on unchanged, so
  that "everything comes out in order" can be stated.  The filters otherwise are as free as
  the protocol lets them be: they hold any part of their input back.  Like the filters of
  `test/ltn12test.lua` they raise an error when called out of turn, under the stricter
  reading of `ltn012.md:353-355`: no data and no end while a filter still has output.
* In `Http` and `Dialogue` a line of a protocol is a token (a status with its code, a header with
  its value, a reply with its code, its separator and, as a history, the command it answers).  The
  buffered connection underneath is `BufferReceive` and `BufferSend`, whose promises (lines and counts
  come whole and in order, or fail) the tokens stand for; a call that fails does so as one of
  these would, by a timeout, a cut or a reset.  The body of an upload is the sizes of the pieces its
  source yields, empty ones included; the servers get the pieces, or chunks of their sizes.
* In `SocketOptions` `told` is the value of the last setting that succeeded, by the name it was set
  under.  What a value becomes on the way to the kernel is the converters' business, and whether it
  can come back unchanged is `Fits`.
* `Dialogue` has one element of `open` for the listening socket the object knows, and one, `"lost"`, for
  those whose place another has taken: nobody can close these.
* An exception of `except.c` is the operator `Raise`: the finalizer closes what the protocol object
  holds, then the protected call returns nil and a message.  An error of Lua is `Error`, which
  the finalizer does not see.
* In `Datagram` the kernel is Linux: a connected socket queues only what its peer sends, keeps what
  it had queued, loses a local address it was given by the kernel when it is disconnected, and
  reports errors of earlier datagrams when connected.
* `Ms` is the number of clock ticks in a millisecond and `IntMax` the largest int: the cast
  of a limit to milliseconds loses the ticks below one, and a limit past `IntMax` is polled
  without limit.

## 3. What the runs show

| Run | Question | Instance |
|---|---|---|
| `receive` | what does `receive` return, leave in the buffer and lose, and when does it give up? | a three-byte stream with a CR, a line and a last line without an end, through a two-byte buffer; each pattern, a count of two, prefixes; half-millisecond ticks, limits none, 0 and 2; one fault; a reset, an end and a close at any time |
| `send` | what reaches the wire and which index is returned? | three bytes, indices in and out of range from both ends, steps of two bytes, a kernel buffer of two, two calls of which the second may resume, one fault |
| `tcp_objects` | who owns which descriptor, in which mode, connected to whom, and does every wait give up at its limit? | two objects, two descriptors, a dual-stack host with two addresses of a family, two calls, one failing or interrupted system call or client that leaves, limits 0 and 1 of either kind, one of each object |
| `select` | is what is returned what was asked for and ready, in time? | two sockets, one of them possibly too large for the set or closed behind the object's back; tables with an object once, twice or not at all; limits none, 0 and 2; one signal |
| `socket_options` | is what a program was told it has set in force, and what it reads the truth? | every name of every object but `ipv6-multicast-hops` (see `options_hops`), right and wrong types and values, a u_short of 2 bits and an int of 4; a host of one family and one of two; three calls |
| `mime` | do the cuts matter, and do the codes undo each other? | every text of up to five bytes over LF, CR, blank, `=`, dot and 255, in chunks of one or two, lines of four |
| `datagrams` | what do send and receive say of a datagram, and is it true? | every kind of object but the two with a fixed family, whose creation is that of the Unix kind; a dual-stack host, also when it is asked for one family, a host of one address and one of none, two paths; empty datagrams and ones longer than the size asked for; three calls, two arrivals, one fault, limits 0 and 1 |
| `http` | what do the sink and the servers get, and does request return? | two documents with every pair of answers: each framing, two lengths, an HTTP/0.9 body, a 100 before, a 408 with and without a 100 before it, redirects to each other and to a scheme that is refused; three methods, an upload of two pieces and one of an empty piece, with and without a length, zero or two redirects, one cut, timeout or failing sink |
| `dialogue` | what is accepted, stored or reported done, and is all closed? | every authentication, two recipients; get and put over each way to make the data connection, a passive or another active one after an active one too; commands with and without a check; replies of several lines; messages and files of two blocks; two faults |
| `ltn12` | is every filter called in turn and does all data arrive? | three bytes, three filters before and two after, every way of holding data back, a source that fails and a sink that refuses at any point |

and two runs that TLC must find violated (section 5): `http_head` and `options_hops`.

The properties are commented where they are defined.  In short:

* **receive**: `BufferHoldsNext` (the buffer is the part of the stream after what was returned),
  `ReplyExact` (a reply, resumed or not, is the translation of the bytes it took), `EndsExact`
  (where each pattern ends: `LineExact`, `CountExact`, `AllExact`), `StatsExact`, the refinement
  `StreamSpec`; in time `LimitKept` (`TotalLimit` and `BlockLimitAlone`), `NoEarlyTimeout`, `Returns`.
* **send**: `WireExact` (the bytes selected as `string.sub` selects them, once, in order),
  `Accounted` (the index to resume from and the counter), `Returns`.
* **tcp**: `Owned` (each open descriptor by one object; without a local address), `NonBlocking`,
  `BothEnds` (a local address is kept, the peer is one asked for), `ZeroTriesOne`, `WaitsInTime` (a
  limited wait of connect or accept gives up at its limit, counted from the start of the attempt,
  neither later nor earlier, over signals and clients that leave).
* **select**: `Exactly`, `DirtyNeverWaits`, `LimitExact`, `Returns`.
* **mime**: `Incremental`, `RoundTrip` (wrapped too), `LinesSafe` (no blank at an end, no line too
  long), `DotTransparent`, `EolLines`.
* **ltn12**: `NeverRaises`, `Delivered`, `Ends`.
* **datagrams**: `ReceivedExact` (each datagram at most once, in order, cut as asked, from the sender
  named; a failing call loses none), `SentExact` (sent once or not at all, to the last peer set; an
  unconnected object has no peer), `Returns`.
* **http**: `BodyExact` (the sink gets the body of the last answer and nothing of another; all of it
  on success, unless only the end of the connection tells its end, and none of a 408), `UploadExact`
  (once, whole, to one server, with the end of a chunked body after it; no end before that, if no
  piece is empty), `ClosedOnReturn` (every connection but that of a 408), `Returns`.  What the documents
  say without these exceptions is `BodyToSink`, `ChunkedCoding` and `NoneOpen`, and is violated.
* **dialogue**: `Whole` (accepted, stored or handed over in full or not reported so; a message the
  source or connection failed in is never accepted), `InStep` (a check reads the reply to the last
  command), `AllClosed` (every socket but a listening one that lost its place to another, in a call
  that listens twice; without the exception it is `ClosedInException`, and violated), `NoStall` (a call
  fails only for a fault, never because each end waits for the other).
* **options**: `InForce` (what the program was told is set reads back, if it fits, whichever options were
  set, refused or misused in between and whatever the object was bound or connected to; it is in the
  groups it joined and no others).  `HopsInForce` and `LingerInForce` say the same of the two hop limits
  and of a linger time that does not fit, and are violated.

`BufferReceive`, `BufferSend`, `TcpObject`, `Select` and `MimeFilters` state a `TypeOK`, which holds on
the instances of their runs.  Those of `BufferReceive`, `BufferSend` and `Select` are proved; what
the proofs about `TcpObject` need of its types is part of their invariant.

**Why the bounds are enough.**  Each component's hard cases need two of something: two buffers
to cross, two calls to resume, two limits, two addresses, two objects for one descriptor number
to be reused by, two faults to interrupt a retried wait.  A third adds length and no new
adjacency.  `receive`, `send`, `tcp_objects`, `select`, `ltn12` and `http` may be small for another
reason: their invariants are proved for every bound, stream, table, chain and site (section 4), and
the runs are there to refute a wrong statement cheaply and to check what is not proved.  In `mime`,
the longest thing a context carries is three bytes (a base64 group, an escape with its digits), so five-byte texts cut everywhere put a cut at every place of it with
something before and after; lines of four let a text wrap.  In `ltn12` three filters are the least
with one that is neither first nor last.  In `datagrams` three calls are a connect, a change of peer
or class, and a call that uses it; in `http` two redirects are the first depth at which a count
that is not carried over shows, and two blocks a body that can be cut inside; in `dialogue` a
second fault is one that hits the handling of the first.  Named bounds: `LimitOnce` (of `tcp_objects`: a program
sets one limit of each object, before it is a client or a server), `MaxNow` (the clock stops), `LastCall`
(the last time a call may start, before the clock stops), `MaxFaults`, `MaxCalls`, `MaxText`,
`MaxChunk`, `MaxArrivals`, `Blocks`, `StepSize` and `BLOCKSIZE` for the 8192 bytes of
`STEPSIZE` and the 2048 of `socket.BLOCKSIZE`.  The bounds are guards of the actions;
the proofs hold for every value of them.

**Symmetry and view.**  `tcp_objects` uses both, and has no liveness property.  Objects and
descriptors are interchangeable: no definition names one of them.  The view drops, between
calls, the variables of the call in progress and the start of the last operation, each of which a
call sets before it reads it; the
action properties of the run speak of steps inside a call and of what asked, kernel and the
objects hold, which the view keeps.

**Deadlock** is checked except where the program may stop: a `select` without limit on sockets
where nothing happens sleeps for ever; a filter that was given its end, and a pump, a request or a
dialogue that has returned, are not called again; an object that has made its calls is left alone.

**Fairness.**  Weak fairness of the clock (`Tick`) and of the step the process or the kernel has
to make for the call in progress (`Call`, `System`, `Client` in `Http`; `Next` in `Ltn12`, where there is nothing
else).  `Http` has no clock: that a read which nothing answers fails after `TIMEOUT` seconds is what
`BufferReceive` and its `Returns` show, and an alternative of each action.  `Dialogue` needs no
fairness: `NoStall` says that the limit is never what ends a call between willing partners.  The code is a loop of system calls in one thread, so a step that stays possible is taken;
nothing is assumed of the peer, the network, the resolver's hosts or the clients.  Signals are
bounded by `MaxFaults`: endlessly many in a row would starve any wait.  `Returns` and `Ends` are checked by TLC
only.  For connect and accept `WaitsInTime` says what a limit is worth, and is proved; that the calls
then end under this fairness, `LimitedReturns`, has a configuration of its own, `MCTcpObjectTime.cfg`,
with one address and without symmetry, which passes and is not a standing run.

## 4. What is proved

Every theorem is about the specification of its module, for every value of the constants the
assumptions allow.  An invariant that a run checks is seldom inductive; each section says what
was added to it.

**Input buffer** (`BufferReceive_proofs`), for every buffer size, stream, set of counts, limit and
bound:

* `Invariance`: `Spec => []IInv`, and from it `TypeCorrect`, `BufferCorrect`, `ReplyCorrect`
  and `EndsCorrect` (with its parts `LineCorrect`, `CountCorrect` and `AllCorrect`);
* `LimitsKept` (`LimitKept`): no call waits past its limit; `NeverEarly` (`NoEarlyTimeout`): none
  gives up before one is reached, to the millisecond;
* `StatsCorrect` (`StatsExact`): the counter follows what leaves the buffer, in every step;
* `Implements` (`StreamSpec`): every step is a step of `ByteStream` or leaves it as it was.

`IInv` adds `CallShape` to the invariants: the socket is read only when the buffer is empty, an
error leaves it empty, a closed stream has been taken whole, and `total` counts the bytes since
the call began.  `ReplyExact` needs `BufferHoldsNext`, since what a reply gets is what the array
holds, and `LineExact` needs `ReplyExact`'s account of where the loop stands in the buffer;
`CountExact` and `AllExact` rest on `CallShape`.  The proof has a lemma per group of actions: the
environment, the methods, `receive`, `buffer_get` and its failure, `recv`, the waits, and the loop
of each pattern; lemmas on `Append`, `SubSeq` and `\o` say how a reply grows.  `LimitsKept` uses a
second invariant, `TimeInv`: the start of a call and of a wait never lie ahead of the clock, and a
poll's wake-up is bounded by what `timeout_getretry` left, whose division to milliseconds never
rounds up (`RoundsDown`).  `NeverEarly` uses the opposite bounds (`RoundsLess`, `WakesReached`) and
assumes that the limits fit the int of milliseconds: without that the cast of `usocket.c:34` cuts
them, and the call returns early.  `Implements` needs to know how long a reply is while a call is
under way (`Lengths`), since the abstract step returns it whole.

**Output** (`BufferSend_proofs`), for every string, set of indices, step, capacity and limit:
`WireCorrect` (`WireExact`), `AccountCorrect` (`Accounted`) and `TypeCorrect`.  `WireExact` says what
is on the wire but not where a call stands, so it is not inductive.  The invariant `ChainInv` says
that the wire has got, since the chain of resumed calls began, the bytes from the start of its range
up to `Progress`, one for one; that `Progress` does not pass the end of the range; and that it falls
short of the end only in a call that goes on or has failed.  A call that resumes keeps `Progress`,
because a positive index resolves to itself; a call that starts a chain makes it the start of its
range.  `RangeSelected` then turns the resolved range, with its clipping and negative indices, into
what `string.sub` selects.

**TCP objects** (`TcpObject_proofs`), for every resolver, number of objects and descriptors, and limit:

* `HeldOnce`: no descriptor is held by two objects; `OwnedCorrect` (`Owned`): and none that is open is
  held by no object.  The second assumes that `socket.connect` is given no local address
  (`Local \subseteq {<<>>}`): with one the code loses a descriptor, as `MCTcpObjectLeak.cfg` shows;
* `NonBlockingCorrect` (`NonBlocking`), `BothEndsCorrect` (`BothEnds`), `ZeroTriesOneCorrect`
  (`ZeroTriesOne`);
* `WaitsInTimeCorrect` (`WaitsInTime`): a limited connect or accept never sleeps for ever, and each of its
  waits gives up when a limit has passed since the start of the attempt, to the millisecond.  It assumes
  that the limits fit the int of poll, and its invariant (`TimeInv`) adds that they do, and that no
  operation began in the future, to the property; `WakesInTime` is the arithmetic of
  `timeout_getretry` and the cast.

The properties speak of objects between calls; their proof has to know where a call is.  `IInv` has
`Table`, which ties every object to a descriptor of its family, peer and mode and every descriptor to
an object, with the object being bound excepted from the mode; `CallFits` (which methods reach which
place, and with which class); `LoopFits` (the addresses still to be tried are of those asked for and
of the family of the object, and the socket is of the current family); `IdleHoldNothing`.  `Table` is
an operator on the tables themselves, so that its lemmas (`TableDrop` and those after it) say once
what destroying, making, changing and taking over a descriptor keep.

**select** (`Select_proofs`), for every table, limit and set of objects: `TypeCorrect`,
`DirtyNeverWaitsCorrect`, `LimitCorrect` (`LimitExact`) and `ExactlyCorrect` (`Exactly`).  `IInv` says what the
sets, the map from descriptors to objects, the tables so far and the limit of a call are while it
sleeps; `LastWith` picks the object the map keeps for a descriptor.  `ExactlyCorrect` assumes that no
two open objects have the same descriptor (`Distinct`; nothing the program or the kernel does
breaks it, `DistinctKept`).  For sockets this is `HeldOnce` above; without it TLC refutes
`Exactly` (section 5).

**Chains of filters** (`Ltn12_proofs`), for chains and sources of every length and filters that hold
and cut their data in every way:

* `TurnsCorrect` (`NeverRaises`): no filter or sink is called out of turn;
* `DeliveredCorrect` (`Delivered`): the sink gets the bytes in order, each once, and on success all
  of them and the end, when every filter has given all it held.

`NeverRaises` needs the protocol of the whole chain, `IInv`: the filters before `top` have given all,
`top` and those up to `index` have output left, those after it have none (`Shape`); what may be called
with which chunk (`Callable`), and what the chain may have returned (`Left`); where both chains are by
the place the pump has reached (`Place`); and when the end is told (`Told`).  `Delivered` needs
`FlowInv`: there are counts `a[i]` and `b[i]` of the bytes that are past each filter of the two
chains, such that what every filter holds, with what is on its way to it, is the row of bytes
between its count and that of the one before, and so are what lies between the chains and what the
sink has.  A call of a filter moves one count (`FlowCall`, `FlowOn`), an entry the first (`FlowEnter`).
That the counts fall along a chain of any length, and agree when no filter holds anything
(`FlowEnds`), is by induction.

**Datagrams** (`Datagram_proofs`), for every family, list of addresses a name resolves to, limit, size
and order of calls, arrivals and faults: `SentCorrect` (`SentExact`) and `ReceivedCorrect`
(`ReceivedExact`), which say what a step may do and so are proved of the steps from the states of an
invariant, `Inv`.  It says that a socket which is bound or has a peer is of the family of its object
(`SocketFits`), so that connecting it never replaces it and loses its queue; that the queue holds
what has arrived after the last datagram returned, in order (`InOrder`), so that none is returned
twice; and, of the call in progress, that nothing of it has been sent while it is under way, that a
datagram of `send` goes to the last peer that was set, and that every address a bound socket has still
to try is of its family (`CallFits`), since the resolver is asked for that family.

**HTTP** (`Http_proofs`), for every site, server behaviour, body, chunking and number of redirects:

* `UploadCorrect` (`UploadExact`), by `UploadInv`: what was uploaded and what the source has left make up
  the body at each place, and a body with a source is only ever sent to the first server; that an end
  is not told before its time follows when no piece is empty (`EmptiesLast`);
* `BodyCorrect` (`BodyExact`), by `BodyInv`: what is left on the wire begins what the answer says is
  left from here on, cut anywhere (`StatusPhase`, `HeadersPhase`, and for the body `OldBody` and
  `NewBody` with its two framings), and the sink has got just the blocks before it; a request that has
  read a first code of 408 is over, so that no later phase belongs to an abandoned answer;
* `ConnectionsClosed` (`ClosedOnReturn`): the only connection ever open is that of the redirect in
  progress (`conns` holds at most `nredirects`), so that closing it leaves none; by `BodyInv` a request
  that is done without closing it has met a 408.

**SMTP and FTP** (`Dialogue_proofs`), for every script of `smtp.lua` and `ftp.lua`, with any number of
recipients, ways to make the data connection, blocks and reply lines, any server and any faults:

* `AllSocketsClosed` (`AllClosed`), by `SocketsInv`: a call returns only by an exception, whose finalizer
  closes, or by the last call of its script, which does; and while a call has a listening socket, its
  script has listened and not been passive since (`Holds`, which counts the steps made, branches
  aside), so that a socket is lost only when the script listens again (`Relistens`);
* `DialogueInStep` (`InStep`): the reply a check reads answers the last command sent, unless the call
  leaves replies unchecked, and the server never takes a block of a message for a command;
* `DialogueWhole` (`Whole`): what is accepted, stored, handed to the sink or reported as done is whole;
* `DialogueNoStall` (`NoStall`): a call fails only for a reason outside the client.

None of the last three is inductive: what a check reads depends on every command sent and every reply read
before it, and the list of steps that is left says nothing of them.  The invariant `Inv` says where a
call stands.  A script is a path through *places* (`Places`, `Step`, `Path`): a place says which reply
is awaited or has been read, what of the work is done (the recipients told, the blocks sent), and
which data connection there is; and every script is proved to be such a path, to the place where the
call is over (`ScriptPath` and the lemmas before it, by induction on the number of recipients, modes,
blocks and commands).  `Going(s, q)` ties the rest of a call to its place `s` and to the answers `q`
that are on their way or still to come: what is on the wire is the lines of `q`, without those of
the first that are read (`OnWire`); the commands in transit, the mode of the server and
`q` are of the few combinations the place admits (`Talking`); and the file and the message are as far as
the place says (`FileData`, `MailData`).  Every step of the client leads along a step of its path and every
step of the server, and every fault, leaves the call at its place.  `Sound` is what is left of this
once the call is over.  `NoStall` follows because in none of the combinations of `Talking` do both
sides wait.

**Induction.**  The library states induction with an operator as a parameter, which the provers here
cannot instantiate.  `Inductive` states it of a set instead (0 is in it, and the successor of each
member), from the well-foundedness of `<` and `WFMin`, and `Recursion` gives the function that a first
value and a step define.  Each module of proofs stands alone, so those that need the two prove them.

Assumptions: those named in the modules on their constants (a buffer of at least one byte, a
millisecond of at least one tick, a resolver that answers network addresses and no paths, bounds that
are numbers), which TLC evaluates in each run; and the hypotheses named above, stated in their theorems:
limits that fit (`NeverEarly`, `WaitsInTimeCorrect`), no local address (`OwnedCorrect`), and `Distinct` (`ExactlyCorrect`).

Only model-checked:

* `MimeFilters`: folds over every text, whose operators of the community modules the provers know
  nothing about, and whose induction over the text they cannot do;
* `SocketOptions` (`InForce`), which is about one table of names and a handful of converters: TLC goes
  through all of them;
* every liveness property (`Returns`, `Ends`), which is out of TLAPS's reach under
  fairness.

## 5. Disagreements between the code and its documents

Two are standing runs that TLC must find violated; their findings in `PROJECT.json` quote the
documents.

* `http_head`: the request made for a redirect does not take over the method, so a HEAD for a
  document that has moved is followed by a GET, and the document is downloaded into the sink
  (`http.lua:340`, `docs/http.html:250`).
* `options_hops`: `ipv6-multicast-hops` is entered in the tables with the handlers of the unicast hops
  (`udp.c:84`, `udp.c:104`), so that setting it sets the other option, which then reads as it was not
  set; `opt_set_ip6_multicast_hops` is never used.

The others have a configuration each, with which TLC finds the counterexample
(`tlc -config MCHttpEmpty.cfg MCHttp` and so on); they are not standing runs.  What the standing runs
and the theorems say of the same behaviour is in brackets.

* `MCHttp408Body.cfg`, `BodyToSink`, and `MCHttp408Open.cfg`, `NoneOpen`: the code 408 that
  `receivestatusline` returns for a time-out cannot come from there, because the time-out is an exception
  before it (`http.lua:160-166`); it comes from a server that answers 408.  Such a request succeeds at
  once, without the headers, the body or `h:close()`: nothing goes to the sink (`docs/http.html:199`),
  and the connection stays open until it is collected (`http.lua:373-374`, `docs/socket.html:192`).
  [`BodyExact`: the sink gets nothing of a 408; `ClosedOnReturn`: it leaves its connection open, and
  nothing else does.]
* `MCHttpEmpty.cfg`, `ChunkedCoding`: a source that yields an empty piece (`until-closed` does, when the
  connection ends at a block) makes the chunked sink write the chunk that ends the body, in its middle
  (`http.lua:111`, `docs/socket.html:323`).  [`UploadExact`: only an empty piece does.]
* `MCDialoguePorts.cfg`, `ClosedInException`: a second `port` or `eprt` overwrites the listening socket of
  the first, which is open until it is collected, whatever the finalizer does (`ftp.lua:106`,
  `ftp.lua:122`, `ftp.lua:40`).  [`AllClosed`: nothing else is left open.]
* `MCSocketOptionsLinger.cfg`, `LingerInForce`: the linger time is cut to an unsigned short
  (`options.c:303`), and a longer time is set with success as a short one (`docs/tcp.html:466`).
  [`InForce`: what fits is in force.]
* `MCTcpObjectTotalLimit.cfg`, `TotalLimit`: `inet_tryconnect` marks the start anew at every address
  (`inet.c:402`), so the total limit bounds each attempt and not the call (`docs/tcp.html:563`).
  [`WaitsInTime`: each attempt is bounded.]
* `MCTcpObjectLeak.cfg`, `NoLeak`: `socket.connect` with a local address, whose bind fails after the
  socket was made (`tcp.c:461`), leaves an object without class and so without a finalizer
  (`docs/tcp.html:119`).
* `MCTcpObjectAllTried.cfg`, `AllTried`: a second address of one family is "tried" by a second
  `connect` on the same descriptor (`inet.c:408`), while the first attempt is pending or failed
  (`docs/tcp.html:171`).
* `MCTcpObjectFamily.cfg`, `FamilyRestricted`: the family given to `socket.connect` restricts the
  local address only (`tcp.c:471`, `docs/socket.html:105`).

Others were met while the modules were written, and are kept as comments in the models or as
hazards, without a run:

* With both limits set, a poll that is interrupted is given the whole block limit again
  (`timeout.c:102-104`); this is why `BlockLimitAlone` is stated of a block limit alone.
* A limit of more than `INT_MAX` milliseconds overflows (`usocket.c:34`) and is polled as none.
* `select` raises an error where the manual promises the message "select failed"
  (`select.c:80`); compares descriptors and not their number with `_SETSIZE` (`select.c:140`);
  and with two objects on one descriptor returns the last collected for both tables
  (`select.c:148-151`).  With buffered data at hand, a failing system call is taken for success
  (`select.c:70`).
* `eol` returns 0 as its context after the second byte of a pair (`mime.c:767`), where the
  manual says the last byte; `unb64` and `unqp` drop an incomplete group or escape at the end
  (`mime.c:423`, `mime.c:676`), where the manual returns it; `qpwrp` breaks a line of just its
  length (`mime.c:734`).
* Datagrams: what was queued before `setpeername` is returned although it came from others, where
  the manual says a connected object receives from its peer only; `receive` on a closed object, or
  one that has no socket yet, returns the empty string like an empty datagram, and `receivefrom` then
  names a sender from memory that was not written; a `setpeername` that fails may leave an object of no
  family with a socket; and the connect and bind of a Unix datagram object destroy its socket when
  they fail.  The manual says `send` returns 1 and never blocks: it returns the count and polls.
* HTTP: when the source of an upload fails, the chunked sink still sends the last chunk, so that the
  server sees a complete body (`http.lua:110`); an answer without a status line after a 100 is an
  error of Lua, which leaves the connection open (`http.lua:377`); so is a trailer of a chunked
  answer that also has a length, since the length takes the place of the headers table
  (`http.lua:187`); an HTTP/0.9 answer under five bytes is an error; and the manual says that the
  chunked sink closes the socket when done (`docs/socket.html:324`), which it does not.
* SMTP and FTP: a refused QUIT makes `smtp.send` and `ftp.get` fail after the message was accepted
  or the file received; a file whose source failed is stored by the server like a whole one, since
  only the end of the data connection ends it; `checkstep` looks up `readyt[tp]` with the module
  for the object and never reads a reply early (`ftp.lua:155`); `tp:getsockname` is
  `getpeername` (`tp.lua:54`); `port` calls `math.mod` (`ftp.lua:110`), which Lua has up to 5.1 and is an
  error of Lua, not seen by the finalizer, later (the scripts are those of Lua 5.1); a command of `ftp.command` without a check leaves its reply to the next check,
  which is why `InStep` leaves those out; a 2xx reply to `retr` goes to the sink as if it were
  the file (`ftp.lua:180`); and `ftp.put` returns the count of bytes, not 1.
* Options: a number that does not fit an int becomes an end of its range, a fraction is cut, and
  anything that is not a number is set as 0 (`options.c:505`); `getoption("bindtodevice")` of a socket
  bound to none returns a string that was never written; and the options of an object of no family
  cannot be set before its first use, and are lost when a later address replaces its socket.
* `pump.all` reports success when a sink refuses a chunk without an error message
  (`ltn12.lua:311-313`), although `ltn012.md` makes the message optional; `Delivered` says what
  success means for a sink that refused nothing.

## 6. Not modelled, and why

The Windows layer (another system call interface); the `SOCKET_SELECT` build of
`socket_waitfd`; a clock set back (its effect is that of a longer limit); `setfd` and
`getfd`, which hand the descriptor to the program; `shutdown`, which changes no state
of the object; the `socket.dns` functions and `getstats`, which only ask; the serial port, which
opens a device; registration, compatibility and error texts; a connect on a listening server, whose
class no document settles (`tcp.c:290`); the coroutine-aware pcall of `except.c`.  `Ltn12` leaves
out `cat` and `simplify`, and has non-empty chunks from its source.

`unixstream.c` repeats `tcp.c` with a path in place of the resolver's list: its calls are those of
`TcpObject` with one address.  Of `Http`, the adjusting of urls, headers and proxies is text, and
`maxredirects = false`, which allows redirects without end, is not among the values.  Of
`Dialogue`, the source of `smtp.message` builds text in a coroutine, and the parsing of passive
replies is taken to succeed.  `url.lua`, `mbox.lua` and `headers.lua` are functions on text that
keep no state.

## 7. Plan

Order: the components every other one rests on first.

1. Done: `Timeout`, `BufferReceive` with its abstract specification and its proofs,
   `BufferSend`, `TcpObject`, `Select`, `MimeFilters`, `Ltn12`.
2. Done: `SocketOptions`, `Datagram`, `Http`, `Dialogue`, with the exceptions of `except.c` and the sources and sinks
   of `socket.lua` inside them.
3. Open: `Url` (escaping, and the removal of dot segments against a reference definition), the
   message source of SMTP, the stream objects of `unixstream.c`.

Theorems to come: `InForce`; for `MimeFilters`,
`Incremental` of the filters that carry no text, from `Recursion`.
