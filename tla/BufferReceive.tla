---------------------------- MODULE BufferReceive ----------------------------
(***************************************************************************)
(* client:receive of a stream object: the buffer of buffer.c over the recv *)
(* loop and the poll of usocket.c.                                         *)
(*                                                                         *)
(* One Lua call runs at a time; between its system calls the peer, the     *)
(* network, the clock and signals move.  A byte is represented by its      *)
(* position in input (see ByteStream).                                     *)
(***************************************************************************)
EXTENDS Timeout, Sequences

CONSTANTS
    Inputs,         \* what the peer may write: sequences over {"ch", "cr", "lf"}
    Wanted,         \* the numbers receive(number) is called with
    BufSize,        \* BUF_SIZE, the capacity of the buffer
    TimeoutValues,  \* the values settimeout is called with
    StatsValues,    \* the received counts setstats is called with
    MaxFaults,      \* bound: signals, spurious wake-ups and system call errors
    MaxNow,         \* bound: the clock stops here
    LastCall        \* bound: no call starts after this time

ASSUME InputsAssumption  == Inputs \subseteq Seq({"ch", "cr", "lf"})
ASSUME WantedAssumption  == Wanted \subseteq Nat
ASSUME BufSizeAssumption == BufSize \in Nat \ {0}
ASSUME TimeoutAssumption == TimeoutValues \subseteq Int
ASSUME StatsAssumption   == StatsValues \subseteq Nat
ASSUME BoundsAssumption  == MaxFaults \in Nat /\ MaxNow \in Nat /\ LastCall \in Int

VARIABLES
    \* the peer, the kernel and the clock
    input,      \* what the peer writes
    arrived,    \* how much of it has reached the socket
    fin,        \* "open", "fin" (orderly end) or "reset"
    now,        \* timeout_gettime
    faults,     \* faults so far
    \* the object: socket descriptor, struct t_buffer, struct t_timeout
    sock,       \* "open" or "invalid" (SOCKET_INVALID)
    taken,      \* how much recv has read
    data, first, last, received,
    tm,
    \* the call in progress; when idle, err and b are what the last one returned
    pc,         \* "idle", "get" (buffer_get), "recv", "poll" or "body" (after buffer_get)
    pat,        \* "l", "a" or "n"
    wanted,     \* the number asked for
    b,          \* luaL_Buffer b: prefix and bytes received so far
    total,      \* recvall: bytes received by this call
    pos,        \* recvline: bytes of the buffer scanned
    err,        \* "done", "timeout", "closed" or "error"
    wake,       \* when the poll in progress gives up, Forever if it does not
    \* history, read by properties only
    waitFrom,   \* when the socket_waitfd in progress was entered
    callStart,  \* bytes consumed when the call started
    chain       \* bytes consumed when the first call of a chain of resumed calls started

peerVars   == <<input, arrived, fin>>
bufferVars == <<data, first, last, received, taken>>
argVars    == <<tm, pat, wanted, callStart, chain>>
callVars   == <<argVars, b, total, pos>>
waitVars   == <<wake, waitFrom>>
objectVars == <<sock, bufferVars, callVars, pc, err, waitVars>>
vars       == <<peerVars, now, faults, objectVars>>

buffer_isempty == first >= last
Count          == last - first       \* what buffer_get offers in *count
Consumed       == taken - Count      \* bytes that have left the buffer for good
Readable       == arrived > taken \/ fin # "open"

Init ==
    /\ input \in Inputs
    /\ arrived = 0 /\ fin = "open" /\ now = 0 /\ faults = 0
    /\ sock = "open"
    /\ data = [i \in 0..BufSize-1 |-> 0]
    /\ first = 0 /\ last = 0 /\ received = 0 /\ taken = 0
    /\ tm = timeout_init(-1, -1)
    /\ pc = "idle" /\ pat = "n" /\ wanted = 0 /\ err = "done"
    /\ b = <<>> /\ total = 0 /\ pos = 0
    /\ wake = Forever /\ waitFrom = 0 /\ callStart = 0 /\ chain = 0

-----------------------------------------------------------------------------
\* The peer, the network and the clock.

PeerSends ==
    /\ fin = "open"
    /\ \E n \in arrived+1..Len(input) : arrived' = n
    /\ UNCHANGED <<input, fin, now, faults, objectVars>>

\* A reset may destroy what has arrived and not been read.
PeerEnds ==
    /\ fin = "open"
    /\ \/ fin' = "fin" /\ arrived' = arrived
       \/ fin' = "reset" /\ arrived' \in {arrived, taken}
    /\ UNCHANGED <<input, now, faults, objectVars>>

Tick ==
    /\ now < MaxNow
    /\ now' = now + 1
    /\ UNCHANGED <<peerVars, faults, objectVars>>

Fault == faults < MaxFaults /\ faults' = faults + 1

-----------------------------------------------------------------------------
\* The other methods of the object.

SetTimeout(value, mode) ==
    /\ pc = "idle"
    /\ tm' = timeout_meth_settimeout(tm, value, mode)
    /\ UNCHANGED <<peerVars, now, faults, sock, bufferVars, pat, wanted, callStart, chain,
                   b, total, pos, pc, err, waitVars>>

buffer_meth_setstats(r) ==
    /\ pc = "idle"
    /\ received' = r
    /\ UNCHANGED <<peerVars, now, faults, sock, data, first, last, taken, callVars, pc, err,
                   waitVars>>

\* close leaves the buffer as it is.
socket_destroy ==
    /\ pc = "idle" /\ sock = "open"
    /\ sock' = "invalid"
    /\ UNCHANGED <<peerVars, now, faults, bufferVars, callVars, pc, err, waitVars>>

-----------------------------------------------------------------------------
\* receive(pattern, prefix).  A client that resumes a failed call passes its
\* partial result as the prefix.

buffer_meth_receive(p, n, resume) ==
    /\ pc = "idle" /\ now <= LastCall
    /\ resume => err # "done" /\ p = pat
    /\ tm' = timeout_markstart(tm, now)
    /\ pat' = p /\ wanted' = n
    /\ b' = IF resume THEN b ELSE <<>>
    /\ total' = 0 /\ pos' = 0 /\ err' = "done"
    /\ callStart' = Consumed
    /\ chain' = IF resume THEN chain ELSE Consumed
    /\ pc' = IF p = "n" /\ b' # <<>> /\ n <= Len(b') THEN "idle" ELSE "get"
    /\ UNCHANGED <<peerVars, now, faults, sock, bufferVars, waitVars>>

\* buffer_get returns with error e and nothing in the buffer.
GetFails(e) ==
    /\ err' = e
    /\ first' = 0 /\ last' = 0
    /\ pc' = "body"
    /\ UNCHANGED <<data, received, taken>>

\* buffer_get reads from the socket although the buffer still holds bytes.
buffer_get_always_reads ==
    /\ pc = "get"
    /\ IF sock = "open" THEN pc' = "recv" /\ UNCHANGED <<bufferVars, err>> ELSE GetFails("closed")
    /\ UNCHANGED <<peerVars, now, faults, sock, callVars, waitVars>>

\* buffer_get: what the buffer holds, or else what recv reads.
buffer_get ==
    /\ pc = "get"
    /\ IF ~buffer_isempty THEN pc' = "body" /\ UNCHANGED <<bufferVars, err>>
       ELSE IF sock = "open" THEN pc' = "recv" /\ UNCHANGED <<bufferVars, err>>
       ELSE GetFails("closed")
    /\ UNCHANGED <<peerVars, now, faults, sock, callVars, waitVars>>

-----------------------------------------------------------------------------
\* socket_recv and socket_waitfd, one action per outcome of a system call.

\* The end of the buffer is set to its capacity, not to the bytes recv got.
FillBuffer_whole(n) ==
    /\ data' = [i \in 0..BufSize-1 |-> IF i < n THEN taken + i + 1 ELSE data[i]]
    /\ first' = 0 /\ last' = BufSize
    /\ taken' = taken + n

FillBuffer(n) ==
    /\ data' = [i \in 0..BufSize-1 |-> IF i < n THEN taken + i + 1 ELSE data[i]]
    /\ first' = 0 /\ last' = n
    /\ taken' = taken + n

\* recv is allowed more bytes than the buffer has room for.
RecvData_overruns ==
    /\ pc = "recv"
    /\ \E n \in 1..(arrived - taken) : FillBuffer(n)
    /\ pc' = "body" /\ err' = "done"
    /\ UNCHANGED <<peerVars, now, faults, sock, received, callVars, waitVars>>

RecvData ==
    /\ pc = "recv"
    /\ \E n \in 1..MIN(BufSize, arrived - taken) : FillBuffer(n)
    /\ pc' = "body" /\ err' = "done"
    /\ UNCHANGED <<peerVars, now, faults, sock, received, callVars, waitVars>>

\* recv fails: the peer has closed and everything is read; it has reset the
\* connection, which is reported once; or another error.
RecvFails ==
    /\ pc = "recv"
    /\ \/ arrived = taken /\ fin = "fin" /\ GetFails("closed") /\ UNCHANGED <<fin, faults>>
       \/ arrived = taken /\ fin = "reset" /\ GetFails("error") /\ fin' = "fin" /\ UNCHANGED faults
       \/ Fault /\ GetFails("error") /\ UNCHANGED fin
    /\ UNCHANGED <<input, arrived, now, sock, callVars, waitVars>>

\* EINTR: try again.
RecvInterrupted ==
    /\ pc = "recv"
    /\ Fault
    /\ UNCHANGED <<peerVars, now, objectVars>>

\* poll is entered with the time left by timeout_getretry.
EnterPoll == pc' = "poll" /\ wake' \in Wakes(tm, now)

\* EAGAIN: nothing to read, or nothing left of what woke the poll up.
RecvWouldBlock ==
    /\ pc = "recv"
    /\ IF Readable THEN Fault ELSE UNCHANGED faults
    /\ IF timeout_iszero(tm)
       THEN GetFails("timeout") /\ UNCHANGED waitVars
       ELSE EnterPoll /\ waitFrom' = now /\ UNCHANGED <<bufferVars, err>>
    /\ UNCHANGED <<peerVars, now, sock, callVars>>

PollReady ==
    /\ pc = "poll" /\ Readable
    /\ pc' = "recv"
    /\ UNCHANGED <<peerVars, now, faults, sock, bufferVars, callVars, err, waitVars>>

\* The poll gives up, perhaps just before bytes that are there now arrived, or
\* it fails.
PollFails ==
    /\ pc = "poll"
    /\ \/ wake # Forever /\ now >= wake /\ GetFails("timeout") /\ UNCHANGED faults
       \/ Fault /\ GetFails("error")
    /\ UNCHANGED <<peerVars, now, sock, callVars, waitVars>>

\* An interrupted poll is taken for one that gave up.
PollInterrupted_gives_up ==
    /\ pc = "poll" /\ (wake = Forever \/ now < wake)
    /\ Fault
    /\ GetFails("timeout")
    /\ UNCHANGED <<peerVars, now, sock, callVars, waitVars>>

\* EINTR: poll again with the time that is left.
PollInterrupted ==
    /\ pc = "poll" /\ (wake = Forever \/ now < wake)
    /\ Fault
    /\ EnterPoll
    /\ UNCHANGED <<peerVars, now, sock, bufferVars, callVars, err, waitFrom>>

-----------------------------------------------------------------------------
\* The loops of the patterns, from the return of buffer_get to the next call of
\* buffer_get or the return to the client.

\* Bytes skipped at the end of the buffer are not counted as received.
buffer_skip_uncounted(n) ==
    /\ IF first + n >= last
       THEN first' = 0 /\ last' = 0 /\ received' = received
       ELSE first' = first + n /\ last' = last /\ received' = received + n
    /\ UNCHANGED <<data, taken>>

buffer_skip(n) ==
    /\ received' = received + n
    /\ IF first + n >= last
       THEN first' = 0 /\ last' = 0
       ELSE first' = first + n /\ last' = last
    /\ UNCHANGED <<data, taken>>

NextByte == data[first + pos]
Front(n) == [i \in 1..n |-> data[first + i - 1]]   \* the first n bytes of the buffer

BodyFrame == UNCHANGED <<peerVars, now, faults, sock, argVars, waitVars>>

\* The scan drops the LF with the CRs and goes on.
RecvLineByte_drops_lf ==
    /\ pc = "body" /\ pat = "l"
    /\ pos < Count
    /\ b' = IF input[NextByte] # "ch" THEN b ELSE Append(b, NextByte)
    /\ pos' = pos + 1
    /\ UNCHANGED <<bufferVars, total, pc, err>> /\ BodyFrame

\* recvline: CRs are dropped wherever they are.
RecvLineByte ==
    /\ pc = "body" /\ pat = "l"
    /\ pos < Count /\ input[NextByte] # "lf"
    /\ b' = IF input[NextByte] = "cr" THEN b ELSE Append(b, NextByte)
    /\ pos' = pos + 1
    /\ UNCHANGED <<bufferVars, total, pc, err>> /\ BodyFrame

RecvLineFound ==
    /\ pc = "body" /\ pat = "l"
    /\ pos < Count /\ input[NextByte] = "lf"
    /\ buffer_skip(pos + 1)
    /\ pos' = 0 /\ pc' = "idle"
    /\ UNCHANGED <<b, total, err>> /\ BodyFrame

RecvLineEnd ==
    /\ pc = "body" /\ pat = "l"
    /\ pos = Count
    /\ buffer_skip(pos)
    /\ pos' = 0
    /\ pc' = IF err = "done" THEN "get" ELSE "idle"
    /\ UNCHANGED <<b, total, err>> /\ BodyFrame

\* A close with nothing received by this call counts as success if the prefix
\* held something.
RecvAll_counts_prefix ==
    /\ pc = "body" /\ pat = "a"
    /\ b' = b \o Front(Count) /\ total' = total + Count
    /\ buffer_skip(Count)
    /\ pc' = IF err = "done" THEN "get" ELSE "idle"
    /\ err' = IF err = "closed" /\ b' # <<>> THEN "done" ELSE err
    /\ UNCHANGED pos /\ BodyFrame

\* recvall: a close after some bytes is the success of "*a".
RecvAll ==
    /\ pc = "body" /\ pat = "a"
    /\ b' = b \o Front(Count) /\ total' = total + Count
    /\ buffer_skip(Count)
    /\ pc' = IF err = "done" THEN "get" ELSE "idle"
    /\ err' = IF err = "closed" /\ total' > 0 THEN "done" ELSE err
    /\ UNCHANGED pos /\ BodyFrame

\* recvraw is called with the number minus the size of the prefix, so that what
\* it still wants is what b still lacks.
RecvRaw ==
    /\ pc = "body" /\ pat = "n"
    /\ LET n == MIN(Count, wanted - Len(b)) IN
        b' = b \o Front(n) /\ buffer_skip(n)
    /\ pc' = IF Len(b') >= wanted \/ err # "done" THEN "idle" ELSE "get"
    /\ UNCHANGED <<total, pos, err>> /\ BodyFrame

-----------------------------------------------------------------------------
Environment == PeerSends \/ PeerEnds \/ Tick

Client ==
    \/ \E value \in TimeoutValues, mode \in {"b", "t"} : SetTimeout(value, mode)
    \/ \E r \in StatsValues : buffer_meth_setstats(r)
    \/ socket_destroy
    \/ \E p \in {"l", "a"}, resume \in BOOLEAN : buffer_meth_receive(p, 0, resume)
    \/ \E n \in Wanted, resume \in BOOLEAN : buffer_meth_receive("n", n, resume)

\* What the call in progress does, or what a system call it made answers.
Call ==
    \/ buffer_get
    \/ RecvData \/ RecvFails \/ RecvInterrupted \/ RecvWouldBlock
    \/ PollReady \/ PollFails \/ PollInterrupted
    \/ RecvLineByte \/ RecvLineFound \/ RecvLineEnd
    \/ RecvAll \/ RecvRaw

Next == Environment \/ Client \/ Call

Spec == Init /\ [][Next]_vars

\* The clock runs, and the processor and the kernel go on with a call.  Nothing
\* is assumed of the peer or of the client.
FairSpec == Spec /\ WF_vars(Tick) /\ WF_vars(Call)

-----------------------------------------------------------------------------
\* Every variable stays in its range, the indices of the buffer inside it.
TypeOK ==
    /\ input \in Inputs
    /\ arrived \in 0..Len(input) /\ taken \in 0..arrived
    /\ fin \in {"open", "fin", "reset"} /\ sock \in {"open", "invalid"}
    /\ now \in 0..MaxNow /\ faults \in 0..MaxFaults
    /\ data \in [0..BufSize-1 -> 0..Len(input)]
    /\ last \in 0..BufSize /\ first \in 0..last
    /\ received \in Nat
    /\ tm \in TimeoutRecord
    /\ pc \in {"idle", "get", "recv", "poll", "body"}
    /\ pat \in {"l", "a", "n"} /\ wanted \in Nat
    /\ err \in {"done", "timeout", "closed", "error"}
    /\ b \in Seq(1..Len(input)) /\ total \in Nat /\ pos \in 0..Count
    /\ wake \in Int /\ waitFrom \in Nat
    /\ callStart \in Nat /\ chain \in Nat

\* The buffer holds the bytes that recv read last, in stream order: what a call
\* leaves in the buffer is exactly what the next one has to start with.
BufferHoldsNext ==
    /\ Count <= taken
    /\ \A i \in first..last-1 : data[i] = taken - last + i + 1

\* What the steps of a call rely on: the socket is read only when the buffer is
\* empty and the descriptor valid, a buffer_get that fails offers nothing, and a
\* call that sees the connection closed has everything the peer sent.
CallShape ==
    /\ pc \in {"recv", "poll"} => first = last /\ sock = "open"
    /\ pc \in {"get", "recv", "poll"} => err = "done"
    /\ pc # "body" \/ pat # "l" => pos = 0
    /\ pc = "body" /\ err # "done" => first = last
    /\ pc = "body" /\ err = "closed" /\ sock = "open" => fin = "fin" /\ arrived = taken
    /\ chain <= callStart /\ callStart <= Consumed
    /\ pc # "idle" /\ pat = "a" => total = Consumed - callStart

\* The reply of a call, resumed or not, holds the bytes taken since the first
\* call of its chain, each once and in order; line mode leaves out the CRs and
\* the LF, the other patterns nothing.
Keep(q) == pat = "l" => input[q] = "ch"

ReplyExact ==
    /\ chain <= Consumed
    /\ \A i, j \in 1..Len(b) : i < j => b[i] < b[j]
    /\ \A i \in 1..Len(b) : b[i] \in chain+1..Consumed+pos /\ Keep(b[i])
    /\ \A q \in chain+1..Consumed+pos : Keep(q) => \E i \in 1..Len(b) : b[i] = q

\* A line ends at the first LF after its beginning, however the bytes were cut
\* into packets, buffers and resumed calls.
LineExact ==
    pat = "l" =>
        IF pc = "idle" /\ err = "done"
        THEN /\ chain < Consumed
             /\ input[Consumed] = "lf"
             /\ \A q \in chain+1..Consumed-1 : input[q] # "lf"
        ELSE \A q \in chain+1..Consumed+pos : input[q] # "lf"

\* receive(number) never takes more than it was asked for, and returns that many
\* bytes unless its prefix was longer.
CountExact ==
    pat = "n" =>
        /\ pc # "idle" => Len(b) <= wanted
        /\ pc = "idle" /\ err = "done" =>
            \/ Len(b) = wanted
            \/ Len(b) > wanted /\ Consumed = callStart

\* receive("*a") succeeds only when the stream has ended, with all of it taken
\* and something of it taken by this call.
AllExact ==
    pat = "a" /\ pc = "idle" /\ err = "done" =>
        /\ Consumed = taken /\ callStart < Consumed
        /\ sock = "open" => fin # "open" /\ arrived = taken

\* Each pattern ends where it should, and takes what it returns and no more: a line
\* at its LF, a count at its number, the whole at the close of the connection.
EndsExact == LineExact /\ CountExact /\ AllExact

\* poll is never asked to sleep past the total limit, measured from the start of
\* the call, whatever interrupted the waits before.
TotalLimit ==
    pc = "poll" /\ tm.total >= 0 /\ wake # Forever =>
        wake <= MAX(now, tm.start + tm.total)

\* settimeout(value, "b"): "the upper limit on the amount of time LuaSocket can be
\* blocked by the operating system while waiting for completion of any single I/O
\* operation".
BlockLimit ==
    pc = "poll" /\ tm.block >= 0 /\ wake # Forever =>
        wake <= MAX(now, waitFrom + tm.block)

\* A block limit alone is kept, however often the wait is interrupted.
BlockLimitAlone == tm.total < 0 => BlockLimit

\* No wait is longer than its limits allow, whatever woke or interrupted the ones
\* before it; with both limits set only the total one is kept.
LimitKept == TotalLimit /\ BlockLimitAlone

\* A call gives up only when one of its limits has been reached, to the
\* millisecond poll counts in.
NoEarlyTimeout ==
    pc = "body" /\ err = "timeout" =>
        \/ tm.block = 0
        \/ tm.block >= 0 /\ now + Ms > tm.start + tm.block
        \/ tm.total >= 0 /\ now + Ms > tm.start + tm.total

\* getstats counts exactly the bytes that left the buffer.
StatsExact ==
    [][\/ received' - received = Consumed' - Consumed
       \/ \E r \in StatsValues : buffer_meth_setstats(r)]_vars

\* A call with a limit returns, whatever the peer does.
Returns == pc # "idle" /\ (tm.block >= 0 \/ tm.total >= 0) ~> pc = "idle"

-----------------------------------------------------------------------------
\* The calls behave as ByteStream promises, taking effect when they return.
Stream == INSTANCE ByteStream WITH
    end   <- IF sock # "open" THEN taken ELSE IF fin # "open" THEN arrived ELSE -1,
    mark  <- IF pc = "idle" THEN Consumed ELSE callStart,
    busy  <- pc # "idle",
    reply <- IF pc = "idle" THEN b ELSE <<>>,
    err   <- IF pc = "idle" THEN err ELSE "none"

StreamSpec == Stream!Spec
=============================================================================
