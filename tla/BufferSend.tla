----------------------------- MODULE BufferSend -----------------------------
(***************************************************************************)
(* client:send of a stream object: the index arithmetic and the loop of    *)
(* buffer.c over the send loop and the poll of usocket.c.                  *)
(*                                                                         *)
(* The client sends parts of one string of Size bytes; a byte is           *)
(* represented by its position in it.                                      *)
(***************************************************************************)
EXTENDS Timeout, Sequences

CONSTANTS
    Size,           \* length of the string
    Indices,        \* the values of i and j in send(data, i, j)
    StepSize,       \* STEPSIZE, the most that is handed to one system call
    Room,           \* capacity of the kernel's send buffer
    TimeoutValues,  \* the values settimeout is called with
    StatsValues,    \* the sent counts setstats is called with
    MaxCalls,       \* bound: calls of send
    MaxFaults,      \* bound: signals, spurious wake-ups and system call errors
    MaxNow,         \* bound: the clock stops here
    LastCall        \* bound: no call starts after this time

ASSUME SizeAssumption    == Size \in Nat
ASSUME IndicesAssumption == Indices \subseteq Int
ASSUME StepAssumption    == StepSize \in Nat \ {0} /\ Room \in Nat \ {0}
ASSUME TimeoutAssumption == TimeoutValues \subseteq Int
ASSUME StatsAssumption   == StatsValues \subseteq Nat
ASSUME BoundsAssumption  ==
    MaxCalls \in Nat /\ MaxFaults \in Nat /\ MaxNow \in Nat /\ LastCall \in Int

VARIABLES
    \* the peer, the kernel and the clock
    wire,       \* the bytes the kernel has accepted, in order
    queued,     \* how many of them it still holds
    peer,       \* "open", "reset" (not yet reported) or "gone"
    now,        \* timeout_gettime
    faults,     \* faults so far
    \* the object
    sock,       \* "open" or "invalid" (SOCKET_INVALID)
    sent,       \* buf->sent
    tm,
    \* the call in progress; when idle, err and index are what the last one returned
    pc,         \* "idle", "send" or "poll"
    start, end, \* the resolved range
    total,      \* sendraw: bytes sent by this call
    err,        \* "done", "timeout", "closed" or "error"
    index,      \* "the index of the last byte that has been sent"
    wake,       \* when the poll in progress gives up
    \* history, read by properties and bounds only
    i0, j0,     \* the range asked for by the first call of a chain of resumed calls
    wire0,      \* Len(wire) when it started
    uncounted,  \* what setstats has taken out of the count of bytes sent
    calls       \* calls so far

kernelVars == <<wire, queued, peer>>
callVars   == <<start, end, index, i0, j0, wire0, calls>>
objectVars == <<sock, sent, tm, pc, callVars, total, err, wake, uncounted>>
vars       == <<kernelVars, now, faults, objectVars>>

Writable == queued < Room \/ peer # "open"

Init ==
    /\ wire = <<>> /\ queued = 0 /\ peer = "open" /\ now = 0 /\ faults = 0
    /\ sock = "open" /\ sent = 0 /\ tm = timeout_init(-1, -1)
    /\ pc = "idle" /\ start = 1 /\ end = 0 /\ total = 0 /\ err = "done" /\ index = 0
    /\ wake = Forever
    /\ i0 = 1 /\ j0 = 0 /\ wire0 = 0 /\ uncounted = 0 /\ calls = 0

-----------------------------------------------------------------------------
\* The peer, the network and the clock.

PeerReads ==
    /\ peer = "open"
    /\ \E n \in 0..queued-1 : queued' = n
    /\ UNCHANGED <<wire, peer, now, faults, objectVars>>

PeerResets ==
    /\ peer = "open"
    /\ peer' = "reset"
    /\ UNCHANGED <<wire, queued, now, faults, objectVars>>

Tick ==
    /\ now < MaxNow
    /\ now' = now + 1
    /\ UNCHANGED <<kernelVars, faults, objectVars>>

Fault == faults < MaxFaults /\ faults' = faults + 1

-----------------------------------------------------------------------------
\* The other methods of the object.

SetTimeout(value, mode) ==
    /\ pc = "idle"
    /\ tm' = timeout_meth_settimeout(tm, value, mode)
    /\ UNCHANGED <<kernelVars, now, faults, sock, sent, pc, callVars, total, err, wake, uncounted>>

buffer_meth_setstats(s) ==
    /\ pc = "idle"
    /\ sent' = s
    /\ uncounted' = Len(wire) - s
    /\ UNCHANGED <<kernelVars, now, faults, sock, tm, pc, callVars, total, err, wake>>

socket_destroy ==
    /\ pc = "idle" /\ sock = "open"
    /\ sock' = "invalid"
    /\ UNCHANGED <<kernelVars, now, faults, sent, tm, pc, callVars, total, err, wake, uncounted>>

-----------------------------------------------------------------------------
\* send(data, i, j): negative indices count from the end of the string, and both
\* are clipped to it.
ResolveStart(i) == MAX(1, IF i < 0 THEN Size + i + 1 ELSE i)
ResolveEnd(j)   == MIN(Size, IF j < 0 THEN Size + j + 1 ELSE j)

\* An empty range sends nothing.  A client that resumes a failed call starts at
\* the byte after the index it returned.
buffer_meth_send(i, j, resume) ==
    /\ pc = "idle"
    /\ now <= LastCall /\ calls < MaxCalls
    /\ resume => err # "done" /\ i = index + 1 /\ j = j0
    /\ tm' = timeout_markstart(tm, now)
    /\ start' = ResolveStart(i) /\ end' = ResolveEnd(j)
    /\ total' = 0
    /\ pc' = IF start' <= end' /\ sock = "open" THEN "send" ELSE "idle"
    /\ err' = IF start' <= end' /\ sock # "open" THEN "closed" ELSE "done"
    /\ index' = IF pc' = "idle" THEN start' - 1 ELSE index
    /\ IF resume THEN UNCHANGED <<i0, j0, wire0>> ELSE i0' = i /\ j0' = j /\ wire0' = Len(wire)
    /\ calls' = calls + 1
    /\ UNCHANGED <<kernelVars, now, faults, sock, sent, wake, uncounted>>

-----------------------------------------------------------------------------
\* sendraw over socket_send and socket_waitfd, one action per outcome of a system
\* call.

\* The index is counted from the start of the string, whatever the range.
Return_relative(e) ==
    /\ pc' = "idle"
    /\ err' = e
    /\ index' = total'
    /\ sent' = sent + total'
    /\ UNCHANGED <<start, end, i0, j0, wire0, calls>>

Return(e) ==
    /\ pc' = "idle"
    /\ err' = e
    /\ index' = total' + start - 1
    /\ sent' = sent + total'
    /\ UNCHANGED <<start, end, i0, j0, wire0, calls>>

Accept(n) ==
    /\ wire' = wire \o [k \in 1..n |-> start - 1 + total + k]
    /\ queued' = queued + n
    /\ total' = total + n

\* A short send is taken for a whole step.
SendData_whole_step ==
    /\ pc = "send" /\ peer = "open"
    /\ LET count == end - start + 1
           step  == MIN(count - total, StepSize)
       IN \E n \in 1..MIN(step, Room - queued) :
            /\ wire' = wire \o [k \in 1..n |-> start - 1 + total + k]
            /\ queued' = queued + n
            /\ total' = total + step
            /\ IF total' < count THEN UNCHANGED <<pc, err, callVars, sent>> ELSE Return("done")
    /\ UNCHANGED <<peer, now, faults, sock, tm, wake, uncounted>>

\* send takes some of the bytes of the step.
SendData ==
    /\ pc = "send" /\ peer = "open"
    /\ LET count == end - start + 1
           step  == MIN(count - total, StepSize)
       IN \E n \in 1..MIN(step, Room - queued) :
            /\ Accept(n)
            /\ IF total' < count THEN UNCHANGED <<pc, err, callVars, sent>> ELSE Return("done")
    /\ UNCHANGED <<peer, now, faults, sock, tm, wake, uncounted>>

\* The call ends with error e and what it has sent so far.
Fails(e) == total' = total /\ Return(e)

\* send fails: EPIPE; the reset of the connection, reported once; another error.
SendFails ==
    /\ pc = "send"
    /\ \/ peer = "gone" /\ Fails("closed") /\ UNCHANGED <<peer, faults>>
       \/ peer = "reset" /\ Fails("error") /\ peer' = "gone" /\ UNCHANGED faults
       \/ Fault /\ Fails("error") /\ UNCHANGED peer
    /\ UNCHANGED <<wire, queued, now, sock, tm, wake, uncounted>>

\* EINTR or EPROTOTYPE: try again.
SendInterrupted ==
    /\ pc = "send"
    /\ Fault
    /\ UNCHANGED <<kernelVars, now, objectVars>>

EnterPoll == pc' = "poll" /\ wake' \in Wakes(tm, now)

\* EAGAIN: no room, or none left of what woke the poll up.
SendWouldBlock ==
    /\ pc = "send"
    /\ IF Writable THEN Fault ELSE UNCHANGED faults
    /\ IF timeout_iszero(tm)
       THEN Fails("timeout") /\ UNCHANGED wake
       ELSE EnterPoll /\ UNCHANGED <<total, err, callVars, sent>>
    /\ UNCHANGED <<kernelVars, now, sock, tm, uncounted>>

PollReady ==
    /\ pc = "poll" /\ Writable
    /\ pc' = "send"
    /\ UNCHANGED <<kernelVars, now, faults, sock, sent, tm, callVars, total, err, wake, uncounted>>

PollFails ==
    /\ pc = "poll"
    /\ \/ wake # Forever /\ now >= wake /\ Fails("timeout") /\ UNCHANGED faults
       \/ Fault /\ Fails("error")
    /\ UNCHANGED <<kernelVars, now, sock, tm, wake, uncounted>>

\* EINTR: poll again with the time that is left.
PollInterrupted ==
    /\ pc = "poll" /\ (wake = Forever \/ now < wake)
    /\ Fault
    /\ EnterPoll
    /\ UNCHANGED <<kernelVars, now, sock, sent, tm, callVars, total, err, uncounted>>

-----------------------------------------------------------------------------
Environment == PeerReads \/ PeerResets \/ Tick

Client ==
    \/ \E value \in TimeoutValues, mode \in {"b", "t"} : SetTimeout(value, mode)
    \/ \E s \in StatsValues : buffer_meth_setstats(s)
    \/ socket_destroy
    \/ \E i, j \in Indices : buffer_meth_send(i, j, FALSE)
    \/ buffer_meth_send(index + 1, j0, TRUE)

Call ==
    \/ SendData \/ SendFails \/ SendInterrupted \/ SendWouldBlock
    \/ PollReady \/ PollFails \/ PollInterrupted

Next == Environment \/ Client \/ Call

Spec == Init /\ [][Next]_vars

\* As for BufferReceive: the clock, the processor and the kernel go on.
FairSpec == Spec /\ WF_vars(Tick) /\ WF_vars(Call)

-----------------------------------------------------------------------------
Count == end - start + 1

\* Every variable stays in its range; what goes out are bytes of the string.
TypeOK ==
    /\ wire \in Seq(1..Size) /\ queued \in 0..Room /\ peer \in {"open", "reset", "gone"}
    /\ now \in 0..MaxNow /\ faults \in 0..MaxFaults /\ calls \in 0..MaxCalls
    /\ sock \in {"open", "invalid"} /\ sent \in Int /\ tm \in TimeoutRecord
    /\ pc \in {"idle", "send", "poll"}
    /\ start \in Nat \ {0} /\ end \in Int /\ end <= Size /\ total \in Nat /\ index \in Nat
    /\ err \in {"done", "timeout", "closed", "error"} /\ wake \in Int
    /\ i0 \in Int /\ j0 \in Int /\ wire0 \in 0..Len(wire) /\ uncounted \in Int

\* send(data, i, j) selects what string.sub(data, i, j) does: a byte is selected
\* when it is not before i and not after j, each counted from the end of the
\* string when negative.
Selected(q, i, j) ==
    /\ IF i < 0 THEN q - Size - 1 >= i ELSE q >= i
    /\ IF j < 0 THEN q - Size - 1 <= j ELSE q <= j

\* What a chain of resumed calls has put on the wire is a prefix of the bytes
\* selected, each once and in order, and all of them once a call succeeds.
Progress == IF pc = "idle" THEN index + 1 ELSE start + total

WireExact ==
    /\ \A x, y \in wire0+1..Len(wire) : x < y => wire[x] < wire[y]
    /\ \A x \in wire0+1..Len(wire) : Selected(wire[x], i0, j0)
    /\ \A q \in 1..Size :
        Selected(q, i0, j0) /\ (q < Progress \/ (pc = "idle" /\ err = "done"))
            => \E x \in wire0+1..Len(wire) : wire[x] = q

\* The index returned is that of the last byte sent: the byte to go on from is the
\* one that follows it.
IndexExact ==
    pc = "idle" /\ Len(wire) > wire0 => wire[Len(wire)] = index

\* getstats counts every byte sent by the calls that returned, failed ones too.
SentExact ==
    sent + uncounted = Len(wire) - IF pc = "idle" THEN 0 ELSE total

\* What the program is told agrees with what was sent: the index it resumes from and
\* the count of getstats, for calls that fail in the middle too.
Accounted == IndexExact /\ SentExact

\* A call with a limit returns, whether or not the peer ever reads.
Returns == pc # "idle" /\ (tm.block >= 0 \/ tm.total >= 0) ~> pc = "idle"
=============================================================================
