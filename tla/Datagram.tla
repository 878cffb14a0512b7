------------------------------ MODULE Datagram ------------------------------
(***************************************************************************)
(* Datagram objects: udp.c and unixdgram.c over the address loops of       *)
(* inet.c and the system calls of usocket.c.  One object in one Lua state; *)
(* datagrams arrive, errors are reported and the clock runs between its    *)
(* system calls.  The kernel is Linux.                                     *)
(***************************************************************************)
EXTENDS Timeout, Sequences

CONSTANTS
    Kinds,          \* the constructors used: "udp", "udp4", "udp6" and "unix"
    Addrs,          \* addresses of peers, network addresses and paths
    FamilyOf,       \* the family of each: "inet", "inet6" or "unix"
    NoAddr,         \* no address; as an argument, a path that is too long
    Hosts,          \* what getaddrinfo may answer for a name: sequences of addresses
    Wanted,         \* the sizes receive is called with
    Sizes,          \* the sizes of datagrams
    TimeoutValues,  \* the values settimeout is called with
    MaxCalls,       \* bound: calls that use the socket
    MaxArrivals,    \* bound: datagrams that arrive
    MaxFaults,      \* bound: system calls that fail or are interrupted, datagrams lost
    MaxNow          \* bound: the clock stops here

ASSUME DatagramAddrs  == FamilyOf \in [Addrs -> {"inet", "inet6", "unix"}] /\ NoAddr \notin Addrs
ASSUME DatagramHosts  == Hosts \subseteq Seq({a \in Addrs : FamilyOf[a] # "unix"})
ASSUME DatagramInputs ==
    /\ Kinds \subseteq {"udp", "udp4", "udp6", "unix"}
    /\ Wanted \subseteq Nat /\ Sizes \subseteq Nat /\ TimeoutValues \subseteq Int
ASSUME DatagramBounds ==
    MaxCalls \in Nat /\ MaxArrivals \in Nat /\ MaxFaults \in Nat /\ MaxNow \in Nat

VARIABLES
    kind, class, sock, family, tm,  \* the object, and the kernel's state of its socket
    full,       \* there is no room for another datagram to be sent
    now, faults,
    pc,         \* "idle", "try" (the address loops), "send", "recv" or "wait" (the poll)
    call,       \* the arguments of the call in progress, and its locals
    err,        \* what the last call returned: "done", "timeout", "refused" or "error"
    wake,       \* when the poll in progress gives up
    \* history, read by properties and bounds only
    calls,
    arrived,    \* every datagram the socket has queued: from, size
    got,        \* what receive returns: id (0: no datagram), size, from
    last,       \* the number of the last datagram returned
    copies,     \* datagrams the network has taken from the last call
    peer        \* the last peer that was set

objectVars == <<kind, class, family, tm>>
callVars == <<pc, call, err, wake, calls>>
historyVars == <<arrived, got, last, copies, peer>>
vars == <<objectVars, sock, full, now, faults, callVars, historyVars>>

NoSock == [open |-> FALSE, fam |-> "unspec", peer |-> NoAddr, bound |-> "no",
           nonblocking |-> FALSE, queue |-> <<>>, used |-> FALSE, error |-> FALSE]

Created(fam, nonblocking) ==
    [NoSock EXCEPT !.open = TRUE, !.fam = fam, !.nonblocking = nonblocking]

KindFamily(k) ==
    CASE k = "udp" -> "unspec" [] k = "udp4" -> "inet" [] k = "udp6" -> "inet6"
      [] OTHER -> "unix"

Nothing == [id |-> 0, size |-> 0, from |-> NoAddr]

\* list: the addresses left to try; current: current_family; dest: where the datagram
\* goes; wanted: the size receive asked for.
NoCall == [method |-> "none", list |-> <<>>, current |-> "unspec", dest |-> NoAddr, wanted |-> 0]

Init ==
    /\ kind \in Kinds /\ class = "free" /\ sock = NoSock /\ family = "unspec"
    /\ tm = timeout_init(-1, -1)
    /\ full = FALSE /\ now = 0 /\ faults = 0
    /\ pc = "idle" /\ call = NoCall /\ err = "done" /\ wake = Forever /\ calls = 0
    /\ arrived = <<>> /\ got = Nothing /\ last = 0 /\ copies = 0 /\ peer = NoAddr

-----------------------------------------------------------------------------
\* The clock, the network and the kernel.

Tick ==
    /\ now < MaxNow /\ now' = now + 1
    /\ UNCHANGED <<objectVars, sock, full, faults, callVars, historyVars>>

Fault == faults < MaxFaults /\ faults' = faults + 1

\* A connected socket queues only what its peer sends.
Arrive ==
    /\ sock.bound # "no" /\ Len(arrived) < MaxArrivals
    /\ \E a \in Addrs, size \in Sizes :
        /\ FamilyOf[a] = sock.fam /\ sock.peer \in {NoAddr, a}
        /\ arrived' = Append(arrived, [from |-> a, size |-> size])
        /\ sock' = [sock EXCEPT !.queue = Append(@, Len(arrived) + 1)]
    /\ UNCHANGED <<objectVars, full, now, faults, callVars, got, last, copies, peer>>

\* A queued datagram turns out to be damaged; a datagram sent earlier comes back as
\* unreachable, which the kernel reports on a connected socket only; the buffer for
\* what is sent fills up.
Trouble ==
    /\ Fault
    /\ \/ /\ sock.queue # <<>>
          /\ sock' = [sock EXCEPT !.queue = Tail(@)] /\ UNCHANGED full
       \/ /\ sock.peer # NoAddr /\ kind # "unix" /\ sock.used
          /\ sock' = [sock EXCEPT !.error = TRUE] /\ UNCHANGED full
       \/ full' = TRUE /\ UNCHANGED sock
    /\ UNCHANGED <<objectVars, now, callVars, historyVars>>

Drain ==
    /\ full /\ full' = FALSE
    /\ UNCHANGED <<objectVars, sock, now, faults, callVars, historyVars>>

-----------------------------------------------------------------------------
\* Objects: udp_create and global_create of unixdgram.c, settimeout, close.

\* A generic UDP object gets its socket later.  When none can be made there is no
\* object to speak of.
Create(s) ==
    /\ class = "free"
    /\ class' = "unconnected" /\ family' = KindFamily(kind) /\ sock' = s
    /\ UNCHANGED <<kind, tm, full, now, faults, callVars, historyVars>>

udp_create ==
    /\ kind # "unix"
    /\ Create(IF kind = "udp" THEN NoSock ELSE Created(KindFamily(kind), TRUE))

unixdgram_create == kind = "unix" /\ Create(Created("unix", TRUE))

Idle == pc = "idle" /\ class # "free"

meth_settimeout(value, mode) ==
    /\ Idle
    /\ tm' = timeout_meth_settimeout(tm, value, mode)
    /\ UNCHANGED <<kind, class, family, sock, full, now, faults, callVars, historyVars>>

meth_close ==
    /\ Idle
    /\ sock' = NoSock
    /\ UNCHANGED <<objectVars, full, now, faults, callVars, historyVars>>

-----------------------------------------------------------------------------
\* setpeername, setsockname, and connect and bind of unixdgram.c.

Starts ==
    /\ Idle /\ calls < MaxCalls /\ calls' = calls + 1
    /\ got' = Nothing /\ copies' = 0

\* The call goes on at p, or is over.
Goes(p, c) == pc' = p /\ call' = c /\ UNCHANGED <<err, wake>>
Return(e)  == pc' = "idle" /\ err' = e /\ call' = NoCall /\ wake' = Forever

Connects == call.method = "setpeername"

\* getaddrinfo may answer h: it is asked for the family of the object, once it has one,
\* and answers nothing when a name has no address of that family.
Answers(h) == family = "unspec" \/ \A i \in 1..Len(h) : FamilyOf[h[i]] = family

\* The addresses l are tried, if there are any.
Tries(m, l) ==
    /\ Starts
    /\ m = "setsockname" => class = "unconnected"
    /\ IF l = <<>> THEN Return("error")
       ELSE Goes("try", [NoCall EXCEPT !.method = m, !.list = l, !.current = family])
    /\ UNCHANGED <<objectVars, sock, full, now, faults, arrived, last, peer>>

udp_meth_setpeername(h) == kind # "unix" /\ Answers(h) /\ Tries("setpeername", h)
udp_meth_setsockname(h) == kind # "unix" /\ Answers(h) /\ Tries("setsockname", h)

\* A path that is too long changes nothing.
Path(a) == IF a = NoAddr THEN <<>> ELSE <<a>>
unixdgram_meth_connect(a) == kind = "unix" /\ Tries("setpeername", Path(a))
unixdgram_meth_bind(a) == kind = "unix" /\ Tries("setsockname", Path(a))

\* The loop goes on to the next address, or fails if there is none.
Continue(s, fam) ==
    /\ sock' = s /\ UNCHANGED family
    /\ IF Len(call.list) = 1 THEN Return("error")
       ELSE Goes("try", [call EXCEPT !.list = Tail(@), !.current = fam])

\* The outcome e of one address, with socket s and current_family fam.  The loop ends
\* at the first success, and a loop of connects at the first failure when the block
\* limit is zero; either way the object takes the family of the socket.
Answer(e, s, fam) ==
    IF e = "done" \/ (Connects /\ timeout_iszero(tm))
    THEN sock' = s /\ family' = fam /\ Return(e)
    ELSE Continue(s, fam)

\* A socket of another family, or none, is replaced before the address is tried.
Suits(a) == call.current = FamilyOf[a] /\ sock.open

\* connect on a datagram socket ends at once: the peer is noted, and the socket bound
\* if it was not.  A unix socket that changes its peer loses its queue.
Connected(s, a) ==
    [s EXCEPT !.peer = a,
              !.bound = IF @ = "no" /\ kind # "unix" THEN "auto" ELSE @,
              !.queue = IF kind = "unix" /\ s.peer \notin {NoAddr, a} THEN <<>> ELSE @]

\* The new socket of a connect is left in blocking mode.
SocketFor_blocking(a) ==
    IF Suits(a) THEN sock ELSE Created(FamilyOf[a], ~Connects)

SocketFor(a) ==
    IF Suits(a) THEN sock ELSE Created(FamilyOf[a], TRUE)

\* A turn that makes nothing of the address: no socket can be made, and the loop goes on
\* whatever the limit is; or the address is refused, for its own reasons or by a socket
\* that is bound already.
Refused(a) ==
    /\ \/ ~Suits(a) /\ Fault /\ Continue(NoSock, call.current)
       \/ /\ IF Connects \/ SocketFor(a).bound = "no" THEN Fault ELSE UNCHANGED faults
          /\ Answer("error", SocketFor(a), FamilyOf[a])
    /\ UNCHANGED <<class, peer>>

\* What an attempt leaves alone.
Attempt == UNCHANGED <<kind, full, now, calls, arrived, got, last, copies>>

inet_tryconnect ==
    /\ pc = "try" /\ kind # "unix" /\ Connects
    /\ tm' = timeout_markstart(tm, now)
    /\ LET a == Head(call.list) IN
       \/ Refused(a)
       \/ /\ Answer("done", Connected(SocketFor(a), a), FamilyOf[a])
          /\ class' = "connected" /\ peer' = a /\ UNCHANGED faults
    /\ Attempt

\* socket_bind leaves the socket in non-blocking mode whatever bind answers.
inet_trybind ==
    /\ pc = "try" /\ kind # "unix" /\ ~Connects
    /\ LET a == Head(call.list) IN
       \/ Refused(a)
       \/ /\ SocketFor(a).bound = "no"
          /\ Answer("done", [SocketFor(a) EXCEPT !.bound = "bound"], FamilyOf[a])
          /\ UNCHANGED <<class, peer, faults>>
    /\ UNCHANGED tm /\ Attempt

\* A socket that cannot be connected or bound is destroyed, and with it the address it
\* had and what was queued there; so is one there is not.
Destroyed ==
    /\ sock' = NoSock /\ Return("error")
    /\ UNCHANGED <<class, peer>>

unixdgram_tryconnect ==
    /\ pc = "try" /\ kind = "unix" /\ Connects
    /\ tm' = timeout_markstart(tm, now)
    /\ LET a == Head(call.list) IN
       \/ (IF sock.open THEN Fault ELSE UNCHANGED faults) /\ Destroyed
       \/ /\ sock.open /\ sock' = Connected(sock, a)
          /\ class' = "connected" /\ peer' = a
          /\ Return("done") /\ UNCHANGED faults
    /\ UNCHANGED family /\ Attempt

unixdgram_trybind ==
    /\ pc = "try" /\ kind = "unix" /\ ~Connects
    /\ LET able == sock.open /\ sock.bound = "no" IN
       \/ (IF able THEN Fault ELSE UNCHANGED faults) /\ Destroyed
       \/ /\ able /\ sock' = [sock EXCEPT !.bound = "bound"]
          /\ Return("done") /\ UNCHANGED <<class, peer, faults>>
    /\ UNCHANGED <<tm, family>> /\ Attempt

\* Only IPv4 sockets are disconnected.
inet_trydisconnect_inet_only(s) ==
    IF family = "inet" /\ s.open
    THEN [s EXCEPT !.peer = NoAddr, !.bound = IF @ = "auto" THEN "no" ELSE @]
    ELSE s

\* An address of no family ends the association, and with it a local address the
\* kernel had chosen.
inet_trydisconnect(s) ==
    IF family \in {"inet", "inet6"} /\ s.open
    THEN [s EXCEPT !.peer = NoAddr, !.bound = IF @ = "auto" THEN "no" ELSE @]
    ELSE s

\* Only a UDP object becomes unconnected again, whatever its class was.
meth_setpeername_star ==
    /\ kind # "unix" /\ Starts
    /\ sock' = inet_trydisconnect(sock)
    /\ class' = "unconnected"
    /\ Return("done")
    /\ UNCHANGED <<kind, family, tm, full, now, faults, arrived, last, peer>>

-----------------------------------------------------------------------------
\* send and sendto.

Mark == tm' = timeout_markstart(tm, now)

\* The datagram goes to a, unless the object has no socket.
Send(m, a) ==
    IF sock.open THEN Goes("send", [NoCall EXCEPT !.method = m, !.dest = a])
    ELSE Return("refused")

\* What send and sendto leave alone.
Sending == UNCHANGED <<kind, class, full, now, arrived, last, peer>>

SendToPeer ==
    /\ Starts /\ class = "connected" /\ Mark
    /\ Send("send", sock.peer)
    /\ UNCHANGED <<family, sock, faults>> /\ Sending

udp_meth_send == kind # "unix" /\ SendToPeer
unixdgram_meth_send == kind = "unix" /\ SendToPeer

\* The address is looked up in the family of the object.  An object that has neither a
\* family nor a socket gets both here.
udp_meth_sendto(a) ==
    /\ kind # "unix" /\ Starts /\ class = "unconnected"
    /\ IF ~Answers(<<a>>)
       THEN Return("error") /\ UNCHANGED <<family, sock, tm, faults>>
       ELSE IF family = "unspec" /\ ~sock.open
       THEN \/ /\ sock' = Created(FamilyOf[a], TRUE) /\ family' = FamilyOf[a] /\ Mark
               /\ Goes("send", [NoCall EXCEPT !.method = "sendto", !.dest = a])
               /\ UNCHANGED faults
            \/ Fault /\ Return("error") /\ UNCHANGED <<family, sock, tm>>
       ELSE Mark /\ Send("sendto", a) /\ UNCHANGED <<family, sock, faults>>
    /\ Sending

unixdgram_meth_sendto(a) ==
    /\ kind = "unix" /\ Starts /\ class = "unconnected"
    /\ IF a = NoAddr THEN Return("error") /\ UNCHANGED tm
       ELSE Mark /\ Send("sendto", a)
    /\ UNCHANGED <<family, sock, faults>> /\ Sending

\* EAGAIN: the zero limit gives up at once, any other polls.
WouldBlock ==
    IF timeout_iszero(tm) THEN Return("timeout")
    ELSE pc' = "wait" /\ wake' \in Wakes(tm, now) /\ UNCHANGED <<call, err>>

\* The address is one the socket can send to.
Reachable == call.dest # NoAddr /\ FamilyOf[call.dest] = sock.fam

\* The kernel takes the datagram whole; a socket that has no local address gets one.
SendTaken ==
    /\ pc = "send" /\ ~full /\ ~sock.error /\ Reachable
    /\ copies' = copies + 1
    /\ sock' = [sock EXCEPT !.bound = IF @ = "no" /\ kind # "unix" THEN "auto" ELSE @,
                            !.used = TRUE]
    /\ Return("done")
    /\ UNCHANGED <<objectVars, full, now, faults, calls, arrived, got, last, peer>>

\* The kernel answers with the error that was pending, or with one of its own.
SendFails ==
    /\ pc = "send"
    /\ IF sock.error \/ ~Reachable THEN UNCHANGED faults ELSE Fault
    /\ sock' = [sock EXCEPT !.error = FALSE]
    /\ Return("error")
    /\ UNCHANGED <<objectVars, full, now, calls, historyVars>>

SendWouldBlock ==
    /\ pc = "send" /\ full /\ ~sock.error /\ Reachable /\ sock.nonblocking
    /\ WouldBlock
    /\ UNCHANGED <<objectVars, sock, full, now, faults, calls, historyVars>>

-----------------------------------------------------------------------------
\* receive and receivefrom.

\* On an object without a socket the answer, one of Absent, is that of an empty datagram.
Receive(m, n, Absent) ==
    /\ Idle /\ calls < MaxCalls /\ calls' = calls + 1 /\ copies' = 0 /\ Mark
    /\ m = "receivefrom" => class = "unconnected"
    /\ IF sock.open
       THEN /\ Goes("recv", [NoCall EXCEPT !.method = m, !.wanted = n])
            /\ got' = Nothing
       ELSE \E answer \in Absent :
            /\ Return(answer[1]) /\ got' = [Nothing EXCEPT !.from = answer[2]]
    /\ UNCHANGED <<kind, class, family, sock, full, now, faults, arrived, last, peer>>

NoSender == {<<"done", NoAddr>>}

udp_meth_receive(n) == kind # "unix" /\ Receive("receive", n, NoSender)

\* The sender comes from memory that was never written: an address, or an error.
udp_meth_receivefrom(n) ==
    kind # "unix" /\ Receive("receivefrom", n, {<<"error", NoAddr>>} \cup ({"done"} \X Addrs))

unixdgram_meth_receive(n) == kind = "unix" /\ Receive("receive", n, NoSender)

\* The path is cleared first.
unixdgram_meth_receivefrom(n) == kind = "unix" /\ Receive("receivefrom", n, NoSender)

\* An empty datagram is taken for the end of a stream, and left.
RecvTakes_closed ==
    /\ pc = "recv" /\ sock.queue # <<>> /\ ~sock.error
    /\ LET id == Head(sock.queue)
           n  == MIN(arrived[id].size, call.wanted)
       IN /\ got' = [id |-> id, size |-> n, from |-> arrived[id].from]
          /\ last' = id
          /\ Return(IF n = 0 THEN "refused" ELSE "done")
    /\ sock' = [sock EXCEPT !.queue = Tail(@)]
    /\ UNCHANGED <<objectVars, full, now, faults, calls, arrived, copies, peer>>

\* The oldest datagram, cut to the size asked for; what is cut is gone.  A size of
\* zero, which socket_recv reports as closed, is a datagram like any other.
RecvTakes ==
    /\ pc = "recv" /\ sock.queue # <<>> /\ ~sock.error
    /\ LET id == Head(sock.queue) IN
        /\ got' = [id |-> id, size |-> MIN(arrived[id].size, call.wanted),
                   from |-> IF call.method = "receivefrom" THEN arrived[id].from ELSE NoAddr]
        /\ last' = id
    /\ sock' = [sock EXCEPT !.queue = Tail(@)]
    /\ Return("done")
    /\ UNCHANGED <<objectVars, full, now, faults, calls, arrived, copies, peer>>

RecvFails ==
    /\ pc = "recv"
    /\ IF sock.error THEN UNCHANGED faults ELSE Fault
    /\ sock' = [sock EXCEPT !.error = FALSE]
    /\ Return("error")
    /\ UNCHANGED <<objectVars, full, now, calls, historyVars>>

RecvWouldBlock ==
    /\ pc = "recv" /\ sock.queue = <<>> /\ ~sock.error /\ sock.nonblocking
    /\ WouldBlock
    /\ UNCHANGED <<objectVars, sock, full, now, faults, calls, historyVars>>

-----------------------------------------------------------------------------
\* socket_waitfd.

Sends == call.method \in {"send", "sendto"}

WaitReady ==
    /\ pc = "wait"
    /\ sock.error \/ IF Sends THEN ~full ELSE sock.queue # <<>>
    /\ pc' = IF Sends THEN "send" ELSE "recv"
    /\ wake' = Forever
    /\ UNCHANGED <<objectVars, sock, full, now, faults, call, err, calls, historyVars>>

Expired == wake # Forever /\ (now >= wake \/ now = MaxNow)

WaitFails ==
    /\ pc = "wait"
    /\ \/ Expired /\ Return("timeout") /\ UNCHANGED faults
       \/ Fault /\ Return("error")
    /\ UNCHANGED <<objectVars, sock, full, now, calls, historyVars>>

\* A signal: the poll starts over with the time that is left.
Interrupted ==
    /\ pc = "wait" /\ Fault
    /\ wake' \in Wakes(tm, now)
    /\ UNCHANGED <<objectVars, sock, full, now, pc, call, err, calls, historyVars>>

-----------------------------------------------------------------------------
Paths == {a \in Addrs : FamilyOf[a] = "unix"}

Client ==
    \/ udp_create \/ unixdgram_create \/ meth_close
    \/ \E value \in TimeoutValues : meth_settimeout(value, "b")
    \/ \E h \in Hosts : udp_meth_setpeername(h) \/ udp_meth_setsockname(h)
    \/ \E a \in Paths \cup {NoAddr} :
        unixdgram_meth_connect(a) \/ unixdgram_meth_bind(a) \/ unixdgram_meth_sendto(a)
    \/ meth_setpeername_star
    \/ udp_meth_send \/ unixdgram_meth_send
    \/ \E a \in Addrs \ Paths : udp_meth_sendto(a)
    \/ \E n \in Wanted : \/ udp_meth_receive(n) \/ udp_meth_receivefrom(n)
                          \/ unixdgram_meth_receive(n) \/ unixdgram_meth_receivefrom(n)

Call ==
    \/ inet_tryconnect \/ inet_trybind \/ unixdgram_tryconnect \/ unixdgram_trybind
    \/ SendTaken \/ SendFails \/ SendWouldBlock
    \/ RecvTakes \/ RecvFails \/ RecvWouldBlock
    \/ WaitReady \/ WaitFails \/ Interrupted

Environment == Tick \/ Arrive \/ Trouble \/ Drain

Next == Client \/ Call \/ Environment

Spec == Init /\ [][Next]_vars

\* The clock runs and the process goes on with its call; nothing need ever arrive.
FairSpec == Spec /\ WF_vars(Tick) /\ WF_vars(Call)

-----------------------------------------------------------------------------
Finishes(p) == pc = p /\ pc' = "idle"

\* What a receive says it received is a datagram that arrived, cut to the size asked
\* for, from the sender it names; it is later than all those returned before, so none
\* is returned twice.  A call that fails takes none from the queue, and neither does
\* connecting a UDP object, or failing to, once it is bound: "if there was a bind, all
\* families will be the same".
ReceivedExact ==
    [][/\ Finishes("recv") /\ err' = "done" =>
            /\ got'.id > last
            /\ got'.size = MIN(arrived[got'.id].size, call.wanted)
            /\ call.method = "receivefrom" => got'.from = arrived[got'.id].from
       /\ (Finishes("recv") \/ Finishes("wait")) /\ err' # "done" => sock'.queue = sock.queue
       /\ pc = "try" /\ call' # call /\ kind # "unix" /\ sock.bound = "bound"
            => sock'.queue = sock.queue]_vars

\* A call that says its datagram was sent has sent it once, and to the last peer that
\* was set if the object is connected; any other has not sent it at all.  An object of
\* the unconnected class has no peer that would filter what it receives.
SentExact ==
    [][/\ Finishes("send") \/ (Finishes("wait") /\ Sends) =>
            /\ copies' = IF err' = "done" THEN 1 ELSE 0
            /\ err' = "done" /\ call.method = "send" => call.dest = peer
       /\ class' = "unconnected" => sock'.peer = NoAddr]_vars

\* A call under a limit ends, whatever becomes of the network: no socket is left in
\* blocking mode, and no poll sleeps past the limit.
Returns == pc # "idle" /\ tm.block >= 0 ~> pc = "idle"
=============================================================================
