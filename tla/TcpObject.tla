----------------------------- MODULE TcpObject -----------------------------
(***************************************************************************)
(* TCP objects and the descriptors they own: tcp.c over the address loops  *)
(* of inet.c and the system calls of usocket.c.                            *)
(*                                                                         *)
(* A Lua state runs one call at a time; what varies between its system     *)
(* calls is the kernel, the network and the clock.  The kernel is Linux:   *)
(* what a second connect on the same descriptor answers is part of it.     *)
(***************************************************************************)
EXTENDS Timeout, Sequences, SequencesExt, FiniteSets

CONSTANTS
    Objects,        \* the userdata there is room for in the model
    Fds,            \* the descriptors the process may have
    Addrs,          \* network addresses
    FamilyOf,       \* the address family of each
    NoAddr,         \* not an address
    Hosts,          \* what getaddrinfo may answer for a host name: sequences of addresses
    Local,          \* the same for the local address global_connect binds to
    TimeoutValues,  \* the values settimeout is called with
    MaxCalls,       \* bound: calls that use the network
    MaxFaults,      \* bound: interruptions and failing system calls
    MaxNow          \* bound: the clock stops here

\* The families in use.
Families == {FamilyOf[a] : a \in Addrs}

ASSUME AddrsAssumption   == FamilyOf \in [Addrs -> {"inet", "inet6"}] /\ NoAddr \notin Addrs
ASSUME HostsAssumption   == Hosts \subseteq Seq(Addrs) /\ Local \subseteq Seq(Addrs)
ASSUME TimeoutAssumption == TimeoutValues \subseteq Int
ASSUME BoundsAssumption  == MaxCalls \in Nat /\ MaxFaults \in Nat /\ MaxNow \in Nat

SOCKET_INVALID == -1

ASSUME FdsAssumption == SOCKET_INVALID \notin Fds

VARIABLES
    kernel,     \* the kernel's state of each descriptor
    now, faults,
    class, sock, family, tm,    \* of each object
    \* the call in progress; when idle, err is what the last one returned
    pc,         \* "idle", "bind", "try" (head of the loop of tryconnect), "connect",
                \* "poll", "accept" or "wait" (the poll of accept)
    self,       \* the object it works on
    method,     \* "bind", "connect", "global_connect" or "accept"
    list,       \* the addresses left to try, the current one first
    host,       \* what the host name of global_connect stands for
    current,    \* current_family
    err,        \* "done", "timeout", "closed" or "error"
    wake,       \* when the poll in progress gives up
    \* history, read by properties and bounds only
    calls,      \* calls so far
    began,      \* when its first address was taken up
    resolved,   \* the addresses it was given
    restrict,   \* the family global_connect was asked to use
    started,    \* those towards which the kernel has started a connection for it
    asked       \* for each object, the addresses connect was ever given

objectVars == <<class, sock, family, tm>>
callVars   == <<self, method, host, calls, began, resolved, restrict, asked>>
loopVars   == <<list, current, started>>
vars == <<kernel, now, faults, objectVars, pc, err, wake, callVars, loopVars>>

Closed == [st |-> "none", fam |-> "unspec", peer |-> NoAddr, bound |-> FALSE,
           nonblocking |-> FALSE, backlog |-> 0]

Init ==
    /\ kernel = [fd \in Fds |-> Closed]
    /\ now = 0 /\ faults = 0
    /\ class = [o \in Objects |-> "free"]
    /\ sock = [o \in Objects |-> SOCKET_INVALID]
    /\ family = [o \in Objects |-> "unspec"]
    /\ tm = [o \in Objects |-> timeout_init(-1, -1)]
    /\ pc = "idle" /\ self \in Objects /\ method = "bind" /\ list = <<>> /\ host = <<>>
    /\ current = "unspec" /\ err = "done" /\ wake = Forever
    /\ calls = 0 /\ began = 0 /\ resolved = <<>> /\ restrict = "unspec" /\ started = {}
    /\ asked = [o \in Objects |-> {}]

-----------------------------------------------------------------------------
\* The clock, and the answers of the network.

Tick ==
    /\ now < MaxNow
    /\ now' = now + 1
    /\ UNCHANGED <<kernel, faults, objectVars, pc, err, wake, callVars, loopVars>>

\* The connection in progress is established or refused.
ConnectionResolves(fd) ==
    /\ kernel[fd].st = "connecting"
    /\ \E st \in {"established", "refused"} : kernel' = [kernel EXCEPT ![fd].st = st]
    /\ UNCHANGED <<now, faults, objectVars, pc, err, wake, callVars, loopVars>>

Fault == faults < MaxFaults /\ faults' = faults + 1

\* A client shows up at a listening socket; it may leave before it is accepted.
ClientArrives(fd) ==
    /\ kernel[fd].st = "listening"
    /\ IF kernel[fd].backlog = 0 THEN UNCHANGED faults ELSE Fault
    /\ kernel' = [kernel EXCEPT ![fd].backlog = 1 - @]
    /\ UNCHANGED <<now, objectVars, pc, err, wake, callVars, loopVars>>

-----------------------------------------------------------------------------
\* The kernel's table of descriptors, as a function of k = kernel.

Open(k)  == {fd \in Fds : k[fd].st # "none"}

\* socket_destroy, on the table.
Destroyed(k, fd) == IF fd \in Fds THEN [k EXCEPT ![fd] = Closed] ELSE k

\* inet_trycreate on an object whose old socket has just been destroyed: the new
\* descriptor fd, in the mode the callers leave it in.
Created(k, fd, fam, nonblocking) ==
    [k EXCEPT ![fd] = [Closed EXCEPT !.st = "new", !.fam = fam, !.nonblocking = nonblocking]]

-----------------------------------------------------------------------------
\* Objects come and go.

NewObject(o, c, s, fam) ==
    /\ class[o] = "free"
    /\ class' = [class EXCEPT ![o] = c]
    /\ sock' = [sock EXCEPT ![o] = s]
    /\ family' = [family EXCEPT ![o] = fam]
    /\ tm' = [tm EXCEPT ![o] = timeout_init(-1, -1)]

\* socket.tcp: the socket is made on first use.
global_create(o) ==
    /\ pc = "idle"
    /\ NewObject(o, "master", SOCKET_INVALID, "unspec")
    /\ asked' = [asked EXCEPT ![o] = {}]
    /\ UNCHANGED <<kernel, now, faults, pc, err, wake, self, method, host, calls, began,
                   resolved, restrict, loopVars>>

\* tcp_create leaves the socket in blocking mode.
tcp_create_blocking(o, fam) ==
    /\ pc = "idle"
    /\ \E fd \in Fds \ Open(kernel) :
        kernel' = Created(kernel, fd, fam, FALSE) /\ NewObject(o, "master", fd, fam)
    /\ asked' = [asked EXCEPT ![o] = {}]
    /\ UNCHANGED <<now, faults, pc, err, wake, self, method, host, calls, began, resolved,
                   restrict, loopVars>>

\* socket.tcp4, socket.tcp6.  When no socket can be made the object is left to
\* the collector.
tcp_create(o, fam) ==
    /\ pc = "idle"
    /\ \/ /\ \E fd \in Fds \ Open(kernel) :
              kernel' = Created(kernel, fd, fam, TRUE) /\ NewObject(o, "master", fd, fam)
          /\ UNCHANGED faults
       \/ /\ Fault \/ (Fds = Open(kernel) /\ UNCHANGED faults)
          /\ NewObject(o, "master", SOCKET_INVALID, fam)
          /\ UNCHANGED kernel
    /\ asked' = [asked EXCEPT ![o] = {}]
    /\ UNCHANGED <<now, pc, err, wake, self, method, host, calls, began, resolved, restrict,
                   loopVars>>

meth_settimeout(o, value, mode) ==
    /\ pc = "idle" /\ class[o] \in {"master", "client", "server"}
    /\ tm' = [tm EXCEPT ![o] = timeout_meth_settimeout(@, value, mode)]
    /\ UNCHANGED <<kernel, now, faults, class, sock, family, pc, err, wake, callVars, loopVars>>

meth_close(o) ==
    /\ pc = "idle" /\ class[o] \in {"master", "client", "server"}
    /\ kernel' = Destroyed(kernel, sock[o])
    /\ sock' = [sock EXCEPT ![o] = SOCKET_INVALID]
    /\ UNCHANGED <<now, faults, class, family, tm, pc, err, wake, callVars, loopVars>>

\* The object is collected: __gc is close, but a userdata that was given no class
\* has no metatable.
Collect(o) ==
    /\ pc = "idle" /\ class[o] # "free"
    /\ kernel' = IF class[o] = "raw" THEN kernel ELSE Destroyed(kernel, sock[o])
    /\ class' = [class EXCEPT ![o] = "free"]
    /\ sock' = [sock EXCEPT ![o] = SOCKET_INVALID]
    /\ family' = [family EXCEPT ![o] = "unspec"]
    /\ tm' = [tm EXCEPT ![o] = timeout_init(-1, -1)]
    /\ UNCHANGED <<now, faults, pc, err, wake, callVars, loopVars>>

-----------------------------------------------------------------------------
\* The loops over addresses of inet_trybind and inet_tryconnect.

\* getaddrinfo, asked for one family or for any: Chosen(h, fam)[i] is what is left
\* of the first i addresses of h.
Asked(a, fam)  == fam = "unspec" \/ FamilyOf[a] = fam
Chosen(h, fam) ==
    LET F[i \in 0..Len(h)] ==
            IF i = 0 THEN <<>> ELSE IF Asked(h[i], fam) THEN Append(F[i-1], h[i]) ELSE F[i-1]
    IN F
Resolve(h, fam) == Chosen(h, fam)[Len(h)]

Starts(o, m, l) ==
    /\ self' = o /\ method' = m /\ calls' = calls + 1
    /\ began' = 0 /\ resolved' = l /\ list' = l /\ started' = {}

\* The call returns e, leaving the object with descriptor s and the table k.  Only
\* global_connect destroys what it made, and only once it has got past its bind; a
\* connect makes its object a client whatever happened.
Return(e, k, s) ==
    LET dropped == method = "global_connect" /\ pc # "bind" /\ e # "done"
        client  == method = "connect" \/ (method = "global_connect" /\ e = "done")
    IN
    /\ pc' = "idle" /\ err' = e
    /\ kernel' = IF dropped THEN Destroyed(k, s) ELSE k
    /\ sock' = [sock EXCEPT ![self] = IF dropped THEN SOCKET_INVALID ELSE s]
    /\ class' = IF client THEN [class EXCEPT ![self] = "client"] ELSE class

\* This address failed with e: go on to the next one.
NextAddress(e, k, s) ==
    IF Len(list) = 1 THEN list' = <<>> /\ Return(e, k, s)
    ELSE /\ list' = Tail(list)
         /\ pc' = IF pc = "bind" THEN "bind" ELSE "try"
         /\ kernel' = k /\ sock' = [sock EXCEPT ![self] = s]
         /\ UNCHANGED <<err, class>>

\* The object has a descriptor of the family of this address.
Suits(a) == current = FamilyOf[a] /\ sock[self] # SOCKET_INVALID

\* The old descriptor is forgotten instead of closed.
ReplaceSocket_forgets ==
    /\ pc \in {"bind", "connect"} /\ ~Suits(Head(list))
    /\ LET fam == FamilyOf[Head(list)] IN
        \E fd \in Fds \ Open(kernel) :
            /\ kernel' = Created(kernel, fd, fam, pc = "connect")
            /\ sock' = [sock EXCEPT ![self] = fd]
            /\ current' = fam
    /\ UNCHANGED <<now, faults, class, family, tm, pc, list, started, err, wake, callVars>>

\* It has not: a new descriptor replaces the old one, or none does and the next
\* address is tried.
ReplaceSocket ==
    /\ pc \in {"bind", "connect"} /\ ~Suits(Head(list))
    /\ LET k   == Destroyed(kernel, sock[self])
           fam == FamilyOf[Head(list)]
       IN
       \/ /\ \E fd \in Fds \ Open(k) :
                /\ kernel' = Created(k, fd, fam, pc = "connect")
                /\ sock' = [sock EXCEPT ![self] = fd]
          /\ current' = fam
          /\ UNCHANGED <<faults, class, pc, list, err>>
       \/ /\ Fault \/ (Fds = Open(k) /\ UNCHANGED faults)
          /\ NextAddress("error", k, SOCKET_INVALID)
          /\ UNCHANGED current
    /\ UNCHANGED <<now, family, tm, started, wake, callVars>>

-----------------------------------------------------------------------------
\* bind

meth_bind(o, h) ==
    /\ pc = "idle" /\ class[o] = "master" /\ calls < MaxCalls
    /\ LET l == Resolve(h, family[o]) IN
        /\ Starts(o, "bind", l)
        /\ IF l = <<>> THEN err' = "error" /\ pc' = "idle" ELSE pc' = "bind" /\ UNCHANGED err
    /\ current' = family[o]
    /\ UNCHANGED <<kernel, now, faults, objectVars, wake, host, restrict, asked>>

\* A bind that succeeds settles the family of the object.  In global_connect the
\* connect follows, for addresses of that family only.
BindAddress ==
    /\ pc = "bind" /\ Suits(Head(list))
    /\ LET fd == sock[self]
           k(ok) == [kernel EXCEPT ![fd].bound = @ \/ ok, ![fd].nonblocking = TRUE]
           l == Resolve(host, current)
       IN
       \/ /\ ~kernel[fd].bound
          /\ family' = [family EXCEPT ![self] = current]
          /\ IF method = "bind"
             THEN Return("done", k(TRUE), fd) /\ list' = <<>> /\ UNCHANGED <<resolved, asked>>
             ELSE /\ list' = l /\ resolved' = l
                  /\ asked' = [asked EXCEPT ![self] = ToSet(l)]
                  /\ IF l = <<>>
                     THEN /\ pc' = "idle" /\ err' = "error"
                          /\ kernel' = Destroyed(k(TRUE), fd)
                          /\ sock' = [sock EXCEPT ![self] = SOCKET_INVALID]
                     ELSE pc' = "try" /\ kernel' = k(TRUE) /\ UNCHANGED <<sock, err>>
                  /\ UNCHANGED class
          /\ UNCHANGED faults
       \/ /\ NextAddress("error", k(FALSE), fd)
          /\ UNCHANGED <<faults, family, resolved, asked>>
    /\ UNCHANGED <<now, tm, current, started, wake, self, method, host, calls, began, restrict>>

-----------------------------------------------------------------------------
\* connect

\* The class of the object does not matter.
meth_connect(o, h) ==
    /\ pc = "idle" /\ class[o] \in {"master", "client", "server"} /\ calls < MaxCalls
    /\ LET l == Resolve(h, family[o]) IN
        /\ Starts(o, "connect", l)
        /\ asked' = [asked EXCEPT ![o] = @ \cup ToSet(l)]
        /\ IF l = <<>>
           THEN err' = "error" /\ pc' = "idle" /\ class' = [class EXCEPT ![o] = "client"]
           ELSE pc' = "try" /\ UNCHANGED <<err, class>>
    /\ tm' = [tm EXCEPT ![o] = timeout_markstart(@, now)]
    /\ current' = family[o]
    /\ UNCHANGED <<kernel, now, faults, sock, family, wake, host, restrict>>

\* socket.connect(host, port, local): the userdata has no class until it succeeds.
global_connect(o, h, local, fam) ==
    /\ pc = "idle" /\ calls < MaxCalls
    /\ NewObject(o, "raw", SOCKET_INVALID, "unspec")
    /\ LET l == IF local = <<>> THEN h ELSE Resolve(local, fam) IN
        /\ Starts(o, "global_connect", l)
        /\ asked' = [asked EXCEPT ![o] = ToSet(h)]
        /\ IF l = <<>> THEN err' = "error" /\ pc' = "idle"
           ELSE pc' = (IF local = <<>> THEN "try" ELSE "bind") /\ UNCHANGED err
    /\ host' = h /\ current' = "unspec" /\ restrict' = fam
    /\ UNCHANGED <<kernel, now, faults, wake>>

\* Head of the loop: the limits are measured from here.
TryAddress ==
    /\ pc = "try"
    /\ tm' = [tm EXCEPT ![self] = timeout_markstart(@, now)]
    /\ pc' = "connect"
    /\ began' = IF list = resolved THEN now ELSE began
    /\ UNCHANGED <<kernel, now, faults, class, sock, family, err, wake, self, method, host, calls,
                   resolved, restrict, asked, loopVars>>

\* A zero limit does not end the loop.
Answer_done_only(e, k) ==
    IF e = "done"
    THEN /\ family' = [family EXCEPT ![self] = current]
         /\ list' = <<>>
         /\ Return(e, k, sock[self])
    ELSE NextAddress(e, k, sock[self]) /\ UNCHANGED family

\* The outcome e of this address ends the loop if it is a success or the block
\* limit is zero; only then is the family of the object set.
Answer(e, k) ==
    IF e = "done" \/ timeout_iszero(tm[self])
    THEN /\ family' = [family EXCEPT ![self] = current]
         /\ list' = <<>>
         /\ Return(e, k, sock[self])
    ELSE NextAddress(e, k, sock[self]) /\ UNCHANGED family

\* connect on a fresh descriptor: refused at once, or in progress.
ConnectStarts ==
    /\ pc = "connect" /\ Suits(Head(list))
    /\ kernel[sock[self]].st = "new"
    /\ started' = started \cup {Head(list)}
    /\ LET k == [kernel EXCEPT ![sock[self]].st = "connecting", ![sock[self]].peer = Head(list)]
       IN
       \/ Answer("error", kernel) /\ UNCHANGED wake
       \/ timeout_iszero(tm[self]) /\ Answer("timeout", k) /\ UNCHANGED wake
       \/ /\ ~timeout_iszero(tm[self])
          /\ pc' = "poll" /\ wake' \in Wakes(tm[self], now)
          /\ kernel' = k
          /\ UNCHANGED <<class, sock, family, err, list>>
    /\ UNCHANGED <<now, faults, tm, current, callVars>>

\* connect on a descriptor that an earlier one has been called on: the answer is
\* about the earlier address.
ConnectAgain ==
    /\ pc = "connect" /\ Suits(Head(list))
    /\ LET fd    == sock[self]
           to(st) == [kernel EXCEPT ![fd].st = st]
       IN CASE kernel[fd].st = "established"            -> Answer("done", to("connected"))
            [] kernel[fd].st \in {"refused", "aborted"} -> Answer("error", to("new"))
            [] kernel[fd].st \in {"connecting", "connected", "listening"} -> Answer("error", kernel)
            [] OTHER -> FALSE
    /\ UNCHANGED <<now, faults, tm, current, started, wake, callVars>>

\* Any event is taken for the success of the connection.
PollReady_unchecked ==
    /\ pc = "poll"
    /\ kernel[sock[self]].st # "connecting"
    /\ Answer("done", kernel)
    /\ UNCHANGED <<now, faults, tm, current, started, wake, callVars>>

\* The poll returns when the connection is established, or with an event that
\* makes the code read the error of the socket.
PollReady ==
    /\ pc = "poll"
    /\ \/ kernel[sock[self]].st = "established" /\ Answer("done", kernel)
       \/ /\ kernel[sock[self]].st = "refused"
          /\ Answer("error", [kernel EXCEPT ![sock[self]].st = "aborted"])
    /\ UNCHANGED <<now, faults, tm, current, started, wake, callVars>>

\* A limited poll gives up, at the latest where the clock of the model stops.
Expired == wake # Forever /\ (now >= wake \/ now = MaxNow)

PollFails ==
    /\ pc = "poll"
    /\ \/ Expired /\ Answer("timeout", kernel) /\ UNCHANGED faults
       \/ Fault /\ Answer("error", kernel)
    /\ UNCHANGED <<now, tm, current, started, wake, callVars>>

\* EINTR in any of the system calls.
Interrupted ==
    /\ pc \in {"connect", "poll", "accept", "wait"}
    /\ Fault
    /\ wake' \in IF pc \in {"poll", "wait"} THEN Wakes(tm[self], now) ELSE {wake}
    /\ UNCHANGED <<kernel, now, objectVars, pc, err, callVars, loopVars>>

-----------------------------------------------------------------------------
\* listen and accept

meth_listen(o) ==
    /\ pc = "idle" /\ class[o] = "master"
    /\ IF sock[o] = SOCKET_INVALID
       THEN err' = "error" /\ UNCHANGED <<kernel, faults, class>>
       ELSE \/ /\ kernel' = [kernel EXCEPT ![sock[o]].st = "listening"]
               /\ class' = [class EXCEPT ![o] = "server"]
               /\ err' = "done" /\ UNCHANGED faults
            \/ Fault /\ err' = "error" /\ UNCHANGED <<kernel, class>>
    /\ UNCHANGED <<now, sock, family, tm, pc, wake, callVars, loopVars>>

\* Bound: the model has room for the client object.
meth_accept(o) ==
    /\ pc = "idle" /\ class[o] = "server" /\ calls < MaxCalls
    /\ \E p \in Objects : class[p] = "free"
    /\ Starts(o, "accept", <<>>)
    /\ tm' = [tm EXCEPT ![o] = timeout_markstart(@, now)]
    /\ IF sock[o] = SOCKET_INVALID THEN err' = "closed" /\ pc' = "idle"
       ELSE pc' = "accept" /\ UNCHANGED err
    /\ UNCHANGED <<kernel, now, faults, class, sock, family, wake, host, current, restrict, asked>>

\* A connection waits: it becomes a client object of the server's family.
AcceptTakes ==
    /\ pc = "accept" /\ kernel[sock[self]].backlog > 0
    /\ \E o \in Objects, fd \in Fds \ Open(kernel) :
        /\ NewObject(o, "client", fd, family[self])
        /\ kernel' = [kernel EXCEPT
                ![sock[self]].backlog = @ - 1,
                ![fd] = [Closed EXCEPT !.st = "connected", !.fam = kernel[sock[self]].fam,
                                       !.nonblocking = TRUE]]
        /\ asked' = [asked EXCEPT ![o] = {}]
    /\ pc' = "idle" /\ err' = "done"
    /\ UNCHANGED <<now, faults, wake, self, method, host, calls, began, resolved, restrict,
                   loopVars>>

AcceptFails ==
    /\ pc = "accept"
    /\ Fault \/ (Fds = Open(kernel) /\ UNCHANGED faults)
    /\ pc' = "idle" /\ err' = "error"
    /\ UNCHANGED <<kernel, now, objectVars, wake, callVars, loopVars>>

\* EAGAIN or ECONNABORTED: the client that woke the poll up has gone.
AcceptWouldBlock ==
    /\ pc = "accept"
    /\ IF kernel[sock[self]].backlog > 0 THEN Fault ELSE UNCHANGED faults
    /\ IF timeout_iszero(tm[self])
       THEN pc' = "idle" /\ err' = "timeout" /\ UNCHANGED wake
       ELSE pc' = "wait" /\ wake' \in Wakes(tm[self], now) /\ UNCHANGED err
    /\ UNCHANGED <<kernel, now, objectVars, callVars, loopVars>>

WaitReady ==
    /\ pc = "wait" /\ kernel[sock[self]].backlog > 0
    /\ pc' = "accept"
    /\ UNCHANGED <<kernel, now, faults, objectVars, err, wake, callVars, loopVars>>

WaitFails ==
    /\ pc = "wait"
    /\ \/ Expired /\ err' = "timeout" /\ UNCHANGED faults
       \/ Fault /\ err' = "error"
    /\ pc' = "idle"
    /\ UNCHANGED <<kernel, now, objectVars, wake, callVars, loopVars>>

-----------------------------------------------------------------------------
Environment ==
    \/ Tick
    \/ \E fd \in Fds : ConnectionResolves(fd) \/ ClientArrives(fd)

Client == \E o \in Objects :
    \/ global_create(o)
    \/ \E fam \in Families : tcp_create(o, fam)
    \/ \E value \in TimeoutValues, mode \in {"b", "t"} : meth_settimeout(o, value, mode)
    \/ meth_close(o) \/ Collect(o)
    \/ \E h \in Hosts : meth_bind(o, h) \/ meth_connect(o, h)
    \/ \E h \in Hosts, local \in Local, fam \in Families \cup {"unspec"} :
            global_connect(o, h, local, fam)
    \/ meth_listen(o) \/ meth_accept(o)

Call ==
    \/ ReplaceSocket \/ BindAddress
    \/ TryAddress \/ ConnectStarts \/ ConnectAgain \/ PollReady \/ PollFails \/ Interrupted
    \/ AcceptTakes \/ AcceptFails \/ AcceptWouldBlock \/ WaitReady \/ WaitFails

Next == Environment \/ Client \/ Call

Spec == Init /\ [][Next]_vars

\* The clock runs and the process goes on with its call; the network need not
\* answer, nor any client come.
FairSpec == Spec /\ WF_vars(Tick) /\ WF_vars(Call)

-----------------------------------------------------------------------------
Connecting(m) == pc # "idle" /\ method = m
Returns(m)    == pc # "idle" /\ pc' = "idle" /\ method = m

\* What the kernel knows of a descriptor.
Descriptor == [
    st : {"none", "new", "connecting", "established", "connected", "refused", "aborted",
          "listening"},
    fam : Families \cup {"unspec"}, peer : Addrs \cup {NoAddr},
    bound : BOOLEAN, nonblocking : BOOLEAN, backlog : {0, 1}]

\* Every variable stays in its range.
TypeOK ==
    /\ kernel \in [Fds -> Descriptor]
    /\ now \in 0..MaxNow /\ faults \in 0..MaxFaults /\ calls \in 0..MaxCalls
    /\ class \in [Objects -> {"free", "raw", "master", "client", "server"}]
    /\ sock \in [Objects -> Fds \cup {SOCKET_INVALID}]
    /\ family \in [Objects -> Families \cup {"unspec"}]
    /\ tm \in [Objects -> TimeoutRecord]
    /\ pc \in {"idle", "bind", "try", "connect", "poll", "accept", "wait"}
    /\ self \in Objects /\ method \in {"bind", "connect", "global_connect", "accept"}
    /\ list \in Seq(Addrs) /\ host \in Seq(Addrs) /\ resolved \in Seq(Addrs)
    /\ current \in Families \cup {"unspec"} /\ restrict \in Families \cup {"unspec"}
    /\ err \in {"done", "timeout", "closed", "error"}
    /\ wake \in Int /\ began \in 0..MaxNow
    /\ started \subseteq Addrs /\ asked \in [Objects -> SUBSET Addrs]

\* A descriptor number held by an object is that of an open socket, and no other
\* object holds it: a close never hits a socket that has reused the number.
OwnedOnce ==
    /\ \A o \in Objects : sock[o] # SOCKET_INVALID => sock[o] \in Open(kernel)
    /\ \A o, p \in Objects : o # p /\ sock[o] # SOCKET_INVALID => sock[o] # sock[p]

\* No descriptor outlives its object: "Garbage-collected objects are automatically
\* closed before destruction".
NoLeak == \A fd \in Open(kernel) : \E o \in Objects : sock[o] = fd

\* Every open descriptor is held by exactly one object.
Owned == OwnedOnce /\ NoLeak

\* Limits rest on it: every socket a limited call can be made on is in non-blocking
\* mode, however the object came by it.
NonBlocking ==
    \A o \in Objects :
        class[o] \in {"master", "client", "server"} /\ sock[o] # SOCKET_INVALID
            => kernel[sock[o]].nonblocking \/ (pc = "bind" /\ self = o)

\* "if there was a bind, all families will be the same": connecting never costs an
\* object the local address it is bound to.
LocalKept ==
    \A fd \in Fds : kernel[fd].bound /\ Connecting("connect") => kernel'[fd].bound

\* A connect succeeds only with a connection to one of the addresses the object was
\* told to connect to, of the family the object then says it has.
PeerAsked ==
    (\E m \in {"connect", "global_connect"} : Returns(m)) /\ err' = "done" =>
        LET s == kernel'[sock'[self]] IN
        /\ s.st \in {"established", "connected"}
        /\ s.peer \in asked'[self]
        /\ s.fam = family'[self] /\ FamilyOf[s.peer] = s.fam

\* Both ends of a connection are the ones asked for: the local address is not lost
\* on the way, and the peer is of the list.
BothEnds == [][LocalKept /\ PeerAsked]_vars

\* "If the timeout was set to zero, only the first address is tried": no second
\* connection is started, whatever became of the first.
ZeroTriesOne ==
    [][started' \ started # {} /\ timeout_iszero(tm[self]) => started = {}]_vars

\* A wait for a connection or a client sleeps for ever only without a limit.  With one
\* it gives up when a limit has passed since the start of the attempt, to the
\* millisecond: not later, whatever interrupted the waits before it and whichever
\* clients woke them up and left, and not earlier.
WaitsInTime ==
    pc \in {"poll", "wait"} => LET t == tm[self] IN
        IF t.total < 0 /\ t.block < 0 THEN wake = Forever
        ELSE /\ wake # Forever
             /\ wake <= MAX(now, t.start + (IF t.total >= 0 THEN t.total ELSE t.block))
             /\ \/ t.total >= 0 /\ wake + Ms > t.start + t.total
                \/ t.block >= 0 /\ wake + Ms > t.start + t.block

\* A limited call ends, since its waits do (MCTcpObjectTime.cfg).
LimitedReturns ==
    pc # "idle" /\ (tm[self].block >= 0 \/ tm[self].total >= 0) ~> pc = "idle"

\* Addresses "are tried in the order returned by the resolver until the first
\* success or until the last failure".
AllTried ==
    [][Returns("connect") /\ class[self] = "master" /\ err' # "done" /\ ~timeout_iszero(tm[self])
            => started' = ToSet(resolved)]_vars

\* settimeout(value, "t"): "the upper limit on the amount of time LuaSocket can
\* block a Lua script before returning from a call".
TotalLimit ==
    pc = "poll" /\ tm[self].total >= 0 /\ wake # Forever =>
        wake <= MAX(now, began + tm[self].total)

\* socket.connect4 and socket.connect6 "restrict the family".
FamilyRestricted ==
    [][Returns("global_connect") /\ err' = "done" /\ restrict # "unspec"
            => family'[self] = restrict]_vars
=============================================================================
