------------------------------- MODULE Select -------------------------------
(***************************************************************************)
(* socket.select: select.c over socket_select of usocket.c.                *)
(*                                                                         *)
(* An object may be a socket or anything with the methods getfd and dirty, *)
(* so that two objects may stand for one descriptor.  A limit of select is *)
(* a block limit of its own; microseconds are the tick of Timeout here.    *)
(***************************************************************************)
EXTENDS Timeout, Sequences, SequencesExt

CONSTANTS
    Objects,    \* what the tables may hold
    FdMaps,     \* the descriptors getfd may give for them: functions from Objects
    Bad,        \* descriptors the kernel does not know
    FD_SETSIZE,
    Tables,     \* what recvt and sendt may be: sequences of objects
    Limits,     \* the values of timeout
    MaxFaults,  \* bound: signals
    MaxNow,     \* bound: the clock stops here
    LastCall    \* bound: no call starts after this time

SOCKET_INVALID == -1

ASSUME FdMapsAssumption == FdMaps \subseteq [Objects -> Nat \cup {SOCKET_INVALID}]
ASSUME TablesAssumption == Tables \subseteq Seq(Objects)
ASSUME LimitsAssumption == Limits \subseteq Int /\ FD_SETSIZE \in Nat
ASSUME BoundsAssumption == MaxFaults \in Nat /\ MaxNow \in Nat /\ LastCall \in Int

VARIABLES
    getfd,              \* descriptor of each object, SOCKET_INVALID when closed
    dirty,              \* the objects with bytes in their buffer
    readable, writable, \* the descriptors the kernel would report
    now, faults,
    pc,                 \* "idle" or "select" (asleep in the system call)
    recvt, sendt,
    rset, wset,         \* the sets given to the system call
    itab,               \* from descriptors to objects
    ndirty, tm,
    wake,               \* when the system call gives up
    rtab, wtab,         \* the tables returned
    err                 \* "none", "timeout" or "raised" (luaL_error)

kernelVars == <<readable, writable>>
argVars    == <<recvt, sendt, rset, wset, itab, ndirty, tm>>
resultVars == <<rtab, wtab, err>>
vars == <<getfd, dirty, kernelVars, now, faults, pc, argVars, wake, resultVars>>

Init ==
    /\ getfd \in FdMaps /\ dirty \in SUBSET Objects
    /\ readable = {} /\ writable = {}
    /\ now = 0 /\ faults = 0 /\ pc = "idle"
    /\ recvt = <<>> /\ sendt = <<>> /\ rset = {} /\ wset = {} /\ itab = <<>>
    /\ ndirty = 0 /\ tm = timeout_init(-1, -1) /\ wake = Forever
    /\ rtab = <<>> /\ wtab = <<>> /\ err = "none"

-----------------------------------------------------------------------------
\* The kernel and the clock.

Descriptors == {getfd[o] : o \in Objects} \ {SOCKET_INVALID}

KernelChanges ==
    /\ \E fd \in Descriptors \ Bad :
        \/ readable' = readable \cup {fd} /\ UNCHANGED writable
        \/ writable' = writable \cup {fd} /\ UNCHANGED readable
    /\ UNCHANGED <<getfd, dirty, now, faults, pc, argVars, wake, resultVars>>

Tick ==
    /\ now < MaxNow
    /\ now' = now + 1
    /\ UNCHANGED <<getfd, dirty, kernelVars, faults, pc, argVars, wake, resultVars>>

\* The program uses its sockets between two calls: it empties a buffer and what
\* the kernel holds, or closes the socket.
UseSocket(o) ==
    /\ pc = "idle"
    /\ \/ dirty' = dirty \ {o} /\ UNCHANGED getfd
       \/ getfd' = [getfd EXCEPT ![o] = SOCKET_INVALID] /\ UNCHANGED dirty
    /\ readable' = readable \ {getfd[o]} /\ writable' = writable \ {getfd[o]}
    /\ UNCHANGED <<now, faults, pc, argVars, wake, resultVars>>

-----------------------------------------------------------------------------
\* The call, up to the system call.

\* collect_fd
Collected(t) == {getfd[o] : o \in ToSet(t)} \ {SOCKET_INVALID}

\* A descriptor that does not fit an fd_set.
TooLarge(fds) == \E fd \in fds : fd >= FD_SETSIZE

\* The object a descriptor is mapped back to is the last one collected.
LastWith(t, fd) == t[CHOOSE i \in DOMAIN t :
    getfd[t[i]] = fd /\ \A j \in DOMAIN t : getfd[t[j]] = fd => j <= i]

\* check_dirty: the dirty objects, as often and in the order they are in the table;
\* Found(r)[i] is what has been found after i objects.
IsDirty(o) == getfd[o] # SOCKET_INVALID /\ o \in dirty
Found(r) ==
    LET F[i \in 0..Len(r)] ==
            IF i = 0 THEN <<>> ELSE IF IsDirty(r[i]) THEN Append(F[i-1], r[i]) ELSE F[i-1]
    IN F
check_dirty(r) == Found(r)[Len(r)]

\* A limit that has been reached is taken for no limit.
Wake_zero_forever(t) == IF t > 0 THEN now + t ELSE Forever

\* When a system call entered now with t left gives up.
Wake(t) == IF t >= 0 THEN now + t ELSE Forever

\* The limit does not become zero when there are dirty objects.
Limit_kept(t, n) == t

Limit(t, n) == IF n > 0 THEN 0 ELSE t

\* What the kernel is asked about for reading: the dirty objects' descriptors are
\* taken out (FD_CLR).
Waited(r) == Collected(r) \ {getfd[o] : o \in {p \in ToSet(r) : IsDirty(p)}}

global_select(r, w, t) ==
    /\ pc = "idle" /\ now <= LastCall
    /\ recvt' = r /\ sendt' = w
    /\ LET fds == Collected(r) \cup Collected(w)
           d   == check_dirty(r)
       IN IF TooLarge(fds)
          THEN /\ err' = "raised" /\ rtab' = <<>> /\ wtab' = <<>>
               /\ UNCHANGED <<pc, rset, wset, itab, ndirty, tm, wake>>
          ELSE /\ rset' = Waited(r)
               /\ wset' = Collected(w)
               /\ itab' = [fd \in fds |-> LastWith(r \o w, fd)]
               /\ ndirty' = Len(d)
               /\ tm' = timeout_markstart(timeout_init(Limit(t, Len(d)), -1), now)
               /\ rtab' = d /\ wtab' = <<>> /\ err' = "none"
               /\ pc' = "select" /\ wake' = Wake(timeout_getretry(tm', now))
    /\ UNCHANGED <<getfd, dirty, kernelVars, now, faults>>

-----------------------------------------------------------------------------
\* The system call, and what is made of its answer.

\* return_fd: the objects of the descriptors in a set, in order of descriptor;
\* Given(fds, max)[n] is what has been returned after n descriptors.
max_fd == CHOOSE m \in DOMAIN itab \cup {SOCKET_INVALID} : \A fd \in DOMAIN itab : fd <= m
Given(fds, max) ==
    LET F[n \in 0..max] ==
            IF n = 0 THEN <<>>
            ELSE IF n - 1 \in fds THEN Append(F[n-1], itab[n-1]) ELSE F[n-1]
    IN F
return_fd(fds, max) == Given(fds, max)[max]

\* The largest descriptor is not looked at.
Objs_short(fds) == return_fd(fds, max_fd)

Objs(fds) == return_fd(fds, max_fd + 1)

Reports(rs, ws) ==
    /\ rtab' = rtab \o Objs(rs)
    /\ wtab' = Objs(ws)
    /\ pc' = "idle"
    /\ UNCHANGED err

Frame == UNCHANGED <<getfd, dirty, kernelVars, now, argVars>>

Waiting == pc = "select" /\ (rset \cup wset) \cap Bad = {}

SelectReady ==
    /\ Waiting
    /\ (rset \cap readable) \cup (wset \cap writable) # {}
    /\ Reports(rset \cap readable, wset \cap writable)
    /\ UNCHANGED <<faults, wake>> /\ Frame

\* Nothing became ready, which is a timeout unless there are dirty objects.
SelectExpires ==
    /\ Waiting
    /\ (rset \cap readable) \cup (wset \cap writable) = {}
    /\ wake # Forever /\ now >= wake
    /\ IF ndirty > 0 THEN Reports({}, {}) ELSE pc' = "idle" /\ err' = "timeout" /\ UNCHANGED <<rtab, wtab>>
    /\ UNCHANGED <<faults, wake>> /\ Frame

\* EINTR is taken for the end of the wait.
SelectInterrupted_ends ==
    /\ Waiting
    /\ faults < MaxFaults /\ faults' = faults + 1
    /\ IF ndirty > 0 THEN Reports({}, {}) ELSE pc' = "idle" /\ err' = "timeout" /\ UNCHANGED <<rtab, wtab>>
    /\ UNCHANGED wake /\ Frame

\* EINTR: again, with the time that is left.
SelectInterrupted ==
    /\ Waiting
    /\ faults < MaxFaults /\ faults' = faults + 1
    /\ wake' = Wake(timeout_getretry(tm, now))
    /\ UNCHANGED <<pc, resultVars>> /\ Frame

\* EBADF leaves the sets as they were: an error is raised, or, next to dirty
\* objects, every descriptor asked about is reported.
SelectFails ==
    /\ pc = "select" /\ ~Waiting
    /\ IF ndirty > 0 THEN Reports(rset, wset)
       ELSE pc' = "idle" /\ err' = "raised" /\ UNCHANGED <<rtab, wtab>>
    /\ UNCHANGED <<faults, wake>> /\ Frame

-----------------------------------------------------------------------------
System == SelectReady \/ SelectExpires \/ SelectInterrupted \/ SelectFails

Next ==
    \/ KernelChanges \/ Tick
    \/ \E o \in Objects : UseSocket(o)
    \/ \E r, w \in Tables, t \in Limits : global_select(r, w, t)
    \/ System

Spec == Init /\ [][Next]_vars

\* The clock runs and the kernel answers a call it can answer.
FairSpec == Spec /\ WF_vars(Tick) /\ WF_vars(System)

-----------------------------------------------------------------------------
\* Every variable stays in its range.
TypeOK ==
    /\ getfd \in [Objects -> Nat \cup {SOCKET_INVALID}] /\ dirty \subseteq Objects
    /\ readable \cup writable \subseteq Nat \ Bad
    /\ now \in 0..MaxNow /\ faults \in 0..MaxFaults /\ pc \in {"idle", "select"}
    /\ recvt \in Seq(Objects) /\ sendt \in Seq(Objects)
    /\ rset \cup wset \subseteq DOMAIN itab /\ DOMAIN itab \subseteq 0..FD_SETSIZE-1
    /\ \A fd \in DOMAIN itab : itab[fd] \in Objects
    /\ ndirty \in Nat /\ tm \in TimeoutRecord /\ wake \in Int
    /\ rtab \in Seq(Objects) /\ wtab \in Seq(Objects) /\ err \in {"none", "timeout", "raised"}

\* What a return says of the sockets, at the moment it is made, when the system call
\* succeeded: an object is reported exactly when it was asked about, is open, and is
\* dirty or ready; a timeout is reported exactly when there is nothing else to report.
Exactly ==
    [][Waiting /\ pc' = "idle" =>
        /\ ToSet(rtab') = {o \in ToSet(recvt) : IsDirty(o) \/ getfd[o] \in readable}
        /\ ToSet(wtab') = {o \in ToSet(sendt) : getfd[o] \in writable}
        /\ (err' = "timeout") = (rtab' = <<>> /\ wtab' = <<>>)]_vars

\* An object that has bytes in its buffer is never slept on.
DirtyNeverWaits ==
    pc = "select" /\ (\E o \in ToSet(recvt) : IsDirty(o)) => wake # Forever /\ wake <= now

\* The limit is measured from the call and waited for in full, however often the wait
\* is interrupted.
LimitExact ==
    [][pc = "select" /\ pc' = "idle" /\ err' = "timeout" =>
        tm.block >= 0 /\ now >= tm.start + tm.block]_vars

\* A call with a limit returns.
Returns == pc = "select" /\ tm.block >= 0 ~> pc = "idle"
=============================================================================
