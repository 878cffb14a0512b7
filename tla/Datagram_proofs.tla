-------------------------- MODULE Datagram_proofs --------------------------
(***************************************************************************)
(* What datagram objects send and receive, for every family, list of       *)
(* addresses, limit, size and order of calls, arrivals and faults.         *)
(***************************************************************************)
EXTENDS Datagram, TLAPS

-----------------------------------------------------------------------------
\* Types.

Nets == {"inet", "inet6"}
Families == Nets \cup {"unspec", "unix"}
Peers == Addrs \cup {NoAddr}
Sockets == [open : BOOLEAN, fam : Families, peer : Peers, bound : {"no", "auto", "bound"},
            nonblocking : BOOLEAN, queue : Seq(Nat), used : BOOLEAN, error : BOOLEAN]
Methods == {"none", "setpeername", "setsockname", "send", "sendto", "receive", "receivefrom"}
CallRecord == [method : Methods, list : Seq(Addrs), current : Families, dest : Peers, wanted : Nat]
Datagrams == [from : Addrs, size : Nat]

\* Network addresses.
NetAddrs == {a \in Addrs : FamilyOf[a] # "unix"}

TypeInv ==
    /\ kind \in {"udp", "udp4", "udp6", "unix"} /\ class \in {"free", "unconnected", "connected"}
    /\ sock \in Sockets /\ family \in Families
    /\ pc \in {"idle", "try", "send", "recv", "wait"} /\ call \in CallRecord
    /\ arrived \in Seq(Datagrams) /\ last \in Nat /\ copies \in Nat /\ peer \in Peers

\* The socket s of an object of kind k, class c and family f whose last peer was p.  One
\* that is bound or has a peer is of the family of the object.
SocketFits(k, c, s, f, p) ==
    /\ ~s.open => s.fam = "unspec" /\ s.peer = NoAddr /\ s.bound = "no" /\ s.queue = <<>>
    /\ c # "connected" => s.peer = NoAddr
    /\ c = "connected" => s.peer \in {NoAddr, p}
    /\ k # "unix" /\ (s.peer # NoAddr \/ s.bound = "bound") => f \in Nets

\* What is in the queue q has arrived, n datagrams in all, after the number l, in order.
InOrder(q, l, n) ==
    /\ l <= n
    /\ \A i \in 1..Len(q) : l < q[i] /\ q[i] <= n
    /\ \A i, j \in 1..Len(q) : i < j => q[i] < q[j]

\* The call c is at p.  The addresses still to be tried for a bound socket are of its
\* family.
CallFits(k, s, f, p, c, n, d) ==
    /\ p # "idle" => n = 0
    /\ p \in {"send", "recv", "wait"} /\ c.method = "send" => c.dest \in {NoAddr, d}
    /\ p = "try" =>
        /\ c.list # <<>>
        /\ k # "unix" => c.list \in Seq(NetAddrs)
        /\ k # "unix" /\ s.bound = "bound" =>
                c.current = f /\ \A i \in 1..Len(c.list) : FamilyOf[c.list[i]] = f

Inv ==
    /\ TypeInv
    /\ SocketFits(kind, class, sock, family, peer)
    /\ InOrder(sock.queue, last, Len(arrived))
    /\ CallFits(kind, sock, family, pc, call, copies, peer)

\* A socket there is not.
LEMMA NoSockTyped ==
    /\ NoSock \in Sockets /\ ~NoSock.open /\ NoSock.fam = "unspec"
    /\ NoSock.peer = NoAddr /\ NoSock.bound = "no" /\ NoSock.queue = <<>>
<1>1. <<>> \in Seq(Nat) /\ NoAddr \in Peers /\ "unspec" \in Families
  BY DEF Peers, Families
<1>2. QED BY <1>1 DEF NoSock, Sockets

\* A new socket.
LEMMA CreatedTyped ==
    ASSUME NEW f \in Families, NEW n \in BOOLEAN
    PROVE  /\ Created(f, n) \in Sockets /\ Created(f, n).open
           /\ Created(f, n).peer = NoAddr /\ Created(f, n).bound = "no"
           /\ Created(f, n).queue = <<>>
<1>1. Created(f, n) \in Sockets
  BY NoSockTyped DEF Created, Sockets
<1>2. QED BY <1>1 DEF Created, NoSock

\* An empty queue is in order.
LEMMA EmptyInOrder ==
    ASSUME NEW l \in Nat, NEW n \in Nat, l <= n PROVE InOrder(<<>>, l, n)
  BY DEF InOrder

\* Whatever the last call returned, there is no call in progress.
LEMMA NoCallTyped == NoCall \in CallRecord /\ NoCall.list = <<>> /\ NoCall.method = "none"
  BY DEF NoCall, CallRecord, Methods, Families, Peers

\* The invariant holds at first.
LEMMA InvInit == Init => Inv
<1> SUFFICES ASSUME Init PROVE Inv
  OBVIOUS
<1>1. TypeInv
  <2>1. kind \in {"udp", "udp4", "udp6", "unix"} /\ <<>> \in Seq(Datagrams)
    BY DatagramInputs DEF Init
  <2>2. QED BY <2>1, NoCallTyped, NoSockTyped DEF Init, TypeInv, Families, Peers
<1>2. SocketFits(kind, class, sock, family, peer)
  BY NoSockTyped DEF Init, SocketFits
<1>3. InOrder(sock.queue, last, Len(arrived))
  BY NoSockTyped, EmptyInOrder DEF Init
<1>4. CallFits(kind, sock, family, pc, call, copies, peer)
  BY DEF Init, CallFits
<1>5. QED BY <1>1, <1>2, <1>3, <1>4 DEF Inv

-----------------------------------------------------------------------------
\* Steps that leave the call alone.

\* A step that changes nothing the invariant speaks of keeps it.
LEMMA InvSame ==
    ASSUME Inv, UNCHANGED <<kind, class, sock, family, pc, call, arrived, last, copies, peer>>
    PROVE  Inv'
<1>1. TypeInv'
  BY DEF Inv, TypeInv
<1>2. QED BY <1>1 DEF Inv

\* Some fields of a socket change.
LEMMA QueueSet ==
    ASSUME NEW s \in Sockets, NEW q \in Seq(Nat)
    PROVE  /\ [s EXCEPT !.queue = q] \in Sockets /\ [s EXCEPT !.queue = q].queue = q
           /\ [s EXCEPT !.queue = q].open = s.open /\ [s EXCEPT !.queue = q].peer = s.peer
           /\ [s EXCEPT !.queue = q].bound = s.bound /\ [s EXCEPT !.queue = q].fam = s.fam
  BY DEF Sockets

\* Nor does an error that comes or is reported change what the invariant speaks of.
LEMMA ErrorSet ==
    ASSUME NEW s \in Sockets, NEW e \in BOOLEAN
    PROVE  /\ [s EXCEPT !.error = e] \in Sockets /\ [s EXCEPT !.error = e].queue = s.queue
           /\ [s EXCEPT !.error = e].open = s.open /\ [s EXCEPT !.error = e].peer = s.peer
           /\ [s EXCEPT !.error = e].bound = s.bound /\ [s EXCEPT !.error = e].fam = s.fam
  BY DEF Sockets

\* A socket s that differs from t in nothing the invariant speaks of but its queue, which
\* is empty when the socket is closed.
Like(s, t) ==
    /\ s.open = t.open /\ s.fam = t.fam /\ s.peer = t.peer /\ s.bound = t.bound
    /\ t.queue = <<>> => s.queue = <<>>

\* Such a socket fits where t does.
LEMMA LikeFits ==
    ASSUME NEW k, NEW c, NEW f, NEW p, NEW s, NEW t, SocketFits(k, c, t, f, p), Like(s, t)
    PROVE  SocketFits(k, c, s, f, p)
  BY DEF SocketFits, Like

\* And so does the call.
LEMMA LikeCall ==
    ASSUME NEW k, NEW f, NEW p, NEW c, NEW n, NEW d, NEW s, NEW t, CallFits(k, t, f, p, c, n, d),
           Like(s, t)
    PROVE  CallFits(k, s, f, p, c, n, d)
  BY DEF CallFits, Like

\* The tail of a queue.
LEMMA TailInOrder ==
    ASSUME NEW q \in Seq(Nat), q # <<>>, NEW l \in Nat, NEW n \in Nat, InOrder(q, l, n)
    PROVE  /\ Tail(q) \in Seq(Nat) /\ InOrder(Tail(q), l, n) /\ InOrder(Tail(q), Head(q), n)
           /\ Head(q) \in Nat /\ l < Head(q)
<1> DEFINE t == Tail(q)
<1>1. t \in Seq(Nat) /\ Len(t) = Len(q) - 1 /\ Len(q) \in Nat \ {0}
  OBVIOUS
<1>2. \A i \in 1..Len(t) : t[i] = q[i+1] /\ i + 1 \in 1..Len(q) /\ t[i] \in Nat
  BY <1>1
<1>3. Head(q) = q[1] /\ 1 \in 1..Len(q) /\ q[1] \in Nat
  BY <1>1
<1> HIDE DEF t
<1>4. l < q[1] /\ q[1] <= n
  BY <1>3 DEF InOrder
<1>5. \A i \in 1..Len(t) : l < t[i] /\ t[i] <= n /\ q[1] < t[i]
  <2>1. TAKE i \in 1..Len(t)
  <2>2. i + 1 \in 1..Len(q) /\ t[i] = q[i+1] /\ 1 < i + 1
    BY <1>1, <1>2
  <2>3. QED BY <2>2, <1>3 DEF InOrder
<1>6. \A i, j \in 1..Len(t) : i < j => t[i] < t[j]
  <2>1. TAKE i, j \in 1..Len(t)
  <2>2. HAVE i < j
  <2>3. i + 1 \in 1..Len(q) /\ j + 1 \in 1..Len(q) /\ i + 1 < j + 1
    BY <1>1, <1>2, <2>2
  <2>4. q[i+1] < q[j+1]
    BY <2>3 DEF InOrder
  <2>5. QED BY <2>4, <1>2
<1>7. InOrder(t, l, n) /\ InOrder(t, q[1], n)
  BY <1>4, <1>5, <1>6 DEF InOrder
<1>8. QED BY <1>1, <1>3, <1>4, <1>7 DEF t

\* A step that changes the socket alone, and no field but its error and its queue, which
\* loses its first datagram at most.
LEMMA InvSocket ==
    ASSUME Inv, UNCHANGED <<kind, class, family, pc, call, arrived, last, copies, peer>>,
           sock' \in Sockets, Like(sock', sock),
           InOrder(sock'.queue, last, Len(arrived))
    PROVE  Inv'
<1>1. TypeInv'
  BY DEF Inv, TypeInv
<1>2. SocketFits(kind', class', sock', family', peer')
  BY LikeFits DEF Inv
<1>3. CallFits(kind', sock', family', pc', call', copies', peer')
  BY LikeCall DEF Inv
<1>4. QED BY <1>1, <1>2, <1>3 DEF Inv

\* The clock, the network and the kernel.
LEMMA InvEnvironment == ASSUME Inv, Environment PROVE Inv'
<1>0. sock \in Sockets /\ sock.queue \in Seq(Nat) /\ last \in Nat /\ arrived \in Seq(Datagrams)
  BY DEF Inv, TypeInv, Sockets
<1>1. CASE Tick \/ Drain
  <2>1. UNCHANGED <<kind, class, sock, family, pc, call, arrived, last, copies, peer>>
    BY <1>1 DEF Tick, Drain, objectVars, callVars, historyVars
  <2>2. QED BY <2>1, InvSame
<1>2. CASE Trouble
  <2>1. UNCHANGED <<kind, class, family, pc, call, arrived, last, copies, peer>>
    BY <1>2 DEF Trouble, objectVars, callVars, historyVars
  <2>2. CASE sock.queue # <<>> /\ sock' = [sock EXCEPT !.queue = Tail(@)]
    <3> DEFINE q == Tail(sock.queue)
    <3>1. sock' = [sock EXCEPT !.queue = q]
      BY <2>2
    <3>2. Len(arrived) \in Nat
      BY <1>0
    <3>3. InOrder(q, last, Len(arrived)) /\ q \in Seq(Nat)
      BY <1>0, <2>2, <3>2, TailInOrder DEF Inv
    <3> HIDE DEF q
    <3>4. sock' \in Sockets /\ sock'.queue = q /\ Like(sock', sock)
      <4>1. /\ sock' \in Sockets /\ sock'.queue = q /\ sock'.open = sock.open
            /\ sock'.peer = sock.peer /\ sock'.bound = sock.bound /\ sock'.fam = sock.fam
        BY <1>0, <3>1, <3>3, QueueSet
      <4>2. sock.queue # <<>>
        BY <2>2
      <4>3. QED BY <4>1, <4>2 DEF Like
    <3>5. InOrder(sock'.queue, last, Len(arrived))
      BY <3>3, <3>4
    <3>6. QED BY <2>1, <3>4, <3>5, InvSocket
  <2>3. CASE sock' = [sock EXCEPT !.error = TRUE]
    BY <1>0, <2>1, <2>3, ErrorSet, InvSocket DEF Like, Inv
  <2>4. CASE UNCHANGED sock
    BY <2>1, <2>4, InvSame
  <2>5. QED BY <1>2, <2>2, <2>3, <2>4 DEF Trouble
<1>3. CASE Arrive
  <2>1. UNCHANGED <<kind, class, family, pc, call, last, copies, peer>>
    BY <1>3 DEF Arrive, objectVars, callVars
  <2>2. PICK a \in Addrs, size \in Sizes :
            /\ arrived' = Append(arrived, [from |-> a, size |-> size])
            /\ sock' = [sock EXCEPT !.queue = Append(sock.queue, Len(arrived) + 1)]
    BY <1>3 DEF Arrive
  <2> DEFINE n == Len(arrived)
             q == Append(sock.queue, n + 1)
  <2>3. [from |-> a, size |-> size] \in Datagrams
    BY DatagramInputs DEF Datagrams
  <2>4. arrived' \in Seq(Datagrams) /\ Len(arrived') = n + 1 /\ n \in Nat
    BY <1>0, <2>2, <2>3
  <2>5. q \in Seq(Nat) /\ Len(q) = Len(sock.queue) + 1 /\ q[Len(q)] = n + 1
    BY <1>0, <2>4
  <2>6. \A i \in 1..Len(q) : i = Len(q) \/ (i \in 1..Len(sock.queue) /\ q[i] = sock.queue[i])
    BY <1>0, <2>4
  <2>7. \A i \in 1..Len(sock.queue) : sock.queue[i] \in Nat
    BY <1>0
  <2>8. InOrder(q, last, n + 1)
    <3> HIDE DEF q
    <3>1. last <= n + 1
      BY <1>0, <2>4 DEF Inv, InOrder
    <3>2. \A i \in 1..Len(q) : last < q[i] /\ q[i] <= n + 1
      <4>1. \A i \in 1..Len(sock.queue) : last < sock.queue[i] /\ sock.queue[i] <= n
        BY DEF Inv, InOrder
      <4>2. last <= n
        BY DEF Inv, InOrder
      <4>3. last < n + 1
        BY <1>0, <2>4, <4>2
      <4> HIDE DEF n
      <4>4. TAKE i \in 1..Len(q)
      <4>5. CASE i = Len(q)
        BY <2>4, <2>5, <4>3, <4>5
      <4>6. CASE i # Len(q)
        BY <1>0, <2>4, <2>6, <2>7, <4>1, <4>6
      <4>7. QED BY <4>5, <4>6
    <3>3. \A i, j \in 1..Len(q) : i < j => q[i] < q[j]
      <4>1. TAKE i, j \in 1..Len(q)
      <4>2. HAVE i < j
      <4>3. Len(q) \in Nat
        BY <2>5
      <4>4. i \in 1..Len(sock.queue) /\ q[i] = sock.queue[i]
        BY <2>6, <4>2, <4>3
      <4>5. CASE j = Len(q)
        BY <2>4, <2>5, <2>7, <4>4, <4>5 DEF Inv, InOrder
      <4>6. CASE j # Len(q)
        BY <2>6, <4>2, <4>4, <4>6 DEF Inv, InOrder
      <4>7. QED BY <4>5, <4>6
    <3>4. QED BY <3>1, <3>2, <3>3 DEF InOrder
  <2>9. sock' \in Sockets /\ sock'.queue = q /\ sock'.open = sock.open /\ sock'.peer = sock.peer
        /\ sock'.bound = sock.bound
    <3> HIDE DEF q
    <3>1. sock' = [sock EXCEPT !.queue = q]
      BY <2>2 DEF q
    <3>2. QED BY <1>0, <2>5, <3>1, QueueSet
  <2>10. sock.bound # "no"
    BY <1>3 DEF Arrive
  <2> HIDE DEF q
  <2>11. TypeInv'
    BY <2>1, <2>4, <2>9 DEF Inv, TypeInv
  <2>12. SocketFits(kind', class', sock', family', peer')
    BY <2>1, <2>9, <2>10 DEF Inv, SocketFits
  <2>13. CallFits(kind', sock', family', pc', call', copies', peer')
    BY <2>1, <2>9 DEF Inv, CallFits
  <2>14. QED BY <2>4, <2>1, <2>8, <2>9, <2>11, <2>12, <2>13 DEF Inv
<1>4. QED BY <1>1, <1>2, <1>3 DEF Environment

-----------------------------------------------------------------------------
\* Objects, and the start of calls.

\* Without a call in progress the call fits.
LEMMA IdleFits ==
    ASSUME NEW k, NEW s, NEW f, NEW c, NEW n, NEW d
    PROVE  CallFits(k, s, f, "idle", c, n, d)
  BY DEF CallFits

\* A step that makes or drops the socket of an object without a peer, while no call is
\* in progress or one goes on to send.
LEMMA InvFresh ==
    ASSUME Inv, UNCHANGED <<kind, arrived, last, peer>>,
           sock' \in Sockets, sock'.peer = NoAddr, sock'.bound = "no", sock'.queue = <<>>,
           sock'.open \/ sock'.fam = "unspec",
           class' \in {"free", "unconnected", "connected"}, family' \in Families,
           pc' \in {"idle", "send"}, call' \in CallRecord, copies' \in Nat,
           pc' = "send" => copies' = 0 /\ call'.method # "send"
    PROVE  Inv'
<1>1. TypeInv'
  BY DEF Inv, TypeInv
<1>2. SocketFits(kind', class', sock', family', peer')
  BY DEF SocketFits
<1>3. InOrder(sock'.queue, last', Len(arrived'))
  <2>1. last \in Nat /\ Len(arrived) \in Nat /\ last <= Len(arrived)
    BY DEF Inv, TypeInv, InOrder
  <2>2. QED BY <2>1, EmptyInOrder
<1>4. CallFits(kind', sock', family', pc', call', copies', peer')
  BY DEF CallFits
<1>5. QED BY <1>1, <1>2, <1>3, <1>4 DEF Inv

\* A call that does not change the object starts, or fails at once.
LEMMA InvStarts ==
    ASSUME Inv, UNCHANGED <<kind, class, sock, family, arrived, last, peer>>,
           pc' \in {"idle", "send", "recv"}, call' \in CallRecord, copies' = 0,
           call'.method = "send" => call'.dest \in {NoAddr, peer}
    PROVE  Inv'
<1>1. TypeInv'
  BY DEF Inv, TypeInv
<1>2. CallFits(kind', sock', family', pc', call', copies', peer')
  BY DEF CallFits
<1>3. QED BY <1>1, <1>2 DEF Inv

\* The calls that are made.
LEMMA CallSends ==
    ASSUME NEW m \in Methods, NEW a \in Peers
    PROVE  /\ [NoCall EXCEPT !.method = m, !.dest = a] \in CallRecord
           /\ [NoCall EXCEPT !.method = m, !.dest = a].method = m
           /\ [NoCall EXCEPT !.method = m, !.dest = a].dest = a
<1>1. [NoCall EXCEPT !.method = m, !.dest = a] \in CallRecord
  BY NoCallTyped DEF CallRecord
<1>2. QED BY <1>1 DEF NoCall

\* The same of a receive.
LEMMA CallReceives ==
    ASSUME NEW m \in Methods, NEW n \in Nat
    PROVE  /\ [NoCall EXCEPT !.method = m, !.wanted = n] \in CallRecord
           /\ [NoCall EXCEPT !.method = m, !.wanted = n].method = m
<1>1. [NoCall EXCEPT !.method = m, !.wanted = n] \in CallRecord
  BY NoCallTyped DEF CallRecord
<1>2. QED BY <1>1 DEF NoCall

\* What getaddrinfo answers are network addresses.
LEMMA Resolved ==
    ASSUME NEW h \in Hosts
    PROVE  h \in Seq(NetAddrs) /\ h \in Seq(Addrs)
<1>1. h \in Seq(NetAddrs)
  BY DatagramHosts DEF NetAddrs
<1>2. NetAddrs \subseteq Addrs
  BY DEF NetAddrs
<1>3. QED BY <1>1, <1>2

\* A loop over the addresses starts, or there are none.
LEMMA InvTries ==
    ASSUME Inv, NEW m \in {"setpeername", "setsockname"}, NEW l \in Seq(Addrs), Tries(m, l),
           kind # "unix" => l \in Seq(NetAddrs),
           kind # "unix" /\ family # "unspec" => \A i \in 1..Len(l) : FamilyOf[l[i]] = family
    PROVE  Inv'
<1>1. UNCHANGED <<kind, class, sock, family, arrived, last, peer>> /\ copies' = 0
  BY DEF Tries, Starts, objectVars
<1>2. CASE l = <<>>
  <2>1. pc' = "idle" /\ call' = NoCall
    BY <1>2 DEF Tries, Return
  <2>2. QED BY <1>1, <2>1, NoCallTyped, InvStarts
<1>3. CASE l # <<>>
  <2> DEFINE c == [NoCall EXCEPT !.method = m, !.list = l, !.current = family]
  <2>1. pc' = "try" /\ call' = c
    BY <1>3 DEF Tries, Goes
  <2>2. m \in Methods /\ family \in Families
    BY DEF Methods, Inv, TypeInv
  <2>3. c \in CallRecord /\ c.list = l /\ c.current = family
    <3>1. c \in CallRecord
      BY <2>2, NoCallTyped DEF CallRecord
    <3>2. QED BY <3>1 DEF NoCall
  <2> HIDE DEF c
  <2>4. TypeInv'
    BY <1>1, <2>1, <2>3 DEF Inv, TypeInv
  <2>5. kind # "unix" /\ sock.bound = "bound" => family \in Nets
    BY DEF Inv, SocketFits
  <2>6. CallFits(kind', sock', family', pc', call', copies', peer')
    <3>1. kind # "unix" /\ sock.bound = "bound" =>
              \A i \in 1..Len(l) : FamilyOf[l[i]] = family
      BY <2>5 DEF Nets
    <3>2. CallFits(kind, sock, family, "try", c, 0, peer)
      BY <1>3, <2>3, <3>1 DEF CallFits
    <3>3. QED BY <1>1, <2>1, <3>2
  <2>7. QED BY <1>1, <2>4, <2>6 DEF Inv
<1>4. QED BY <1>2, <1>3

\* The program's calls.
LEMMA InvClient == ASSUME Inv, Client PROVE Inv'
<1>0. /\ sock \in Sockets /\ last \in Nat /\ peer \in Peers /\ NoAddr \in Peers /\ copies \in Nat
      /\ kind \in {"udp", "udp4", "udp6", "unix"} /\ family \in Families /\ call \in CallRecord
      /\ class \in {"free", "unconnected", "connected"}
  BY DEF Inv, TypeInv, Peers
<1>1. CASE udp_create \/ unixdgram_create
  <2>1. PICK s : Create(s) /\ s \in {NoSock, Created(KindFamily(kind), TRUE), Created("unix", TRUE)}
    BY <1>1 DEF udp_create, unixdgram_create
  <2>2. KindFamily(kind) \in Families /\ "unix" \in Families
    BY DEF KindFamily, Families, Nets
  <2>3. s \in Sockets /\ s.peer = NoAddr /\ s.bound = "no" /\ s.queue = <<>>
        /\ (s.open \/ s.fam = "unspec")
    BY <2>1, <2>2, NoSockTyped, CreatedTyped
  <2>4. /\ UNCHANGED <<kind, pc, call, copies, arrived, last, peer>>
        /\ class = "free" /\ class' = "unconnected" /\ family' = KindFamily(kind) /\ sock' = s
    BY <2>1 DEF Create, callVars, historyVars
  <2>5. TypeInv'
    BY <2>2, <2>3, <2>4 DEF Inv, TypeInv
  <2>6. SocketFits(kind', class', sock', family', peer')
    BY <2>3, <2>4 DEF SocketFits
  <2>7. Len(arrived) \in Nat /\ last <= Len(arrived)
    BY DEF Inv, TypeInv, InOrder
  <2>8. InOrder(sock'.queue, last', Len(arrived'))
    BY <1>0, <2>3, <2>4, <2>7, EmptyInOrder
  <2>9. CallFits(kind', sock', family', pc', call', copies', peer')
    BY <2>3, <2>4, <1>0 DEF Inv, CallFits
  <2>10. QED BY <2>5, <2>6, <2>8, <2>9 DEF Inv
<1>2. CASE meth_close
  <2>1. /\ UNCHANGED <<kind, class, family, pc, call, copies, arrived, last, peer>>
        /\ pc = "idle" /\ sock' = NoSock
    BY <1>2 DEF meth_close, Idle, objectVars, callVars, historyVars
  <2>2. QED BY <1>0, <2>1, NoSockTyped, InvFresh
<1>3. CASE \E value \in TimeoutValues : meth_settimeout(value, "b")
  <2>1. UNCHANGED <<kind, class, sock, family, pc, call, arrived, last, copies, peer>>
    BY <1>3 DEF meth_settimeout, callVars, historyVars
  <2>2. QED BY <2>1, InvSame
<1>4. CASE \E h \in Hosts : udp_meth_setpeername(h) \/ udp_meth_setsockname(h)
  <2>1. PICK h \in Hosts, m \in {"setpeername", "setsockname"} : Answers(h) /\ Tries(m, h)
    BY <1>4 DEF udp_meth_setpeername, udp_meth_setsockname
  <2>2. h \in Seq(Addrs) /\ h \in Seq(NetAddrs)
    BY Resolved
  <2>3. family # "unspec" => \A i \in 1..Len(h) : FamilyOf[h[i]] = family
    BY <2>1 DEF Answers
  <2>4. QED BY <2>1, <2>2, <2>3, InvTries
<1>5. CASE \E a \in Paths \cup {NoAddr} : unixdgram_meth_connect(a) \/ unixdgram_meth_bind(a)
  <2>1. PICK a \in Paths \cup {NoAddr}, m \in {"setpeername", "setsockname"} :
            kind = "unix" /\ Tries(m, Path(a))
    BY <1>5 DEF unixdgram_meth_connect, unixdgram_meth_bind
  <2>2. Path(a) \in Seq(Addrs)
    BY DEF Path, Paths
  <2>3. QED BY <2>1, <2>2, InvTries
<1>6. CASE meth_setpeername_star
  <2>1. /\ UNCHANGED <<kind, family, arrived, last, peer>> /\ kind # "unix" /\ copies' = 0
        /\ class' = "unconnected" /\ sock' = inet_trydisconnect(sock) /\ pc' = "idle" /\ call' = NoCall
    BY <1>6 DEF meth_setpeername_star, Starts, Return
  <2>2. /\ sock' \in Sockets /\ sock'.open = sock.open /\ sock'.queue = sock.queue
        /\ sock'.fam = sock.fam /\ sock'.peer = NoAddr /\ sock'.bound \in {"no", sock.bound}
    <3>1. CASE family \in {"inet", "inet6"} /\ sock.open
      <4> DEFINE b == IF sock.bound = "auto" THEN "no" ELSE sock.bound
      <4>1. b \in {"no", sock.bound} /\ b \in {"no", "auto", "bound"}
        BY <1>0 DEF Sockets
      <4>2. sock' = [sock EXCEPT !.peer = NoAddr, !.bound = b]
        BY <2>1, <3>1 DEF inet_trydisconnect
      <4> HIDE DEF b
      <4>3. QED BY <1>0, <4>1, <4>2 DEF Sockets
    <3>2. CASE ~(family \in {"inet", "inet6"} /\ sock.open)
      <4>1. sock' = sock
        BY <2>1, <3>2 DEF inet_trydisconnect
      <4>2. sock.peer = NoAddr
        BY <2>1, <3>2 DEF Inv, SocketFits, Nets
      <4>3. QED BY <1>0, <4>1, <4>2
    <3>3. QED BY <3>1, <3>2
  <2>3. TypeInv'
    BY <2>1, <2>2, NoCallTyped DEF Inv, TypeInv
  <2>4. SocketFits(kind', class', sock', family', peer')
    BY <2>1, <2>2 DEF Inv, SocketFits
  <2>5. QED BY <2>1, <2>2, <2>3, <2>4, IdleFits DEF Inv
<1>7. CASE udp_meth_send \/ unixdgram_meth_send
  <2>1. SendToPeer
    BY <1>7 DEF udp_meth_send, unixdgram_meth_send
  <2>2. UNCHANGED <<kind, class, sock, family, arrived, last, peer>> /\ copies' = 0 /\ class = "connected"
    BY <2>1 DEF SendToPeer, Starts, Sending
  <2>3. sock.peer \in Peers /\ sock.peer \in {NoAddr, peer}
    BY <1>0, <2>2 DEF Inv, SocketFits, Sockets
  <2> DEFINE c == [NoCall EXCEPT !.method = "send", !.dest = sock.peer]
  <2>4. pc' \in {"idle", "send"} /\ (call' = NoCall \/ call' = c)
    BY <2>1 DEF SendToPeer, Send, Goes, Return
  <2>5. call' \in CallRecord /\ (call'.method = "send" => call'.dest = sock.peer)
    <3>1. c \in CallRecord /\ c.dest = sock.peer
      BY <2>3, CallSends DEF Methods
    <3> HIDE DEF c
    <3>2. QED BY <2>4, <3>1, NoCallTyped
  <2>6. QED BY <2>2, <2>3, <2>4, <2>5, InvStarts
<1>8. CASE \E a \in Paths \cup {NoAddr} : unixdgram_meth_sendto(a)
  <2>1. PICK a \in Paths \cup {NoAddr} : unixdgram_meth_sendto(a)
    BY <1>8
  <2>2. UNCHANGED <<kind, class, sock, family, arrived, last, peer>> /\ copies' = 0
    BY <2>1 DEF unixdgram_meth_sendto, Starts, Sending
  <2> DEFINE c == [NoCall EXCEPT !.method = "sendto", !.dest = a]
  <2>3. pc' \in {"idle", "send"} /\ (call' = NoCall \/ call' = c)
    BY <2>1 DEF unixdgram_meth_sendto, Send, Goes, Return
  <2>4. a \in Peers /\ "sendto" \in Methods
    BY DEF Peers, Paths, Methods
  <2>5. call' \in CallRecord /\ call'.method # "send"
    <3>1. c \in CallRecord /\ c.method = "sendto"
      BY <2>4, CallSends
    <3> HIDE DEF c
    <3>2. QED BY <2>3, <3>1, NoCallTyped
  <2>6. QED BY <2>2, <2>3, <2>5, InvStarts
<1>9. CASE \E a \in Addrs \ Paths : udp_meth_sendto(a)
  <2>1. PICK a \in Addrs \ Paths : udp_meth_sendto(a)
    BY <1>9
  <2>2. UNCHANGED <<kind, class, arrived, last, peer>> /\ copies' = 0 /\ class = "unconnected"
    BY <2>1 DEF udp_meth_sendto, Starts, Sending
  <2> DEFINE c == [NoCall EXCEPT !.method = "sendto", !.dest = a]
  <2>3. a \in Peers /\ FamilyOf[a] \in Families
    BY DatagramAddrs DEF Peers, Families, Nets
  <2>4. c \in CallRecord /\ c.method = "sendto" /\ NoCall \in CallRecord
    BY <2>3, NoCallTyped, CallSends DEF Methods
  <2> HIDE DEF c
  <2>5. \/ UNCHANGED <<family, sock>> /\ pc' = "idle" /\ call' = NoCall
        \/ UNCHANGED <<family, sock>> /\ pc' = "send" /\ call' = c
        \/ /\ sock' = Created(FamilyOf[a], TRUE) /\ family' = FamilyOf[a]
           /\ pc' = "send" /\ call' = c
    BY <2>1 DEF udp_meth_sendto, Send, Goes, Return, c
  <2>6. CASE UNCHANGED <<family, sock>>
    BY <2>2, <2>4, <2>5, <2>6, NoCallTyped, InvStarts
  <2>7. CASE /\ sock' = Created(FamilyOf[a], TRUE) /\ family' = FamilyOf[a]
             /\ pc' = "send" /\ call' = c
    BY <1>0, <2>2, <2>3, <2>4, <2>7, CreatedTyped, InvFresh
  <2>8. QED BY <2>5, <2>6, <2>7
<1>10. CASE \E n \in Wanted : \/ udp_meth_receive(n) \/ udp_meth_receivefrom(n)
                               \/ unixdgram_meth_receive(n) \/ unixdgram_meth_receivefrom(n)
  <2>1. PICK n \in Wanted, m \in {"receive", "receivefrom"},
              S \in {NoSender, {<<"error", NoAddr>>} \cup ({"done"} \X Addrs)} : Receive(m, n, S)
    BY <1>10 DEF udp_meth_receive, udp_meth_receivefrom, unixdgram_meth_receive, unixdgram_meth_receivefrom
  <2>2. UNCHANGED <<kind, class, sock, family, arrived, last, peer>> /\ copies' = 0
    BY <2>1 DEF Receive
  <2> DEFINE c == [NoCall EXCEPT !.method = m, !.wanted = n]
  <2>3. pc' \in {"idle", "recv"} /\ (call' = NoCall \/ call' = c)
    BY <2>1 DEF Receive, Goes, Return
  <2>4. m \in Methods /\ n \in Nat /\ m # "send"
    BY DatagramInputs DEF Methods
  <2>5. call' \in CallRecord /\ call'.method # "send"
    <3>1. c \in CallRecord /\ c.method = m
      BY <2>4, CallReceives
    <3> HIDE DEF c
    <3>2. QED BY <2>3, <2>4, <3>1, NoCallTyped
  <2>6. QED BY <2>2, <2>3, <2>5, InvStarts
<1>11. QED
  BY <1>1, <1>2, <1>3, <1>4, <1>5, <1>6, <1>7, <1>8, <1>9, <1>10 DEF Client

-----------------------------------------------------------------------------
\* The loops over addresses.

\* The head and the tail of the addresses to try.
LEMMA Addresses ==
    ASSUME Inv, pc = "try"
    PROVE  /\ call.list \in Seq(Addrs) /\ call.list # <<>>
           /\ Head(call.list) \in Addrs /\ Tail(call.list) \in Seq(Addrs)
           /\ FamilyOf[Head(call.list)] \in {"inet", "inet6", "unix"}
           /\ Len(call.list) = 1 \/ Tail(call.list) # <<>>
           /\ kind # "unix" => /\ FamilyOf[Head(call.list)] \in Nets
                              /\ Tail(call.list) \in Seq(NetAddrs)
           /\ kind # "unix" /\ sock.bound = "bound" =>
                  /\ FamilyOf[Head(call.list)] = family /\ call.current = family
                  /\ \A i \in 1..Len(Tail(call.list)) : FamilyOf[Tail(call.list)[i]] = family
<1> DEFINE l == call.list
           t == Tail(l)
<1>1. l \in Seq(Addrs) /\ l # <<>> /\ (kind # "unix" => l \in Seq(NetAddrs))
      /\ (kind # "unix" /\ sock.bound = "bound" =>
              call.current = family /\ \A i \in 1..Len(l) : FamilyOf[l[i]] = family)
  BY DEF Inv, TypeInv, CallRecord, CallFits
<1> HIDE DEF l
<1>2. /\ Len(l) \in Nat \ {0} /\ 1 \in 1..Len(l) /\ Head(l) = l[1] /\ l[1] \in Addrs
      /\ t \in Seq(Addrs) /\ Len(t) = Len(l) - 1 /\ (Len(l) = 1 \/ t # <<>>)
  <2>1. Len(l) \in Nat \ {0} /\ Head(l) = l[1]
    BY <1>1
  <2>2. 1 \in 1..Len(l) /\ l[1] \in Addrs
    BY <1>1, <2>1
  <2>3. t \in Seq(Addrs) /\ Len(t) = Len(l) - 1
    BY <1>1
  <2>4. Len(l) = 1 \/ t # <<>>
    BY <2>1, <2>3
  <2>5. QED BY <2>1, <2>2, <2>3, <2>4
<1>3. \A i \in 1..Len(t) : t[i] = l[i+1] /\ i + 1 \in 1..Len(l)
  BY <1>1, <1>2
<1>4. kind # "unix" => Head(l) \in NetAddrs /\ t \in Seq(NetAddrs)
  BY <1>1, <1>2
<1>5. FamilyOf[Head(l)] \in {"inet", "inet6", "unix"}
  BY <1>2, DatagramAddrs
<1>6. kind # "unix" => FamilyOf[Head(l)] \in Nets
  BY <1>4, <1>5 DEF NetAddrs, Nets
<1>7. kind # "unix" /\ sock.bound = "bound" =>
          /\ FamilyOf[Head(l)] = family /\ call.current = family
          /\ \A i \in 1..Len(t) : FamilyOf[t[i]] = family
  BY <1>1, <1>2, <1>3
<1> HIDE DEF t
<1>8. QED BY <1>1, <1>2, <1>4, <1>5, <1>6, <1>7 DEF l, t

\* An address of a network is tried with outcome e, or no socket can be made for it, and
\* the socket is s afterwards; f is the family the object gets if the loop ends with it.
LEMMA InvAnswer ==
    ASSUME Inv, pc = "try", kind # "unix", NEW e, NEW s \in Sockets, NEW f \in Families,
           Answer(e, s, f) \/ (e = "error" /\ Continue(s, f)), UNCHANGED <<kind, arrived, copies, last>>,
           peer' \in Peers, class' \in {"free", "unconnected", "connected"},
           InOrder(s.queue, last, Len(arrived)),
           SocketFits(kind, class', s, f, peer'),
           e # "done" => SocketFits(kind, class', s, family, peer'),
           e # "done" /\ s.bound = "bound" => sock.bound = "bound" /\ f = family
    PROVE  Inv'
<1>0. call \in CallRecord /\ family \in Families
  BY DEF Inv, TypeInv
<1>1. sock' = s /\ family' \in {f, family} /\ (e = "done" => family' = f)
  BY DEF Answer, Continue
<1>2. SocketFits(kind', class', sock', family', peer')
  BY <1>1
<1> DEFINE l == Tail(call.list)
           c == [call EXCEPT !.list = l, !.current = f]
<1>3. \/ pc' = "idle" /\ call' = NoCall
      \/ /\ pc' = "try" /\ call' = c /\ family' = family
         /\ Len(call.list) # 1 /\ e # "done"
  BY DEF Answer, Continue, Return, Goes
<1>4. l \in Seq(Addrs) /\ l \in Seq(NetAddrs) /\ (Len(call.list) # 1 => l # <<>>)
      /\ (sock.bound = "bound" => \A i \in 1..Len(l) : FamilyOf[l[i]] = family)
  BY Addresses
<1>5. c \in CallRecord /\ c.list = l /\ c.current = f
  BY <1>0, <1>4 DEF CallRecord
<1> HIDE DEF c, l
<1>6. call' \in CallRecord /\ pc' \in {"idle", "try"}
  BY <1>3, <1>5, NoCallTyped
<1>7. TypeInv'
  BY <1>0, <1>1, <1>6 DEF Inv, TypeInv
<1>8. CallFits(kind', sock', family', pc', call', copies', peer')
  <2>1. CASE pc' = "idle"
    BY <2>1, IdleFits
  <2>2. CASE pc' = "try" /\ call' = c /\ family' = family /\ Len(call.list) # 1 /\ e # "done"
    <3>1. copies' = 0
      BY DEF Inv, CallFits
    <3>2. CallFits(kind, s, family, "try", c, 0, peer')
      BY <1>4, <1>5, <2>2 DEF CallFits
    <3>3. QED BY <1>1, <2>2, <3>1, <3>2
  <2>3. QED BY <1>3, <2>1, <2>2
<1>9. QED BY <1>1, <1>2, <1>7, <1>8 DEF Inv

\* The socket an address is tried with: the one there was, if it suits, or a new one.
LEMMA SocketTried ==
    ASSUME Inv, pc = "try", kind # "unix", NEW a, a = Head(call.list)
    PROVE  /\ SocketFor(a) \in Sockets /\ SocketFor(a).open /\ FamilyOf[a] \in Nets
           /\ InOrder(SocketFor(a).queue, last, Len(arrived))
           /\ \/ SocketFor(a) = sock
              \/ SocketFor(a).peer = NoAddr /\ SocketFor(a).bound = "no"
           /\ SocketFor(a).bound = "bound" => sock.bound = "bound" /\ FamilyOf[a] = family
           /\ sock.bound = "bound" => Suits(a)
<1>1. FamilyOf[a] \in Nets /\ (sock.bound = "bound" => FamilyOf[a] = family /\ call.current = family)
  BY Addresses
<1>2. sock \in Sockets /\ InOrder(sock.queue, last, Len(arrived))
      /\ last \in Nat /\ Len(arrived) \in Nat /\ last <= Len(arrived)
  BY DEF Inv, TypeInv, InOrder
<1>3. sock.bound = "bound" => Suits(a)
  BY <1>1 DEF Inv, SocketFits, Suits
<1>4. CASE Suits(a)
  <2>1. SocketFor(a) = sock /\ sock.open
    BY <1>4 DEF SocketFor, Suits
  <2>2. QED BY <1>1, <1>2, <1>3, <2>1
<1>5. CASE ~Suits(a)
  <2>1. SocketFor(a) = Created(FamilyOf[a], TRUE) /\ FamilyOf[a] \in Families
    BY <1>1, <1>5 DEF SocketFor, Families
  <2>2. QED BY <1>1, <1>2, <1>3, <2>1, CreatedTyped, EmptyInOrder
<1>6. QED BY <1>4, <1>5

\* An address of a network that is refused.
LEMMA InvRefused ==
    ASSUME Inv, pc = "try", kind # "unix", Refused(Head(call.list)),
           UNCHANGED <<kind, arrived, copies, last>>
    PROVE  Inv'
<1> DEFINE a == Head(call.list)
<1>0. UNCHANGED <<class, peer>> /\ peer \in Peers /\ class \in {"free", "unconnected", "connected"}
      /\ call.current \in Families /\ last \in Nat /\ Len(arrived) \in Nat /\ last <= Len(arrived)
  BY DEF Refused, Inv, TypeInv, InOrder, CallRecord
<1>1. CASE Continue(NoSock, call.current)
  <2>1. \A f \in Families : SocketFits(kind, class', NoSock, f, peer')
    BY NoSockTyped DEF SocketFits
  <2>2. InOrder(NoSock.queue, last, Len(arrived)) /\ family \in Families
    BY <1>0, NoSockTyped, EmptyInOrder DEF Inv, TypeInv
  <2>3. QED BY <1>0, <1>1, <2>1, <2>2, NoSockTyped, InvAnswer
<1>2. CASE Answer("error", SocketFor(a), FamilyOf[a])
  <2> DEFINE s == SocketFor(a)
             f == FamilyOf[a]
  <2>1. /\ s \in Sockets /\ s.open /\ f \in Nets /\ f \in Families
        /\ InOrder(s.queue, last, Len(arrived))
        /\ s = sock \/ (s.peer = NoAddr /\ s.bound = "no")
        /\ s.bound = "bound" => sock.bound = "bound" /\ f = family
    BY SocketTried DEF Families
  <2> HIDE DEF s, f
  <2>2. SocketFits(kind, class', s, family, peer')
    BY <1>0, <2>1 DEF Inv, SocketFits
  <2>3. SocketFits(kind, class', s, f, peer')
    BY <2>1, <2>2 DEF SocketFits
  <2>4. Answer("error", s, f)
    BY <1>2 DEF s, f
  <2>5. QED BY <1>0, <2>1, <2>2, <2>3, <2>4, InvAnswer
<1>3. QED BY <1>1, <1>2 DEF Refused

\* An address that is connected to.
LEMMA ConnectedTyped ==
    ASSUME NEW s \in Sockets, NEW a \in Addrs, kind # "unix"
    PROVE  /\ Connected(s, a) \in Sockets /\ Connected(s, a).peer = a
           /\ Connected(s, a).open = s.open /\ Connected(s, a).queue = s.queue
           /\ Connected(s, a).bound = "bound" <=> s.bound = "bound"
           /\ Connected(s, a).bound # "no"
<1> DEFINE b == IF s.bound = "no" THEN "auto" ELSE s.bound
<1>1. b \in {"auto", "bound"} /\ (b = "bound" <=> s.bound = "bound")
  BY DEF Sockets
<1>2. a \in Peers /\ s.queue \in Seq(Nat)
  BY DEF Peers, Sockets
<1> DEFINE q == s.queue
<1>3. Connected(s, a) = [s EXCEPT !.peer = a, !.bound = b, !.queue = q]
  BY DEF Connected
<1> HIDE DEF b, q
<1>4. /\ [s EXCEPT !.peer = a, !.bound = b, !.queue = q] \in Sockets
      /\ [s EXCEPT !.peer = a, !.bound = b, !.queue = q].peer = a
      /\ [s EXCEPT !.peer = a, !.bound = b, !.queue = q].bound = b
      /\ [s EXCEPT !.peer = a, !.bound = b, !.queue = q].open = s.open
      /\ [s EXCEPT !.peer = a, !.bound = b, !.queue = q].queue = q
  BY <1>1, <1>2 DEF Sockets, q
<1>5. QED BY <1>1, <1>3, <1>4 DEF q

\* The same of a unix socket, which may lose its queue.
LEMMA UnixConnectedTyped ==
    ASSUME NEW s \in Sockets, NEW a \in Addrs, kind = "unix"
    PROVE  /\ Connected(s, a) \in Sockets /\ Connected(s, a).peer = a
           /\ Connected(s, a).open = s.open
           /\ Connected(s, a).queue = s.queue \/ Connected(s, a).queue = <<>>
<1> DEFINE q == IF s.peer \notin {NoAddr, a} THEN <<>> ELSE s.queue
<1>1. q \in Seq(Nat) /\ (q = s.queue \/ q = <<>>)
  BY DEF Sockets
<1>2. a \in Peers /\ s.bound \in {"no", "auto", "bound"}
  BY DEF Peers, Sockets
<1>3. Connected(s, a) = [s EXCEPT !.peer = a, !.bound = s.bound, !.queue = q]
  BY DEF Connected
<1> HIDE DEF q
<1>4. QED BY <1>1, <1>2, <1>3 DEF Sockets

\* inet_tryconnect and inet_trybind.
LEMMA InvInet == ASSUME Inv, inet_tryconnect \/ inet_trybind PROVE Inv'
<1> DEFINE a == Head(call.list)
           s == SocketFor(a)
           f == FamilyOf[a]
<1>0. /\ pc = "try" /\ kind # "unix" /\ UNCHANGED <<kind, arrived, copies, last>>
      /\ peer \in Peers /\ class \in {"free", "unconnected", "connected"}
  BY DEF inet_tryconnect, inet_trybind, Attempt, Inv, TypeInv
<1>1. /\ s \in Sockets /\ s.open /\ f \in Nets /\ f \in Families /\ a \in Addrs
      /\ InOrder(s.queue, last, Len(arrived))
      /\ s = sock \/ (s.peer = NoAddr /\ s.bound = "no")
  BY <1>0, SocketTried, Addresses DEF Families
<1>2. CASE Refused(a)
  BY <1>0, <1>2, InvRefused
<1>3. CASE /\ Answer("done", Connected(s, a), f)
           /\ class' = "connected" /\ peer' = a
  <2> HIDE DEF s, f, a
  <2> DEFINE c == Connected(s, a)
  <2>1. /\ c \in Sockets /\ c.peer = a /\ c.open /\ c.queue = s.queue
    BY <1>0, <1>1, ConnectedTyped
  <2>2. a \in Peers
    BY <1>1 DEF Peers
  <2>3. Answer("done", c, f)
    BY <1>3
  <2> HIDE DEF c
  <2>4. SocketFits(kind, class', c, f, peer')
    BY <1>1, <1>3, <2>1 DEF SocketFits
  <2>5. InOrder(c.queue, last, Len(arrived))
    BY <1>1, <2>1
  <2>6. QED BY <1>0, <1>1, <1>3, <2>1, <2>2, <2>3, <2>4, <2>5, InvAnswer
<1>4. CASE /\ Answer("done", [s EXCEPT !.bound = "bound"], f)
           /\ UNCHANGED <<class, peer>>
  <2> HIDE DEF s, f, a
  <2> DEFINE b == [s EXCEPT !.bound = "bound"]
  <2>1. b \in Sockets /\ b.peer = s.peer /\ b.open /\ b.queue = s.queue
    BY <1>1 DEF Sockets
  <2>2. Answer("done", b, f)
    BY <1>4
  <2> HIDE DEF b
  <2>3. SocketFits(kind, class', b, f, peer')
    BY <1>1, <1>4, <2>1 DEF Inv, SocketFits
  <2>4. InOrder(b.queue, last, Len(arrived))
    BY <1>1, <2>1
  <2>5. QED BY <1>0, <1>1, <1>4, <2>1, <2>2, <2>3, <2>4, InvAnswer
<1>5. QED
  BY <1>2, <1>3, <1>4 DEF inet_tryconnect, inet_trybind

\* unixdgram_tryconnect and unixdgram_trybind.
LEMMA InvUnix == ASSUME Inv, unixdgram_tryconnect \/ unixdgram_trybind PROVE Inv'
<1> DEFINE a == Head(call.list)
<1>0. /\ pc = "try" /\ kind = "unix" /\ UNCHANGED <<kind, family, arrived, copies, last>>
      /\ peer \in Peers /\ class \in {"free", "unconnected", "connected"} /\ sock \in Sockets
      /\ last \in Nat /\ Len(arrived) \in Nat /\ last <= Len(arrived) /\ NoCall \in CallRecord
      /\ family \in Families /\ copies \in Nat
  BY NoCallTyped DEF unixdgram_tryconnect, unixdgram_trybind, Attempt, Inv, TypeInv, InOrder
<1>1. CASE Destroyed
  <2>1. sock' = NoSock /\ pc' = "idle" /\ call' = NoCall /\ UNCHANGED <<class, peer>>
    BY <1>1 DEF Destroyed, Return
  <2>2. QED BY <1>0, <2>1, NoSockTyped, InvFresh
<1>2. CASE /\ sock.open /\ sock' = Connected(sock, a) /\ class' = "connected" /\ peer' = a
           /\ Return("done")
  <2>1. a \in Addrs /\ a \in Peers
    BY <1>0, Addresses DEF Peers
  <2>2. /\ sock' \in Sockets /\ sock'.peer = a /\ sock'.open
        /\ sock'.queue = sock.queue \/ sock'.queue = <<>>
    BY <1>0, <1>2, <2>1, UnixConnectedTyped
  <2>3. pc' = "idle" /\ call' = NoCall
    BY <1>2 DEF Return
  <2> HIDE DEF a
  <2>4. TypeInv'
    BY <1>0, <1>2, <2>1, <2>2, <2>3 DEF Inv, TypeInv
  <2>5. SocketFits(kind', class', sock', family', peer')
    BY <1>0, <1>2, <2>2 DEF SocketFits
  <2>6. InOrder(sock'.queue, last', Len(arrived'))
    BY <1>0, <2>2, EmptyInOrder DEF Inv
  <2>7. QED BY <2>3, <2>4, <2>5, <2>6, IdleFits DEF Inv
<1>3. CASE /\ sock.open /\ sock' = [sock EXCEPT !.bound = "bound"] /\ UNCHANGED <<class, peer>>
           /\ Return("done")
  <2>1. /\ sock' \in Sockets /\ sock'.peer = sock.peer /\ sock'.open /\ sock'.queue = sock.queue
    BY <1>0, <1>3 DEF Sockets
  <2>2. pc' = "idle" /\ call' = NoCall
    BY <1>3 DEF Return
  <2>3. TypeInv'
    BY <1>0, <1>3, <2>1, <2>2 DEF Inv, TypeInv
  <2>4. SocketFits(kind', class', sock', family', peer')
    BY <1>0, <1>3, <2>1 DEF Inv, SocketFits
  <2>5. InOrder(sock'.queue, last', Len(arrived'))
    BY <1>0, <2>1 DEF Inv
  <2>6. QED BY <2>2, <2>3, <2>4, <2>5, IdleFits DEF Inv
<1>4. QED
  BY <1>1, <1>2, <1>3 DEF unixdgram_tryconnect, unixdgram_trybind

-----------------------------------------------------------------------------
\* The system calls.

\* A system call of a send: the socket may get a local address, and its error is taken.
LEMMA UsedTyped ==
    ASSUME NEW s \in Sockets, NEW b \in {"auto", "bound", "no"}
    PROVE  /\ [s EXCEPT !.bound = b, !.used = TRUE] \in Sockets
           /\ [s EXCEPT !.bound = b, !.used = TRUE].bound = b
           /\ [s EXCEPT !.bound = b, !.used = TRUE].open = s.open
           /\ [s EXCEPT !.bound = b, !.used = TRUE].peer = s.peer
           /\ [s EXCEPT !.bound = b, !.used = TRUE].queue = s.queue
  BY DEF Sockets

\* A call that ends without a change of the object but in the error of its socket.
LEMMA InvReturns ==
    ASSUME Inv, UNCHANGED <<kind, class, family, arrived, last, peer, copies>>,
           pc' = "idle", call' = NoCall,
           sock' = sock \/ sock' = [sock EXCEPT !.error = FALSE]
    PROVE  Inv'
<1>1. sock \in Sockets
  BY DEF Inv, TypeInv
<1>2. sock' \in Sockets /\ Like(sock', sock) /\ sock'.queue = sock.queue
  BY <1>1, ErrorSet DEF Like
<1>3. TypeInv'
  BY <1>2, NoCallTyped DEF Inv, TypeInv
<1>4. SocketFits(kind', class', sock', family', peer')
  BY <1>2, LikeFits DEF Inv
<1>5. QED BY <1>2, <1>3, <1>4, IdleFits DEF Inv

\* A call that goes on to sleep, or wakes up.
LEMMA InvWaits ==
    ASSUME Inv, UNCHANGED <<kind, class, sock, family, call, arrived, last, peer, copies>>,
           pc \in {"send", "recv", "wait"},
           pc' \in {"send", "recv", "wait"}
    PROVE  Inv'
<1>1. TypeInv'
  BY DEF Inv, TypeInv
<1>2. CallFits(kind', sock', family', pc', call', copies', peer')
  BY DEF Inv, CallFits
<1>3. QED BY <1>1, <1>2 DEF Inv

\* A step of a call.
LEMMA InvCall == ASSUME Inv, Call PROVE Inv'
<1>0. /\ sock \in Sockets /\ sock.queue \in Seq(Nat) /\ last \in Nat /\ Len(arrived) \in Nat
      /\ copies \in Nat
  BY DEF Inv, TypeInv, Sockets
<1>1. CASE inet_tryconnect \/ inet_trybind
  BY <1>1, InvInet
<1>2. CASE unixdgram_tryconnect \/ unixdgram_trybind
  BY <1>2, InvUnix
<1>3. CASE SendTaken
  <2> DEFINE b == IF sock.bound = "no" /\ kind # "unix" THEN "auto" ELSE sock.bound
  <2>1. /\ UNCHANGED <<kind, class, family, arrived, last, peer>> /\ copies' = copies + 1
        /\ pc' = "idle" /\ call' = NoCall
        /\ sock' = [sock EXCEPT !.bound = b, !.used = TRUE]
    BY <1>3 DEF SendTaken, Return, objectVars
  <2>2. b \in {"auto", "bound", "no"} /\ (b = "bound" <=> sock.bound = "bound")
        /\ (sock.bound # "no" => b = sock.bound)
    BY <1>0 DEF Sockets
  <2>4. /\ sock' \in Sockets /\ sock'.bound = b /\ sock'.open = sock.open /\ sock'.peer = sock.peer
        /\ sock'.queue = sock.queue
    <3> HIDE DEF b
    <3>1. QED BY <1>0, <2>1, <2>2, UsedTyped
  <2> HIDE DEF b
  <2>5. sock.open
    <3>1. Reachable /\ call.dest \in Addrs \cup {NoAddr}
      BY <1>3 DEF SendTaken, Inv, TypeInv, CallRecord, Peers
    <3>2. sock.fam \in {"inet", "inet6", "unix"}
      BY <3>1, DatagramAddrs DEF Reachable
    <3>3. QED BY <3>2 DEF Inv, SocketFits
  <2>6. TypeInv'
    BY <1>0, <2>1, <2>4, NoCallTyped DEF Inv, TypeInv
  <2>7. SocketFits(kind', class', sock', family', peer')
    BY <2>1, <2>2, <2>4, <2>5 DEF Inv, SocketFits
  <2>8. QED BY <2>1, <2>4, <2>6, <2>7, IdleFits DEF Inv
<1>4. CASE SendFails \/ RecvFails
  <2>1. /\ UNCHANGED <<kind, class, family, arrived, last, peer, copies>>
        /\ pc' = "idle" /\ call' = NoCall /\ sock' = [sock EXCEPT !.error = FALSE]
    BY <1>4 DEF SendFails, RecvFails, Return, objectVars, historyVars
  <2>2. QED BY <2>1, InvReturns
<1>5. CASE SendWouldBlock \/ RecvWouldBlock
  <2>1. /\ UNCHANGED <<kind, class, sock, family, arrived, last, peer, copies>> /\ pc \in {"send", "recv"}
        /\ (pc' = "idle" /\ call' = NoCall) \/ (pc' = "wait" /\ UNCHANGED call)
    BY <1>5 DEF SendWouldBlock, RecvWouldBlock, WouldBlock, Return, objectVars, historyVars
  <2>2. QED BY <2>1, InvReturns, InvWaits
<1>6. CASE RecvTakes
  <2>1. /\ UNCHANGED <<kind, class, family, arrived, peer, copies>> /\ sock.queue # <<>>
        /\ pc' = "idle" /\ call' = NoCall /\ last' = Head(sock.queue)
    BY <1>6 DEF RecvTakes, Return, objectVars
  <2> DEFINE q == Tail(sock.queue)
  <2>2. sock' = [sock EXCEPT !.queue = q]
    BY <1>6 DEF RecvTakes
  <2>3. q \in Seq(Nat) /\ InOrder(q, last', Len(arrived)) /\ last' \in Nat
    BY <1>0, <2>1, TailInOrder DEF Inv
  <2> HIDE DEF q
  <2>4. /\ sock' \in Sockets /\ sock'.queue = q /\ sock'.open = sock.open
        /\ sock'.peer = sock.peer /\ sock'.bound = sock.bound /\ sock'.fam = sock.fam
    BY <1>0, <2>2, <2>3, QueueSet
  <2>5. TypeInv'
    BY <2>1, <2>3, <2>4, NoCallTyped DEF Inv, TypeInv
  <2>6. SocketFits(kind', class', sock', family', peer')
    BY <2>1, <2>4 DEF Inv, SocketFits
  <2>7. QED BY <2>1, <2>3, <2>4, <2>5, <2>6, IdleFits DEF Inv
<1>7. CASE WaitReady \/ Interrupted
  <2>1. /\ UNCHANGED <<kind, class, sock, family, call, arrived, last, peer, copies>> /\ pc = "wait"
        /\ pc' \in {"send", "recv", "wait"}
    BY <1>7 DEF WaitReady, Interrupted, objectVars, historyVars
  <2>2. QED BY <2>1, InvWaits
<1>8. CASE WaitFails
  <2>1. /\ UNCHANGED <<kind, class, sock, family, arrived, last, peer, copies>>
        /\ pc' = "idle" /\ call' = NoCall
    BY <1>8 DEF WaitFails, Return, objectVars, historyVars
  <2>2. QED BY <2>1, InvReturns
<1>9. QED BY <1>1, <1>2, <1>3, <1>4, <1>5, <1>6, <1>7, <1>8 DEF Call

-----------------------------------------------------------------------------
\* The inductive invariant of datagram objects: a socket that is bound or has a peer is
\* of the object's family, its queue is in order, and the call in progress fits it.
THEOREM Invariance == Spec => []Inv
<1>1. ASSUME Inv, [Next]_vars PROVE Inv'
  <2>1. CASE Next
    BY <1>1, <2>1, InvClient, InvCall, InvEnvironment DEF Next
  <2>2. CASE UNCHANGED vars
    <3>1. UNCHANGED <<kind, class, sock, family, pc, call, arrived, last, copies, peer>>
      BY <2>2 DEF vars, objectVars, callVars, historyVars
    <3>2. QED BY <1>1, <3>1, InvSame
  <2>3. QED BY <1>1, <2>1, <2>2
<1>2. QED BY <1>1, InvInit, PTL DEF Spec

\* Only the steps of a call end one.
LEMMA OthersStay == ASSUME Client \/ Environment, pc # "idle" PROVE pc' = pc /\ call' = call
<1>1. CASE Environment
  BY <1>1 DEF Environment, Tick, Arrive, Trouble, Drain, callVars
<1>2. CASE Client
  <2>1. CASE udp_create \/ unixdgram_create
    BY <2>1 DEF udp_create, unixdgram_create, Create, callVars
  <2>2. CASE ~(udp_create \/ unixdgram_create)
    <3>1. Idle
      BY <1>2, <2>2 DEF Client, meth_close, meth_settimeout, udp_meth_setpeername, udp_meth_setsockname,
         unixdgram_meth_connect, unixdgram_meth_bind, unixdgram_meth_sendto, meth_setpeername_star,
         udp_meth_send, unixdgram_meth_send, udp_meth_sendto, udp_meth_receive, udp_meth_receivefrom,
         unixdgram_meth_receive, unixdgram_meth_receivefrom, Tries, Receive, SendToPeer, Starts
    <3>2. QED BY <3>1 DEF Idle
  <2>3. QED BY <2>1, <2>2
<1>3. QED BY <1>1, <1>2

\* What a step of a call that ends one is.
LEMMA CallEnds ==
    ASSUME Call, pc # "idle", pc' = "idle"
    PROVE  \/ pc = "try" /\ (inet_tryconnect \/ inet_trybind \/ unixdgram_tryconnect \/ unixdgram_trybind)
           \/ pc = "send" /\ (SendTaken \/ SendFails \/ SendWouldBlock)
           \/ pc = "recv" /\ (RecvTakes \/ RecvFails \/ RecvWouldBlock)
           \/ pc = "wait" /\ WaitFails
<1>1. CASE inet_tryconnect \/ inet_trybind \/ unixdgram_tryconnect \/ unixdgram_trybind
  BY <1>1 DEF inet_tryconnect, inet_trybind, unixdgram_tryconnect, unixdgram_trybind
<1>2. CASE SendTaken \/ SendFails \/ SendWouldBlock
  BY <1>2 DEF SendTaken, SendFails, SendWouldBlock
<1>3. CASE RecvTakes \/ RecvFails \/ RecvWouldBlock
  BY <1>3 DEF RecvTakes, RecvFails, RecvWouldBlock
<1>4. CASE WaitReady \/ Interrupted
  BY <1>4 DEF WaitReady, Interrupted
<1>5. CASE WaitFails
  BY <1>5 DEF WaitFails
<1>6. QED BY <1>1, <1>2, <1>3, <1>4, <1>5 DEF Call

\* A send that says its datagram went out has sent it once, to the peer that was set if
\* the object is connected; any other has sent nothing; and an object that is not
\* connected has no peer (udp.c, unixdgram.c: send, sendto, setpeername; inet.c:
\* inet_trydisconnect), whatever the addresses, families and faults.
THEOREM SentCorrect == Spec => SentExact
<1>1. ASSUME Inv, Inv', [Next]_vars
      PROVE  [/\ Finishes("send") \/ (Finishes("wait") /\ Sends) =>
                   /\ copies' = IF err' = "done" THEN 1 ELSE 0
                   /\ err' = "done" /\ call.method = "send" => call.dest = peer
              /\ class' = "unconnected" => sock'.peer = NoAddr]_vars
  <2>1. CASE UNCHANGED vars
    BY <2>1
  <2>2. class' = "unconnected" => sock'.peer = NoAddr
    BY <1>1 DEF Inv, SocketFits
  <2>3. ASSUME Next, Finishes("send") \/ (Finishes("wait") /\ Sends)
        PROVE  /\ copies' = IF err' = "done" THEN 1 ELSE 0
               /\ err' = "done" /\ call.method = "send" => call.dest = peer
    <3>1. pc \in {"send", "wait"} /\ pc' = "idle"
      BY <2>3 DEF Finishes
    <3>2. Call
      BY <2>3, <3>1, OthersStay DEF Next
    <3>3. copies = 0 /\ (call.method = "send" => call.dest \in {NoAddr, peer})
      BY <1>1, <3>1 DEF Inv, CallFits
    <3>4. SendTaken \/ SendFails \/ SendWouldBlock \/ WaitFails
      BY <3>1, <3>2, CallEnds
    <3>5. CASE SendTaken
      <4>1. copies' = copies + 1 /\ err' = "done" /\ call.dest # NoAddr
        BY <3>5 DEF SendTaken, Return, Reachable
      <4>2. QED BY <3>3, <4>1
    <3>6. CASE SendFails \/ SendWouldBlock \/ WaitFails
      <4>1. copies' = copies /\ err' # "done"
        BY <3>1, <3>6 DEF SendFails, SendWouldBlock, WaitFails, WouldBlock, Return, historyVars
      <4>2. QED BY <3>3, <4>1
    <3>7. QED BY <3>4, <3>5, <3>6
  <2>4. QED BY <1>1, <2>1, <2>2, <2>3
<1>2. QED BY <1>1, Invariance, PTL DEF Spec, SentExact

\* What receive and receivefrom return (udp.c, unixdgram.c) is a datagram that arrived,
\* cut to the size asked for, from the sender it names, and later than all returned
\* before; a call that fails leaves the queue alone, and so does the address loop of
\* inet.c once the socket is bound.
THEOREM ReceivedCorrect == Spec => ReceivedExact
<1>1. ASSUME Inv, [Next]_vars
      PROVE  [/\ Finishes("recv") /\ err' = "done" =>
                   /\ got'.id > last
                   /\ got'.size = MIN(arrived[got'.id].size, call.wanted)
                   /\ call.method = "receivefrom" => got'.from = arrived[got'.id].from
              /\ (Finishes("recv") \/ Finishes("wait")) /\ err' # "done" => sock'.queue = sock.queue
              /\ pc = "try" /\ call' # call /\ kind # "unix" /\ sock.bound = "bound"
                   => sock'.queue = sock.queue]_vars
  <2>0. /\ sock \in Sockets /\ sock.queue \in Seq(Nat) /\ last \in Nat /\ Len(arrived) \in Nat
    BY <1>1 DEF Inv, TypeInv, Sockets
  <2>1. CASE UNCHANGED vars
    BY <2>1
  <2>2. ASSUME Next, Finishes("recv") \/ Finishes("wait")
        PROVE  \/ RecvTakes /\ err' = "done"
               \/ err' # "done" /\ (sock' = sock \/ sock' = [sock EXCEPT !.error = FALSE])
    <3>1. pc \in {"recv", "wait"} /\ pc' = "idle"
      BY <2>2 DEF Finishes
    <3>2. Call
      BY <2>2, <3>1, OthersStay DEF Next
    <3>3. RecvTakes \/ RecvFails \/ RecvWouldBlock \/ WaitFails
      BY <3>1, <3>2, CallEnds
    <3>4. QED
      BY <3>1, <3>3 DEF RecvTakes, RecvFails, RecvWouldBlock, WaitFails, WouldBlock, Return
  <2>3. ASSUME RecvTakes
        PROVE  /\ got'.id > last
               /\ got'.size = MIN(arrived[got'.id].size, call.wanted)
               /\ call.method = "receivefrom" => got'.from = arrived[got'.id].from
    <3> DEFINE id == Head(sock.queue)
    <3>1. sock.queue # <<>> /\ got' = [id |-> id, size |-> MIN(arrived[id].size, call.wanted),
                    from |-> IF call.method = "receivefrom" THEN arrived[id].from ELSE NoAddr]
      BY <2>3 DEF RecvTakes
    <3>2. id \in Nat /\ last < id
      BY <1>1, <2>0, <3>1, TailInOrder DEF Inv
    <3> HIDE DEF id
    <3>3. QED BY <2>0, <3>1, <3>2
  <2>4. ASSUME NEW s, s = sock \/ s = [sock EXCEPT !.error = FALSE] PROVE s.queue = sock.queue
    BY <2>0, <2>4, ErrorSet
  <2>5. ASSUME Next, pc = "try", call' # call, kind # "unix", sock.bound = "bound"
        PROVE  sock'.queue = sock.queue
    <3> DEFINE a == Head(call.list)
    <3>1. inet_tryconnect \/ inet_trybind
      <4>1. Call
        BY <2>5, OthersStay DEF Next
      <4>2. QED BY <2>5, <4>1 DEF Call, unixdgram_tryconnect, unixdgram_trybind, SendTaken, SendFails,
                SendWouldBlock, RecvTakes, RecvFails, RecvWouldBlock, WaitReady, WaitFails, Interrupted
    <3>2. Suits(a) /\ SocketFor(a) = sock /\ a \in Addrs
      <4>1. Suits(a) /\ a \in Addrs
        BY <1>1, <2>5, SocketTried, Addresses
      <4>2. QED BY <4>1 DEF SocketFor
    <3> HIDE DEF a
    <3>3. sock' \in {sock, Connected(sock, a), [sock EXCEPT !.bound = "bound"]}
      BY <3>1, <3>2 DEF inet_tryconnect, inet_trybind, Refused, Answer, Continue, a
    <3>4. Connected(sock, a).queue = sock.queue /\ [sock EXCEPT !.bound = "bound"].queue = sock.queue
      BY <2>0, <2>5, <3>2, ConnectedTyped DEF Sockets
    <3>5. QED BY <3>3, <3>4
  <2>6. QED BY <1>1, <2>1, <2>2, <2>3, <2>4, <2>5 DEF Finishes
<1>2. QED BY <1>1, Invariance, PTL DEF Spec, ReceivedExact
=============================================================================
