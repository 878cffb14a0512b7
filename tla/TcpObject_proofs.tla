-------------------------- MODULE TcpObject_proofs --------------------------
(***************************************************************************)
(* The ownership, mode and peer of the sockets of TCP objects, for every   *)
(* set of objects, descriptors and addresses, whatever the resolver        *)
(* answers, however many calls are made and wherever system calls fail.    *)
(*                                                                         *)
(* The inductive invariant ties three things together: the table of        *)
(* descriptors (what an object says of its socket is true of it), the      *)
(* place of the call in progress, and the addresses it has left.  Halfway  *)
(* through a step the table and the objects disagree, so the first part is *)
(* stated of any table and any objects, and has its own lemmas.            *)
(***************************************************************************)
EXTENDS TcpObject, WellFoundedInduction, TLAPS

-----------------------------------------------------------------------------
\* Induction without an operator as a parameter: the property to prove is given as the
\* set of the numbers that have it.

\* A set with 0, and with the successor of each of its members, has every natural number.
LEMMA Inductive ==
    ASSUME NEW T, 0 \in T, \A n \in Nat : n \in T => n + 1 \in T
    PROVE  Nat \subseteq T
<1> DEFINE LessThan == {pair \in Nat \X Nat : pair[1] < pair[2]}
<1>1. IsWellFoundedOn(LessThan, Nat)
  BY NatLessThanWellFounded DEF OpToRel
<1>2. SUFFICES ASSUME Nat \ T # {} PROVE FALSE
  OBVIOUS
<1>3. PICK n \in Nat \ T : \A m \in Nat \ T : <<m, n>> \notin LessThan
  BY <1>1, <1>2, WFMin
<1>4. n - 1 \in Nat /\ (n - 1) + 1 = n
  BY <1>3
<1>5. <<n - 1, n>> \in LessThan
  BY <1>4
<1>6. n - 1 \in T
  BY <1>3, <1>4, <1>5
<1>7. QED BY <1>3, <1>4, <1>6


-----------------------------------------------------------------------------
\* What getaddrinfo answers.

\* The equation Chosen(h, fam) solves, on the first n addresses.
ChosenBody(F, h, fam, n) ==
    [i \in 0..n |->
        IF i = 0 THEN <<>> ELSE IF Asked(h[i], fam) THEN Append(F[i-1], h[i]) ELSE F[i-1]]

\* Of every list and any number of its first addresses there is a choice: the
\* recursion of Chosen defines a function.
LEMMA ChosenExists ==
    ASSUME NEW h, NEW fam, NEW n \in Nat
    PROVE  \E F : F = ChosenBody(F, h, fam, n)
<1> DEFINE T == {k \in Nat : \E F : F = ChosenBody(F, h, fam, k)}
<1>1. 0 \in T
  <2> DEFINE G == [i \in 0..0 |-> <<>>]
  <2>1. G = ChosenBody(G, h, fam, 0)
    BY DEF ChosenBody
  <2>2. QED
    BY <2>1
<1>2. ASSUME NEW k \in Nat, k \in T PROVE k + 1 \in T
  <2>1. PICK F : F = ChosenBody(F, h, fam, k)
    BY <1>2
  <2> DEFINE v == IF Asked(h[k+1], fam) THEN Append(F[k], h[k+1]) ELSE F[k]
             G == [i \in 0..(k+1) |-> IF i = k + 1 THEN v ELSE F[i]]
  <2>2. \A i \in 0..k : G[i] = F[i]
    OBVIOUS
  <2>3. \A i \in 0..k : F[i] = IF i = 0 THEN <<>> ELSE IF Asked(h[i], fam) THEN Append(F[i-1], h[i]) ELSE F[i-1]
    BY <2>1 DEF ChosenBody
  <2>4. G[k+1] = v
    OBVIOUS
  <2>5. ASSUME NEW i \in 0..(k+1)
        PROVE  G[i] = IF i = 0 THEN <<>> ELSE IF Asked(h[i], fam) THEN Append(G[i-1], h[i]) ELSE G[i-1]
    <3>1. CASE i = k + 1
      <4>1. G[i-1] = F[k]
        BY <3>1, <2>2
      <4>2. QED
        BY <4>1, <3>1, <2>4
    <3>2. CASE i # k + 1
      <4>1. i \in 0..k
        BY <3>2
      <4>2. i # 0 => i - 1 \in 0..k
        BY <4>1
      <4> HIDE DEF G
      <4>3. QED
        BY <4>1, <4>2, <2>2, <2>3
    <3>3. QED BY <3>1, <3>2
  <2>6. G = [i \in 0..(k+1) |-> G[i]]
    OBVIOUS
  <2>7. G = ChosenBody(G, h, fam, k + 1)
    <3> HIDE DEF G
    <3>1. QED BY <2>5, <2>6 DEF ChosenBody
  <2>8. QED
    BY <2>7
<1>3. QED
  <2> HIDE DEF T
  <2>1. Nat \subseteq T BY <1>1, <1>2, Inductive
  <2>2. QED BY <2>1 DEF T

\* Chosen is that function.
LEMMA ChosenDef ==
    ASSUME NEW h, NEW fam, Len(h) \in Nat
    PROVE  Chosen(h, fam) = ChosenBody(Chosen(h, fam), h, fam, Len(h))
<1> DEFINE Is(F) == F = ChosenBody(F, h, fam, Len(h))
<1>1. Chosen(h, fam) = CHOOSE F : Is(F)
  BY DEF Chosen, ChosenBody
<1>2. \E F : Is(F)
  BY ChosenExists
<1> HIDE DEF Is
<1>3. Is(Chosen(h, fam))
  BY <1>1, <1>2
<1>4. QED
  BY <1>3 DEF Is

\* The addresses resolved for a family are of that family, and are among those of
\* the host.
LEMMA ResolveFits ==
    ASSUME NEW h \in Seq(Addrs), NEW fam
    PROVE  Resolve(h, fam) \in Seq({a \in Addrs : Asked(a, fam)})
<1> DEFINE F == Chosen(h, fam)
           S == Seq({a \in Addrs : Asked(a, fam)})
           T == {k \in Nat : k \in 0..Len(h) => F[k] \in S}
<1>0. Len(h) \in Nat /\ \A i \in 1..Len(h) : h[i] \in Addrs
  OBVIOUS
<1>1. \A i \in 0..Len(h) : F[i] =
        IF i = 0 THEN <<>> ELSE IF Asked(h[i], fam) THEN Append(F[i-1], h[i]) ELSE F[i-1]
  <2>1. F = ChosenBody(F, h, fam, Len(h))
    BY <1>0, ChosenDef
  <2> HIDE DEF F
  <2>2. QED
    BY <2>1 DEF ChosenBody
<1> HIDE DEF F
<1>2. 0 \in T
  <2>1. F[0] = <<>>
    BY <1>0, <1>1
  <2>2. <<>> \in S
    OBVIOUS
  <2> HIDE DEF S
  <2>3. QED
    BY <2>1, <2>2
<1>3. ASSUME NEW k \in Nat, k \in T PROVE k + 1 \in T
  <2>1. SUFFICES ASSUME k + 1 \in 0..Len(h) PROVE F[k+1] \in S
    OBVIOUS
  <2>2. k \in 0..Len(h) /\ k + 1 # 0 /\ (k + 1) - 1 = k /\ h[k+1] \in Addrs
    BY <2>1, <1>0
  <2>3. F[k+1] = IF Asked(h[k+1], fam) THEN Append(F[k], h[k+1]) ELSE F[k]
    BY <2>1, <2>2, <1>1
  <2>4. F[k] \in S
    BY <2>2, <1>3
  <2>5. CASE Asked(h[k+1], fam)
    <3>1. h[k+1] \in {a \in Addrs : Asked(a, fam)}
      BY <2>2, <2>5
    <3>2. QED
      BY <2>3, <2>4, <2>5, <3>1
  <2>6. QED
    BY <2>3, <2>4, <2>5
<1>4. Len(h) \in T
  <2> HIDE DEF T
  <2>1. QED
    BY <1>0, <1>2, <1>3, Inductive
<1>5. QED
  BY <1>0, <1>4 DEF Resolve, F

-----------------------------------------------------------------------------
\* The inductive invariant.  The first part is about a table k of descriptors, the
\* descriptors S, the families F and the addresses A of the objects, so that it can
\* also be said of what a call has made of them halfway through a step.

\* The socket of object o is open.  What the object says of its family is true of
\* the socket, and is said once the socket is bound; the peer of the socket is one
\* of the addresses asked for, of the family of the socket.
Fits(o, s, F, A) ==
    /\ s \in Descriptor /\ s.st # "none"
    /\ F[o] # "unspec" => s.fam = F[o]
    /\ s.bound => F[o] # "unspec"
    /\ s.peer # NoAddr => s.peer \in A[o] /\ FamilyOf[s.peer] = s.fam
    /\ s.st \in {"connecting", "established"} => s.peer # NoAddr

\* Every object has a socket of its own or none, every socket is in non-blocking mode
\* but for those of the objects in X, and, unless socket.connect binds a local
\* address, every open descriptor is the socket of an object.
Table(k, S, F, A, X) ==
    /\ k \in [Fds -> Descriptor] /\ S \in [Objects -> Fds \cup {SOCKET_INVALID}]
    /\ \A fd \in Fds : k[fd].st = "none" => ~k[fd].bound
    /\ \A o \in Objects : S[o] # SOCKET_INVALID =>
          Fits(o, k[S[o]], F, A) /\ (o \in X \/ k[S[o]].nonblocking)
    /\ \A o, p \in Objects : o # p /\ S[o] # SOCKET_INVALID => S[o] # S[p]
    /\ Local \subseteq {<<>>} =>
          \A fd \in Fds : k[fd].st # "none" => \E o \in Objects : S[o] = fd

Binding == IF pc = "bind" THEN {self} ELSE {}

\* The other variables the argument reads stay in their range.
CallTypes ==
    /\ class \in [Objects -> {"free", "raw", "master", "client", "server"}]
    /\ family \in [Objects -> Families \cup {"unspec"}]
    /\ tm \in [Objects -> TimeoutRecord]
    /\ asked \in [Objects -> SUBSET Addrs]
    /\ pc \in {"idle", "bind", "try", "connect", "poll", "accept", "wait"}
    /\ self \in Objects /\ method \in {"bind", "connect", "global_connect", "accept"}
    /\ list \in Seq(Addrs) /\ host \in Seq(Addrs)
    /\ current \in Families \cup {"unspec"}
    /\ restrict \in Families \cup {"unspec"}
    /\ now \in Nat

\* The place a call has reached fits its method and the class of its object, and a
\* zero limit lets no call past its first connection.
CallFits ==
    /\ pc = "bind" => method \in {"bind", "global_connect"} /\ started = {}
    /\ pc \in {"try", "connect", "poll"} => method \in {"connect", "global_connect"}
    /\ pc \in {"accept", "wait"} => method = "accept" /\ sock[self] # SOCKET_INVALID
    /\ pc # "idle" =>
          class[self] # "free" /\ (class[self] = "raw" <=> method = "global_connect")
    /\ pc \in {"try", "connect"} /\ timeout_iszero(tm[self]) => started = {}
    /\ pc = "poll" =>
          /\ ~timeout_iszero(tm[self]) /\ sock[self] # SOCKET_INVALID
          /\ current = FamilyOf[Head(list)]

\* The loops work on addresses of the family of the object, with a socket of the
\* current family, and connect only to what was asked for.
LoopFits ==
    pc \in {"bind", "try", "connect", "poll"} =>
        /\ list # <<>>
        /\ family[self] # "unspec" =>
               current = family[self] /\ \A i \in 1..Len(list) : FamilyOf[list[i]] = current
        /\ current # "unspec" /\ sock[self] # SOCKET_INVALID => kernel[sock[self]].fam = current
        /\ pc # "bind" => \A i \in 1..Len(list) : list[i] \in asked[self]
        /\ pc = "bind" /\ method = "global_connect" /\ sock[self] # SOCKET_INVALID =>
               kernel[sock[self]].peer = NoAddr

\* A userdata that is free, or that socket.connect has given up, holds no socket,
\* unless a local address was to be bound.
IdleHoldNothing ==
    /\ \A o \in Objects : class[o] = "free" => sock[o] = SOCKET_INVALID
    /\ Local \subseteq {<<>>} =>
        /\ pc = "bind" => method = "bind"
        /\ \A o \in Objects :
              class[o] = "raw" /\ (pc = "idle" \/ o # self) => sock[o] = SOCKET_INVALID

IInv ==
    Table(kernel, sock, family, asked, Binding)
        /\ CallTypes /\ CallFits /\ LoopFits /\ IdleHoldNothing

-----------------------------------------------------------------------------
\* What the operations on the table of descriptors keep.

LEMMA TableDrop ==
    ASSUME NEW k, NEW S, NEW F, NEW A, NEW X, Table(k, S, F, A, X), NEW o \in Objects
    PROVE  /\ Destroyed(k, S[o]) \in [Fds -> Descriptor]
           /\ Table(Destroyed(k, S[o]), [S EXCEPT ![o] = SOCKET_INVALID], F, A, X)
<1>1. Closed \in Descriptor /\ Closed.st = "none" /\ ~Closed.bound
  BY DEF Closed, Descriptor
<1>2. CASE S[o] = SOCKET_INVALID
  <2>1. Destroyed(k, S[o]) = k /\ [S EXCEPT ![o] = SOCKET_INVALID] = S
    BY <1>2, FdsAssumption DEF Destroyed, Table
  <2>2. QED
    BY <2>1 DEF Table
<1>3. CASE S[o] # SOCKET_INVALID
  <2>1. S[o] \in Fds
    BY <1>3 DEF Table
  <2>2. Destroyed(k, S[o]) = [k EXCEPT ![S[o]] = Closed]
    BY <2>1 DEF Destroyed
  <2>3. QED
    BY <1>1, <2>1, <2>2 DEF Table
<1>4. QED
  BY <1>2, <1>3

LEMMA TableMake ==
    ASSUME NEW k, NEW S, NEW F, NEW A, NEW X, Table(k, S, F, A, X), NEW o \in Objects,
           S[o] = SOCKET_INVALID, NEW fd \in Fds, k[fd].st = "none",
           NEW d, Fits(o, d, F, A), o \in X \/ d.nonblocking
    PROVE  Table([k EXCEPT ![fd] = d], [S EXCEPT ![o] = fd], F, A, X)
<1>1. d \in Descriptor /\ d.st # "none"
  BY DEF Fits
<1>2. \A p \in Objects : p # o /\ S[p] # SOCKET_INVALID => S[p] \in Fds /\ S[p] # fd
  BY DEF Table, Fits
<1>3. QED
  BY <1>1, <1>2, FdsAssumption DEF Table

LEMMA TableUpdate ==
    ASSUME NEW k, NEW S, NEW F, NEW A, NEW X, Table(k, S, F, A, X), NEW o \in Objects,
           S[o] # SOCKET_INVALID, NEW d, Fits(o, d, F, A), o \in X \/ d.nonblocking
    PROVE  Table([k EXCEPT ![S[o]] = d], S, F, A, X)
<1>1. d \in Descriptor /\ d.st # "none" /\ S[o] \in Fds
  BY DEF Fits, Table
<1>2. QED
  BY <1>1 DEF Table

LEMMA TableRelabel ==
    ASSUME NEW k, NEW S, NEW F, NEW A, NEW X, Table(k, S, F, A, X), NEW o \in Objects,
           NEW F2, NEW A2, NEW X2,
           \A p \in Objects \ {o} : F2[p] = F[p] /\ A2[p] = A[p] /\ (p \in X => p \in X2),
           S[o] # SOCKET_INVALID => Fits(o, k[S[o]], F2, A2) /\ (o \in X2 \/ k[S[o]].nonblocking)
    PROVE  Table(k, S, F2, A2, X2)
BY DEF Table, Fits

LEMMA TableExempt ==
    ASSUME NEW k, NEW S, NEW F, NEW A, NEW X, Table(k, S, F, A, X), NEW X2,
           \A o \in X \ X2 : S[o] # SOCKET_INVALID => k[S[o]].nonblocking
    PROVE  Table(k, S, F, A, X2)
BY DEF Table

-----------------------------------------------------------------------------
\* What the steps of the loops keep.

\* The call returns, with the table k and the descriptor s for its object.
LEMMA ReturnKeeps ==
    ASSUME IInv, NEW e, NEW k, NEW s, Return(e, k, s), pc # "idle",
           Table(k, [sock EXCEPT ![self] = s], family', asked', {}),
           method = "connect" => class[self] # "free",
           UNCHANGED <<now, tm, self, method, host, restrict, current>>, list' \in Seq(Addrs),
           family' \in [Objects -> Families \cup {"unspec"}],
           asked' \in [Objects -> SUBSET Addrs]
    PROVE  IInv'
<1> DEFINE dropped == method = "global_connect" /\ pc # "bind" /\ e # "done"
           S == [sock EXCEPT ![self] = s]
<1>0. self \in Objects /\ sock \in [Objects -> Fds \cup {SOCKET_INVALID}]
  BY DEF IInv, CallTypes, Table
<1>1. pc' = "idle" /\ Binding' = {}
  BY DEF Return, Binding
<1>2. Table(kernel', sock', family', asked', {})
  <2>1. CASE dropped
    <3>1. Table(Destroyed(k, S[self]), [S EXCEPT ![self] = SOCKET_INVALID], family', asked', {})
      BY <1>0, TableDrop
    <3>2. S[self] = s /\ [S EXCEPT ![self] = SOCKET_INVALID] = [sock EXCEPT ![self] = SOCKET_INVALID]
      BY <1>0
    <3>3. QED
      BY <2>1, <3>1, <3>2 DEF Return
  <2>2. CASE ~dropped
    BY <2>2 DEF Return
  <2>3. QED
    BY <2>1, <2>2
<1>3. CallTypes'
  BY <1>1 DEF IInv, CallTypes, Return
<1>4. CallFits' /\ LoopFits'
  BY <1>1 DEF CallFits, LoopFits
<1>5. IdleHoldNothing'
  BY <1>0, <1>1 DEF IInv, CallTypes, CallFits, IdleHoldNothing, Return
<1>6. QED
  BY <1>1, <1>2, <1>3, <1>4, <1>5 DEF IInv

\* The address failed, with the table k and the descriptor s for the object.
LEMMA NextAddressKeeps ==
    ASSUME IInv, NEW e, NEW k, NEW s, NextAddress(e, k, s), e # "done",
           pc \in {"bind", "connect", "poll"},
           Table(k, [sock EXCEPT ![self] = s], family, asked, {}),
           current # "unspec" /\ s # SOCKET_INVALID => k[s].fam = current,
           pc = "bind" => started' = {}, timeout_iszero(tm[self]) => started' = {},
           pc = "bind" /\ method = "global_connect" /\ s # SOCKET_INVALID => k[s].peer = NoAddr,
           UNCHANGED <<now, tm, family, current, self, method, host, restrict, asked>>
    PROVE  IInv'
<1>0. /\ self \in Objects /\ sock \in [Objects -> Fds \cup {SOCKET_INVALID}]
      /\ list \in Seq(Addrs) /\ list # <<>> /\ Len(list) \in Nat
  BY DEF IInv, CallTypes, Table, LoopFits
<1>1. CASE Len(list) = 1
  <2>1. list' = <<>> /\ Return(e, k, s)
    BY <1>1 DEF NextAddress
  <2>2. list' \in Seq(Addrs)
    BY <2>1
  <2>3. QED
    BY <2>1, <2>2, ReturnKeeps DEF IInv, CallTypes, CallFits
<1>2. CASE Len(list) # 1
  <2>0. Tail(list) \in Seq(Addrs) /\ Tail(list) # <<>>
    <3>1. Tail(list) \in Seq(Addrs) /\ Len(Tail(list)) = Len(list) - 1
      BY <1>0
    <3>2. Len(list) - 1 # 0
      BY <1>0, <1>2
    <3>3. QED
      BY <3>1, <3>2
  <2>1. /\ list' = Tail(list) /\ list' \in Seq(Addrs) /\ list' # <<>>
        /\ pc' = (IF pc = "bind" THEN "bind" ELSE "try")
        /\ kernel' = k /\ sock' = [sock EXCEPT ![self] = s] /\ class' = class
    BY <1>2, <2>0 DEF NextAddress
  <2>2. Table(kernel', sock', family', asked', Binding')
    BY <2>1, TableExempt
  <2>3. CallTypes'
    BY <2>1 DEF IInv, CallTypes
  <2>4. CallFits'
    BY <2>1 DEF IInv, CallTypes, CallFits
  <2>5. LoopFits'
    <3>1. Len(list') \in Nat /\ \A i \in 1..Len(list') : list'[i] = list[i+1] /\ i + 1 \in 1..Len(list)
      BY <1>0, <1>2, <2>1
    <3>2. sock'[self'] = s
      BY <1>0, <2>1
    <3>3. QED
      BY <2>1, <3>1, <3>2 DEF IInv, LoopFits
  <2>6. IdleHoldNothing'
    BY <1>0, <2>1 DEF IInv, CallTypes, CallFits, IdleHoldNothing
  <2>7. QED
    BY <2>2, <2>3, <2>4, <2>5, <2>6 DEF IInv
<1>3. QED
  BY <1>1, <1>2

\* The connection to the address is decided, or a zero limit ends the loop.
LEMMA AnswerKeeps ==
    ASSUME IInv, NEW e, NEW k, Answer(e, k), pc \in {"connect", "poll"},
           sock[self] # SOCKET_INVALID, current \in Families,
           Table(k, sock, family, asked, {}), k[sock[self]].fam = current,
           UNCHANGED <<now, tm, current, self, method, host, restrict, asked>>
    PROVE  IInv'
<1>0. /\ self \in Objects /\ sock \in [Objects -> Fds \cup {SOCKET_INVALID}]
      /\ family \in [Objects -> Families \cup {"unspec"}]
      /\ asked \in [Objects -> SUBSET Addrs]
      /\ [sock EXCEPT ![self] = sock[self]] = sock /\ class[self] # "free"
  BY DEF IInv, CallTypes, Table, CallFits
<1>1. CASE e = "done" \/ timeout_iszero(tm[self])
  <2>1. /\ family' = [family EXCEPT ![self] = current]
        /\ list' = <<>> /\ Return(e, k, sock[self])
    BY <1>1 DEF Answer
  <2>2. list' \in Seq(Addrs) /\ family' \in [Objects -> Families \cup {"unspec"}]
    BY <1>0, <2>1
  <2>3. Fits(self, k[sock[self]], family', asked')
    BY <1>0, <2>1 DEF Fits, Table
  <2>4. Table(k, sock, family', asked', {})
    <3>1. \A p \in Objects \ {self} : family'[p] = family[p] /\ asked'[p] = asked[p]
      BY <1>0, <2>1
    <3>2. k[sock[self]].nonblocking
      BY <1>0 DEF Table
    <3>3. QED
      BY <1>0, <2>3, <3>1, <3>2, TableRelabel
  <2>5. QED
    BY <1>0, <2>1, <2>2, <2>4, ReturnKeeps
<1>2. CASE ~(e = "done" \/ timeout_iszero(tm[self]))
  <2>1. NextAddress(e, k, sock[self]) /\ family' = family
    BY <1>2 DEF Answer
  <2>2. QED
    BY <1>0, <1>2, <2>1, NextAddressKeeps
<1>3. QED
  BY <1>1, <1>2


-----------------------------------------------------------------------------
\* Each action keeps the invariant.

\* What every step of a loop may use.
LEMMA LoopFacts ==
    ASSUME IInv, pc \in {"bind", "try", "connect", "poll"}
    PROVE  /\ self \in Objects /\ class[self] # "free"
           /\ list \in Seq(Addrs) /\ list # <<>> /\ Len(list) \in Nat /\ 1 \in 1..Len(list)
           /\ Head(list) = list[1] /\ Head(list) \in Addrs
           /\ FamilyOf[Head(list)] \in Families /\ "unspec" \notin Families
           /\ pc # "bind" => Head(list) \in asked[self]
           /\ family[self] # "unspec" => FamilyOf[Head(list)] = family[self]
           /\ sock[self] # SOCKET_INVALID =>
                 /\ sock[self] \in Fds /\ kernel[sock[self]] \in Descriptor
                 /\ Fits(self, kernel[sock[self]], family, asked)
                 /\ pc # "bind" => kernel[sock[self]].nonblocking
           /\ Closed \in Descriptor
<1>1. list \in Seq(Addrs) /\ list # <<>>
  BY DEF IInv, CallTypes, LoopFits
<1>2. Len(list) \in Nat /\ 1 \in 1..Len(list) /\ Head(list) = list[1] /\ Head(list) \in Addrs
  BY <1>1
<1>3. FamilyOf[Head(list)] \in Families /\ "unspec" \notin Families
  BY <1>2, AddrsAssumption DEF Families
<1>4. self \in Objects /\ class[self] # "free"
  BY DEF IInv, CallTypes, CallFits
<1>5. /\ pc # "bind" => Head(list) \in asked[self]
      /\ family[self] # "unspec" => FamilyOf[Head(list)] = family[self]
  BY <1>2 DEF IInv, LoopFits
<1>6. sock[self] # SOCKET_INVALID =>
         /\ sock[self] \in Fds /\ kernel[sock[self]] \in Descriptor
         /\ Fits(self, kernel[sock[self]], family, asked)
         /\ pc # "bind" => kernel[sock[self]].nonblocking
  BY <1>4 DEF IInv, Table, Binding
<1>7. Closed \in Descriptor
  BY DEF Closed, Descriptor
<1>8. QED
  BY <1>1, <1>2, <1>3, <1>4, <1>5, <1>6, <1>7

LEMMA ConnectStartsKeeps == ASSUME IInv, ConnectStarts PROVE IInv'
<1> DEFINE fd == sock[self]
           d == [kernel[fd] EXCEPT !.st = "connecting", !.peer = Head(list)]
           k == [kernel EXCEPT ![fd] = d]
<1>1. pc = "connect" /\ Suits(Head(list)) /\ kernel[fd].st = "new"
      /\ UNCHANGED <<now, tm, current, self, method, host, restrict, asked>>
  BY DEF ConnectStarts, callVars
<1>2. fd # SOCKET_INVALID /\ current = FamilyOf[Head(list)] /\ current \in Families
      /\ kernel[fd].fam = current
  BY <1>1, LoopFacts DEF Suits, IInv, LoopFits
<1>3. Table(kernel, sock, family, asked, {})
  BY <1>1 DEF IInv, Binding
<1>4. d \in Descriptor /\ d.fam = current /\ d.nonblocking
  BY <1>1, <1>2, LoopFacts DEF Descriptor
<1>5. Fits(self, d, family, asked)
  BY <1>1, <1>2, <1>4, LoopFacts, AddrsAssumption DEF Fits, Descriptor
<1>6. Table(k, sock, family, asked, {})
  BY <1>1, <1>2, <1>3, <1>4, <1>5, LoopFacts, TableUpdate
<1>7. k[fd] = d
  BY <1>1, <1>2, LoopFacts DEF IInv, Table
<1>8. \/ Answer("error", kernel)
      \/ Answer("timeout", k)
      \/ /\ ~timeout_iszero(tm[self]) /\ pc' = "poll" /\ kernel' = k
         /\ UNCHANGED <<class, sock, family, list>>
  BY DEF ConnectStarts
<1>9. CASE Answer("error", kernel)
  BY <1>1, <1>2, <1>3, <1>9, AnswerKeeps
<1>10. CASE Answer("timeout", k)
  <2> HIDE DEF k, d
  <2>1. QED
    BY <1>1, <1>2, <1>4, <1>6, <1>7, <1>10, AnswerKeeps
<1>11. CASE /\ ~timeout_iszero(tm[self]) /\ pc' = "poll" /\ kernel' = k
            /\ UNCHANGED <<class, sock, family, list>>
  <2> HIDE DEF k, d
  <2>1. Table(kernel', sock', family', asked', Binding')
    BY <1>1, <1>6, <1>11 DEF Binding
  <2>2. CallTypes'
    BY <1>1, <1>11 DEF IInv, CallTypes
  <2>3. CallFits'
    BY <1>1, <1>2, <1>11 DEF IInv, CallFits
  <2>4. LoopFits'
    BY <1>1, <1>2, <1>4, <1>7, <1>11 DEF IInv, LoopFits
  <2>5. IdleHoldNothing'
    BY <1>1, <1>11 DEF IInv, IdleHoldNothing
  <2>6. QED
    BY <2>1, <2>2, <2>3, <2>4, <2>5 DEF IInv
<1>12. QED
  BY <1>8, <1>9, <1>10, <1>11

LEMMA ConnectAgainKeeps == ASSUME IInv, ConnectAgain PROVE IInv'
<1> DEFINE fd == sock[self]
           d(st) == [kernel[fd] EXCEPT !.st = st]
           k(st) == [kernel EXCEPT ![fd] = d(st)]
<1>1. pc = "connect" /\ Suits(Head(list))
      /\ UNCHANGED <<now, tm, current, self, method, host, restrict, asked>>
  BY DEF ConnectAgain, callVars
<1>2. fd # SOCKET_INVALID /\ current \in Families /\ kernel[fd].fam = current
  BY <1>1, LoopFacts DEF Suits, IInv, LoopFits
<1>3. Table(kernel, sock, family, asked, {})
  BY <1>1 DEF IInv, Binding
<1>4. ASSUME NEW st \in {"connected", "new"}
      PROVE  Table(k(st), sock, family, asked, {}) /\ k(st)[fd].fam = current
  <2>1. Fits(self, d(st), family, asked) /\ d(st).nonblocking /\ d(st).fam = current
    BY <1>1, <1>2, LoopFacts DEF Fits, Descriptor
  <2>2. Table(k(st), sock, family, asked, {})
    <3> HIDE DEF d
    <3>1. QED
      BY <1>1, <1>2, <1>3, <2>1, LoopFacts, TableUpdate
  <2>3. k(st)[fd] = d(st)
    BY <1>1, <1>2, LoopFacts DEF IInv, Table
  <2>4. QED
    BY <2>1, <2>2, <2>3
<1>5. Answer("done", k("connected")) \/ Answer("error", k("new")) \/ Answer("error", kernel)
  BY DEF ConnectAgain
<1>6. QED
  <2> HIDE DEF k
  <2>1. QED
    BY <1>1, <1>2, <1>3, <1>4, <1>5, AnswerKeeps

LEMMA PollReadyKeeps == ASSUME IInv, PollReady PROVE IInv'
<1> DEFINE fd == sock[self]
           d == [kernel[fd] EXCEPT !.st = "aborted"]
           k == [kernel EXCEPT ![fd] = d]
<1>1. pc = "poll" /\ UNCHANGED <<now, tm, current, self, method, host, restrict, asked>>
  BY DEF PollReady, callVars
<1>2. fd # SOCKET_INVALID /\ current \in Families /\ kernel[fd].fam = current
  BY <1>1, LoopFacts DEF IInv, CallFits, LoopFits
<1>3. Table(kernel, sock, family, asked, {})
  BY <1>1 DEF IInv, Binding
<1>4. Fits(self, d, family, asked) /\ d.nonblocking /\ d.fam = current
  BY <1>1, <1>2, LoopFacts DEF Fits, Descriptor
<1>5. Table(k, sock, family, asked, {})
  <2> HIDE DEF d
  <2>1. QED
    BY <1>1, <1>2, <1>3, <1>4, LoopFacts, TableUpdate
<1>6. k[fd] = d
  BY <1>1, <1>2, LoopFacts DEF IInv, Table
<1>7. Answer("done", kernel) \/ Answer("error", k)
  BY DEF PollReady
<1>8. QED
  <2> HIDE DEF k, d
  <2>1. QED
    BY <1>1, <1>2, <1>3, <1>4, <1>5, <1>6, <1>7, AnswerKeeps

LEMMA PollFailsKeeps == ASSUME IInv, PollFails PROVE IInv'
<1>1. pc = "poll" /\ UNCHANGED <<now, tm, current, self, method, host, restrict, asked>>
  BY DEF PollFails, callVars
<1>2. sock[self] # SOCKET_INVALID /\ current \in Families /\ kernel[sock[self]].fam = current
  BY <1>1, LoopFacts DEF IInv, CallFits, LoopFits
<1>3. Table(kernel, sock, family, asked, {})
  BY <1>1 DEF IInv, Binding
<1>4. Answer("timeout", kernel) \/ Answer("error", kernel)
  BY DEF PollFails
<1>5. QED
  BY <1>1, <1>2, <1>3, <1>4, AnswerKeeps

LEMMA ReplaceSocketKeeps == ASSUME IInv, ReplaceSocket PROVE IInv'
<1> DEFINE k   == Destroyed(kernel, sock[self])
           S   == [sock EXCEPT ![self] = SOCKET_INVALID]
           fam == FamilyOf[Head(list)]
           d   == [Closed EXCEPT !.st = "new", !.fam = fam, !.nonblocking = (pc = "connect")]
<1>1. /\ pc \in {"bind", "connect"}
      /\ UNCHANGED <<now, family, tm, started, self, method, host, restrict, asked>>
  BY DEF ReplaceSocket, callVars
<1>2. Table(k, S, family, asked, Binding) /\ k \in [Fds -> Descriptor]
  BY <1>1, LoopFacts, TableDrop DEF IInv
<1>3. S[self] = SOCKET_INVALID /\ S \in [Objects -> Fds \cup {SOCKET_INVALID}]
  BY <1>1, LoopFacts DEF IInv, Table
<1>4. \/ /\ \E fd \in Fds : k[fd].st = "none" /\ kernel' = [k EXCEPT ![fd] = d]
                             /\ sock' = [sock EXCEPT ![self] = fd]
         /\ current' = fam /\ UNCHANGED <<class, pc, list>>
      \/ NextAddress("error", k, SOCKET_INVALID) /\ UNCHANGED current
  BY DEF ReplaceSocket, Created, Open
<1>5. CASE /\ \E fd \in Fds : k[fd].st = "none" /\ kernel' = [k EXCEPT ![fd] = d]
                               /\ sock' = [sock EXCEPT ![self] = fd]
           /\ current' = fam /\ UNCHANGED <<class, pc, list>>
  <2>1. PICK fd \in Fds : k[fd].st = "none" /\ kernel' = [k EXCEPT ![fd] = d]
                           /\ sock' = [sock EXCEPT ![self] = fd]
    BY <1>5
  <2>2. sock' = [S EXCEPT ![self] = fd]
    BY <1>3, <2>1
  <2>3. /\ d \in Descriptor /\ d.st = "new" /\ d.fam = fam /\ d.bound = FALSE
        /\ d.peer = NoAddr /\ d.nonblocking = (pc = "connect")
    BY <1>1, LoopFacts DEF Closed, Descriptor
  <2>4. Fits(self, d, family, asked)
    BY <1>1, <2>3, LoopFacts DEF Fits
  <2>5. self \in Binding \/ d.nonblocking
    BY <1>1, <2>3 DEF Binding
  <2>6. kernel'[fd] = d /\ sock'[self] = fd
    BY <1>1, <1>2, <1>3, <2>1, <2>2, LoopFacts
  <2> HIDE DEF d, k, S
  <2>7. Table(kernel', sock', family', asked', Binding')
    <3>1. self \in Objects
      BY <1>1, LoopFacts
    <3>2. Table([k EXCEPT ![fd] = d], [S EXCEPT ![self] = fd], family, asked, Binding)
      BY <1>2, <1>3, <2>1, <2>4, <2>5, <3>1, TableMake
    <3>3. Binding' = Binding
      BY <1>1, <1>5 DEF Binding
    <3>4. QED
      BY <1>1, <2>1, <2>2, <3>2, <3>3
  <2>8. CallTypes'
    BY <1>1, <1>5, LoopFacts DEF IInv, CallTypes
  <2>9. CallFits'
    BY <1>1, <1>5 DEF IInv, CallFits
  <2>10. LoopFits'
    BY <1>1, <1>5, <2>3, <2>6, LoopFacts DEF IInv, LoopFits
  <2>11. IdleHoldNothing'
    <3>1. \A o \in Objects : o # self => sock'[o] = sock[o]
      BY <2>1, <1>3 DEF IInv, Table
    <3>2. QED
      BY <1>1, <1>5, <3>1, LoopFacts DEF IInv, IdleHoldNothing
  <2>12. QED
    BY <2>7, <2>8, <2>9, <2>10, <2>11 DEF IInv
<1>6. CASE NextAddress("error", k, SOCKET_INVALID) /\ UNCHANGED current
  <2>1. Table(k, S, family, asked, {})
    <3>1. \A o \in Binding : S[o] = SOCKET_INVALID
      BY <1>3 DEF Binding
    <3> HIDE DEF k, S
    <3>2. QED
      BY <1>2, <3>1, TableExempt
  <2>2. /\ pc = "bind" => started' = {}
        /\ timeout_iszero(tm[self]) => started' = {}
    BY <1>1 DEF IInv, CallFits
  <2> HIDE DEF k
  <2>3. QED
    BY <1>1, <1>6, <2>1, <2>2, NextAddressKeeps
<1>7. QED
  BY <1>4, <1>5, <1>6

LEMMA BindAddressKeeps == ASSUME IInv, BindAddress PROVE IInv'
<1> DEFINE fd == sock[self]
           d(ok) == [kernel[fd] EXCEPT !.bound = @ \/ ok, !.nonblocking = TRUE]
           k(ok) == [kernel EXCEPT ![fd] = d(ok)]
           l == Resolve(host, current)
           f == [family EXCEPT ![self] = current]
<1>1. pc = "bind" /\ Suits(Head(list)) /\ UNCHANGED <<now, tm, current, started, self, method, host, restrict>>
  BY DEF BindAddress
<1>2. fd # SOCKET_INVALID /\ current \in Families /\ current # "unspec" /\ kernel[fd].fam = current
  BY <1>1, LoopFacts DEF Suits, IInv, LoopFits
<1>3. /\ family \in [Objects -> Families \cup {"unspec"}] /\ asked \in [Objects -> SUBSET Addrs]
      /\ sock \in [Objects -> Fds \cup {SOCKET_INVALID}] /\ kernel \in [Fds -> Descriptor]
  BY DEF IInv, CallTypes, Table
<1>4. ASSUME NEW ok \in BOOLEAN
      PROVE  /\ d(ok) \in Descriptor /\ d(ok).nonblocking /\ d(ok).fam = current
             /\ d(ok).bound = (kernel[fd].bound \/ ok) /\ k(ok)[fd] = d(ok)
             /\ d(ok).st = kernel[fd].st /\ d(ok).peer = kernel[fd].peer
  BY <1>1, <1>2, <1>3, LoopFacts DEF Descriptor
<1>5. l \in Seq(Addrs) /\ \A i \in 1..Len(l) : FamilyOf[l[i]] = current
  <2>1. host \in Seq(Addrs)
    BY DEF IInv, CallTypes
  <2>2. l \in Seq({a \in Addrs : Asked(a, current)})
    BY <2>1, ResolveFits
  <2> HIDE DEF l
  <2>3. \A i \in 1..Len(l) : l[i] \in {a \in Addrs : Asked(a, current)}
    BY <2>2
  <2>4. l \in Seq(Addrs)
    BY <2>2
  <2>5. QED
    BY <1>2, <2>3, <2>4 DEF Asked
<1>6. \/ NextAddress("error", k(FALSE), fd) /\ UNCHANGED <<family, asked>>
      \/ /\ family' = f /\ method = "bind" /\ Return("done", k(TRUE), fd) /\ list' = <<>>
         /\ UNCHANGED asked
      \/ /\ family' = f /\ method # "bind" /\ list' = l /\ l = <<>>
         /\ asked' = [asked EXCEPT ![self] = ToSet(l)]
         /\ pc' = "idle" /\ kernel' = Destroyed(k(TRUE), fd)
         /\ sock' = [sock EXCEPT ![self] = SOCKET_INVALID] /\ class' = class
      \/ /\ family' = f /\ method # "bind" /\ list' = l /\ l # <<>>
         /\ asked' = [asked EXCEPT ![self] = ToSet(l)]
         /\ pc' = "try" /\ kernel' = k(TRUE) /\ UNCHANGED <<sock, class>>
  BY DEF BindAddress
<1> HIDE DEF d
<1>7. CASE NextAddress("error", k(FALSE), fd) /\ UNCHANGED <<family, asked>>
  <2>1. Fits(self, d(FALSE), family, asked)
    BY <1>1, <1>2, <1>4, LoopFacts DEF Fits
  <2>2. Table(k(FALSE), sock, family, asked, Binding)
    BY <1>1, <1>2, <1>4, <2>1, LoopFacts, TableUpdate DEF IInv
  <2>3. Table(k(FALSE), sock, family, asked, {})
    <3>1. \A o \in Binding : k(FALSE)[sock[o]].nonblocking
      BY <1>4 DEF Binding
    <3> HIDE DEF k
    <3>2. QED
      BY <2>2, <3>1, TableExempt
  <2>4. [sock EXCEPT ![self] = fd] = sock
    BY <1>3
  <2>5. started' = {} /\ (method = "global_connect" => k(FALSE)[fd].peer = NoAddr)
    BY <1>1, <1>2, <1>4 DEF IInv, CallFits, LoopFits
  <2> HIDE DEF k
  <2>6. QED
    BY <1>1, <1>2, <1>4, <1>7, <2>3, <2>4, <2>5, NextAddressKeeps
<1>8. ASSUME NEW A, A \in [Objects -> SUBSET Addrs],
             \A p \in Objects \ {self} : A[p] = asked[p],
             kernel[fd].peer # NoAddr => kernel[fd].peer \in A[self]
      PROVE  Table(k(TRUE), sock, f, A, {})
  <2>1. Fits(self, kernel[fd], f, A) /\ Fits(self, d(TRUE), f, A)
    BY <1>1, <1>2, <1>3, <1>4, <1>8, LoopFacts DEF Fits
  <2>2. Table(kernel, sock, f, A, Binding)
    <3>1. \A p \in Objects \ {self} : f[p] = family[p] /\ A[p] = asked[p]
      BY <1>3, <1>8
    <3>2. Table(kernel, sock, family, asked, Binding) /\ self \in Binding /\ self \in Objects
      BY <1>1, LoopFacts DEF IInv, Binding
    <3> HIDE DEF f
    <3>3. QED
      BY <2>1, <3>1, <3>2, TableRelabel
  <2>3. Table(k(TRUE), sock, f, A, Binding)
    BY <1>1, <1>2, <1>4, <2>1, <2>2, LoopFacts, TableUpdate
  <2>4. \A o \in Binding : k(TRUE)[sock[o]].nonblocking
    BY <1>4 DEF Binding
  <2> HIDE DEF k, f
  <2>5. QED
    BY <2>3, <2>4, TableExempt
<1>9. CASE /\ family' = f /\ method = "bind" /\ Return("done", k(TRUE), fd) /\ list' = <<>>
           /\ UNCHANGED asked
  <2>1. Table(k(TRUE), [sock EXCEPT ![self] = fd], family', asked', {})
    <3>1. kernel[fd].peer # NoAddr => kernel[fd].peer \in asked[self]
      BY <1>1, <1>2, LoopFacts DEF Fits
    <3>2. [sock EXCEPT ![self] = fd] = sock
      BY <1>3
    <3> HIDE DEF k, f
    <3>3. QED
      BY <1>3, <1>8, <1>9, <3>1, <3>2
  <2>2. list' \in Seq(Addrs)
    BY <1>9
  <2>3. family' \in [Objects -> Families \cup {"unspec"}] /\ asked' \in [Objects -> SUBSET Addrs]
    BY <1>2, <1>3, <1>9
  <2> HIDE DEF k, f
  <2>4. QED
    BY <1>1, <1>9, <2>1, <2>2, <2>3, ReturnKeeps
<1>10. CASE /\ family' = f /\ method # "bind" /\ list' = l
            /\ asked' = [asked EXCEPT ![self] = ToSet(l)]
            /\ \/ /\ pc' = "idle" /\ kernel' = Destroyed(k(TRUE), fd)
                  /\ sock' = [sock EXCEPT ![self] = SOCKET_INVALID] /\ class' = class
               \/ l # <<>> /\ pc' = "try" /\ kernel' = k(TRUE) /\ UNCHANGED <<sock, class>>
  <2>1. method = "global_connect" /\ kernel[fd].peer = NoAddr /\ started = {} /\ class[self] = "raw"
    BY <1>1, <1>2, <1>10 DEF IInv, CallFits, LoopFits
  <2>2. ToSet(l) \subseteq Addrs /\ \A i \in 1..Len(l) : l[i] \in ToSet(l)
    BY <1>5 DEF ToSet
  <2>3. asked' \in [Objects -> SUBSET Addrs] /\ asked'[self] = ToSet(l)
        /\ \A p \in Objects \ {self} : asked'[p] = asked[p]
    BY <1>1, <1>3, <1>10, <2>2, LoopFacts
  <2>4. Table(k(TRUE), sock, family', asked', {})
    <3> HIDE DEF k, f, l
    <3>1. QED
      BY <1>8, <1>10, <2>1, <2>3
  <2>5. /\ family' \in [Objects -> Families \cup {"unspec"}] /\ family'[self] = current
        /\ Binding' = {}
    BY <1>1, <1>2, <1>3, <1>10, LoopFacts DEF Binding
  <2>6. Table(kernel', sock', family', asked', Binding')
    <3>1. Table(Destroyed(k(TRUE), fd), [sock EXCEPT ![self] = SOCKET_INVALID], family', asked', {})
      <4> HIDE DEF k
      <4>1. QED
        BY <1>1, <2>4, LoopFacts, TableDrop
    <3> HIDE DEF k, f, l
    <3>2. QED
      BY <1>10, <2>4, <2>5, <3>1
  <2>7. CallTypes'
    BY <1>1, <1>5, <1>10, <2>3, <2>5 DEF IInv, CallTypes
  <2>8. CallFits'
    BY <1>1, <1>10, <2>1 DEF IInv, CallFits
  <2>9. LoopFits'
    <3>1. k(TRUE)[fd].fam = current
      BY <1>4
    <3> HIDE DEF k, f, l
    <3>2. /\ pc' \in {"try", "idle"} /\ self' = self /\ current' = current
          /\ pc' = "try" => l # <<>> /\ list' = l /\ kernel' = k(TRUE) /\ sock' = sock
      BY <1>1, <1>10
    <3>3. \A i \in 1..Len(l) : FamilyOf[l[i]] = current /\ l[i] \in asked'[self]
      BY <1>5, <2>2, <2>3
    <3>4. QED
      BY <2>5, <3>1, <3>2, <3>3 DEF LoopFits
  <2>10. IdleHoldNothing'
    <3>1. \A o \in Objects : o # self => sock'[o] = sock[o]
      BY <1>3, <1>10
    <3>2. Local \subseteq {<<>>} => FALSE
      BY <1>1, <2>1 DEF IInv, IdleHoldNothing
    <3>3. class' = class /\ class[self] # "free"
      BY <1>10, <2>1
    <3>4. QED
      BY <3>1, <3>2, <3>3 DEF IInv, IdleHoldNothing
  <2>11. QED
    BY <2>6, <2>7, <2>8, <2>9, <2>10 DEF IInv
<1>11. QED
  <2> HIDE DEF k, f, l
  <2>1. QED
    BY <1>6, <1>7, <1>9, <1>10

LEMMA MarkTyped ==
    ASSUME IInv, NEW o \in Objects
    PROVE  /\ [tm EXCEPT ![o] = timeout_markstart(@, now)] \in [Objects -> TimeoutRecord]
           /\ \A p \in Objects :
                timeout_iszero([tm EXCEPT ![o] = timeout_markstart(@, now)][p]) = timeout_iszero(tm[p])
<1>1. tm \in [Objects -> TimeoutRecord] /\ now \in Nat
  BY DEF IInv, CallTypes
<1>2. timeout_markstart(tm[o], now) \in TimeoutRecord
      /\ timeout_iszero(timeout_markstart(tm[o], now)) = timeout_iszero(tm[o])
  BY <1>1 DEF timeout_markstart, TimeoutRecord, timeout_iszero
<1>3. QED
  BY <1>1, <1>2


LEMMA TryAddressKeeps == ASSUME IInv, TryAddress PROVE IInv'
<1>1. /\ pc = "try" /\ pc' = "connect" /\ tm' = [tm EXCEPT ![self] = timeout_markstart(@, now)]
      /\ UNCHANGED <<now, kernel, class, sock, family, self, method, host, restrict, asked, list,
                     current, started>>
  BY DEF TryAddress, loopVars
<1>2. self \in Objects /\ tm \in [Objects -> TimeoutRecord] /\ now \in Nat
  BY DEF IInv, CallTypes
<1>3. tm' \in [Objects -> TimeoutRecord] /\ (timeout_iszero(tm'[self]) => timeout_iszero(tm[self]))
  BY <1>1, <1>2, MarkTyped
<1>4. Table(kernel', sock', family', asked', Binding')
  BY <1>1 DEF IInv, Binding
<1>5. CallTypes'
  BY <1>1, <1>3 DEF IInv, CallTypes
<1>6. CallFits'
  BY <1>1, <1>3 DEF IInv, CallFits
<1>7. LoopFits'
  BY <1>1 DEF IInv, LoopFits
<1>8. IdleHoldNothing'
  BY <1>1 DEF IInv, IdleHoldNothing
<1>9. QED
  BY <1>4, <1>5, <1>6, <1>7, <1>8 DEF IInv

\* A step between "accept" and "wait", or a return of accept, that leaves the objects
\* and the kernel alone; and an interruption of any call.
LEMMA QuietKeeps ==
    ASSUME IInv,
           UNCHANGED <<now, kernel, objectVars, self, method, host, restrict, asked, loopVars>>,
           \/ pc' = pc
           \/ pc \in {"accept", "wait"} /\ pc' \in {"accept", "wait", "idle"}
    PROVE  IInv'
<1>1. Table(kernel', sock', family', asked', Binding')
  BY DEF IInv, Binding, objectVars
<1>2. CallTypes'
  BY DEF IInv, CallTypes, objectVars, loopVars
<1>3. CallFits'
  BY DEF IInv, CallFits, objectVars, loopVars
<1>4. LoopFits'
  BY DEF IInv, LoopFits, objectVars, loopVars
<1>5. IdleHoldNothing'
  BY DEF IInv, IdleHoldNothing, CallFits, objectVars
<1>6. QED
  BY <1>1, <1>2, <1>3, <1>4, <1>5 DEF IInv

LEMMA AcceptTakesKeeps == ASSUME IInv, AcceptTakes PROVE IInv'
<1>1. PICK o \in Objects, fd \in Fds \ Open(kernel) :
        /\ NewObject(o, "client", fd, family[self])
        /\ kernel' = [kernel EXCEPT
                ![sock[self]].backlog = @ - 1,
                ![fd] = [Closed EXCEPT !.st = "connected", !.fam = kernel[sock[self]].fam,
                                       !.nonblocking = TRUE]]
        /\ asked' = [asked EXCEPT ![o] = {}]
  BY DEF AcceptTakes
<1> DEFINE sd == sock[self]
           s == [kernel[sd] EXCEPT !.backlog = @ - 1]
           d == [Closed EXCEPT !.st = "connected", !.fam = kernel[sd].fam, !.nonblocking = TRUE]
           A == [asked EXCEPT ![o] = {}]
           f == [family EXCEPT ![o] = family[self]]
           t == [tm EXCEPT ![o] = timeout_init(-1, -1)]
           c == [class EXCEPT ![o] = "client"]
<1>2. /\ pc = "accept" /\ pc' = "idle" /\ kernel[sd].backlog > 0
      /\ UNCHANGED <<now, self, method, host, restrict, list, current, started>>
  BY DEF AcceptTakes, loopVars
<1>3. /\ self \in Objects /\ sd # SOCKET_INVALID /\ sd \in Fds /\ kernel[sd] \in Descriptor
      /\ Fits(self, kernel[sd], family, asked) /\ kernel[sd].nonblocking
  BY <1>2 DEF IInv, CallTypes, CallFits, Table, Binding
<1>4. /\ class[o] = "free" /\ sock[o] = SOCKET_INVALID /\ o # self
      /\ class' = c /\ sock' = [sock EXCEPT ![o] = fd] /\ family' = f /\ tm' = t
  BY <1>1, <1>2 DEF NewObject, IInv, IdleHoldNothing, CallFits
<1>5. kernel[fd].st = "none" /\ fd # sd
  BY <1>1, <1>3 DEF Open, Fits
<1>6. s \in Descriptor /\ Fits(self, s, family, asked) /\ s.nonblocking
  BY <1>2, <1>3 DEF Fits, Descriptor
<1>7. /\ d \in Descriptor /\ d.st = "connected" /\ d.fam = kernel[sd].fam /\ d.bound = FALSE
      /\ d.peer = NoAddr /\ d.nonblocking
  BY <1>3 DEF Closed, Descriptor
<1>8. kernel' = [[kernel EXCEPT ![sd] = s] EXCEPT ![fd] = d]
  BY <1>1, <1>3, <1>5 DEF IInv, Table
<1>9. /\ family \in [Objects -> Families \cup {"unspec"}] /\ asked \in [Objects -> SUBSET Addrs]
      /\ tm \in [Objects -> TimeoutRecord]
  BY DEF IInv, CallTypes
<1>10. f[o] = family[self] /\ \A p \in Objects \ {o} : f[p] = family[p] /\ A[p] = asked[p]
  BY <1>9
<1>11. Fits(o, d, f, A)
  <2>1. family[self] # "unspec" => kernel[sd].fam = family[self]
    BY <1>3 DEF Fits
  <2> HIDE DEF d, f, A
  <2>2. QED
    BY <1>7, <1>10, <2>1 DEF Fits
<1>12. f \in [Objects -> Families \cup {"unspec"}] /\ A \in [Objects -> SUBSET Addrs]
  BY <1>3, <1>9
<1>13. t \in [Objects -> TimeoutRecord]
  BY <1>9 DEF timeout_init, TimeoutRecord
<1> HIDE DEF s, d, f, A, t
<1>14. Table([kernel EXCEPT ![sd] = s], sock, family, asked, {})
  <2>1. Table(kernel, sock, family, asked, {})
    BY <1>2 DEF IInv, Binding
  <2>2. QED
    BY <1>3, <1>6, <2>1, TableUpdate
<1>15. Table([kernel EXCEPT ![sd] = s], sock, f, A, {})
  BY <1>4, <1>10, <1>14, TableRelabel
<1>16. Table(kernel', sock', family', asked', Binding')
  <2>1. [kernel EXCEPT ![sd] = s][fd].st = "none"
    BY <1>3, <1>5 DEF IInv, Table
  <2>2. Table([[kernel EXCEPT ![sd] = s] EXCEPT ![fd] = d], [sock EXCEPT ![o] = fd], f, A, {})
    BY <1>4, <1>7, <1>11, <1>15, <2>1, TableMake
  <2>3. Binding' = {} /\ asked' = A
    BY <1>1, <1>2 DEF Binding, A
  <2>4. QED
    BY <1>4, <1>8, <2>2, <2>3
<1>17. CallTypes'
  BY <1>1, <1>2, <1>4, <1>12, <1>13 DEF IInv, CallTypes, A
<1>18. CallFits' /\ LoopFits'
  BY <1>2 DEF CallFits, LoopFits
<1>19. IdleHoldNothing'
  <2>1. \A p \in Objects : p # o => sock'[p] = sock[p] /\ class'[p] = class[p]
    BY <1>4 DEF IInv, Table, CallTypes
  <2>2. class'[o] = "client" /\ class[self] # "raw"
    BY <1>2, <1>4 DEF IInv, CallTypes, CallFits
  <2>3. QED
    BY <1>2, <2>1, <2>2 DEF IInv, IdleHoldNothing
<1>20. QED
  BY <1>16, <1>17, <1>18, <1>19 DEF IInv

\* Between calls, what a step must keep when no call is in progress.
LEMMA IdleKeeps ==
    ASSUME IInv, pc = "idle", pc' = "idle" \/ pc' = "accept",
           Table(kernel', sock', family', asked', {}), CallTypes', IdleHoldNothing',
           pc' = "accept" => /\ method' = "accept" /\ sock'[self'] # SOCKET_INVALID
                             /\ class'[self'] = "server"
    PROVE  IInv'
<1>1. Binding' = {} /\ CallFits' /\ LoopFits'
  BY DEF Binding, CallFits, LoopFits
<1>2. QED
  BY <1>1 DEF IInv

\* A userdata that was free becomes an object with socket s and class c.
LEMMA NewObjectFacts ==
    ASSUME IInv, pc = "idle", NEW o \in Objects, NEW c, NEW s, NEW fam, NewObject(o, c, s, fam),
           NEW A, \A p \in Objects \ {o} : A[p] = asked[p],
           fam \in Families \cup {"unspec"}, c \in {"raw", "master", "client", "server"}
    PROVE  /\ class[o] = "free" /\ sock[o] = SOCKET_INVALID
           /\ class' = [class EXCEPT ![o] = c] /\ class' \in [Objects -> {"free", "raw", "master", "client", "server"}]
           /\ sock' = [sock EXCEPT ![o] = s]
           /\ family' \in [Objects -> Families \cup {"unspec"}] /\ family'[o] = fam
           /\ tm' \in [Objects -> TimeoutRecord]
           /\ Table(kernel, sock, family', A, {})
<1>1. /\ class[o] = "free"
      /\ class' = [class EXCEPT ![o] = c] /\ sock' = [sock EXCEPT ![o] = s]
      /\ family' = [family EXCEPT ![o] = fam] /\ tm' = [tm EXCEPT ![o] = timeout_init(-1, -1)]
  BY DEF NewObject
<1>2. /\ sock[o] = SOCKET_INVALID /\ Table(kernel, sock, family, asked, {})
      /\ class \in [Objects -> {"free", "raw", "master", "client", "server"}]
      /\ family \in [Objects -> Families \cup {"unspec"}]
      /\ tm \in [Objects -> TimeoutRecord]
  BY <1>1 DEF IInv, Binding, IdleHoldNothing, CallTypes
<1>3. timeout_init(-1, -1) \in TimeoutRecord
  BY DEF timeout_init, TimeoutRecord
<1>4. /\ family' \in [Objects -> Families \cup {"unspec"}] /\ family'[o] = fam
      /\ \A p \in Objects \ {o} : family'[p] = family[p]
  BY <1>1, <1>2
<1>5. Table(kernel, sock, family', A, {})
  BY <1>2, <1>4, TableRelabel
<1>6. QED
  BY <1>1, <1>2, <1>3, <1>4, <1>5

LEMMA CreateKeeps ==
    ASSUME IInv, NEW o \in Objects,
           global_create(o) \/ \E fam \in Families : tcp_create(o, fam)
    PROVE  IInv'
<1>1. /\ pc = "idle" /\ pc' = "idle" /\ asked' = [asked EXCEPT ![o] = {}]
      /\ UNCHANGED <<now, self, method, host, restrict, list, current>>
  BY DEF global_create, tcp_create, loopVars
<1> DEFINE Made(s, fam) ==
              /\ NewObject(o, "master", s, fam)
              /\ \/ s = SOCKET_INVALID /\ kernel' = kernel
                 \/ s \in Fds /\ kernel[s].st = "none" /\ kernel' = Created(kernel, s, fam, TRUE)
<1>2. \E s, fam : fam \in Families \cup {"unspec"} /\ Made(s, fam)
  <2>1. CASE global_create(o)
    <3>1. Made(SOCKET_INVALID, "unspec")
      BY <2>1 DEF global_create
    <3>2. QED
      BY <3>1
  <2>2. CASE \E fam \in Families : tcp_create(o, fam)
    <3>1. PICK fam \in Families : tcp_create(o, fam)
      BY <2>2
    <3>2. \E s : Made(s, fam)
      <4>1. CASE \E fd \in Fds \ Open(kernel) :
                    kernel' = Created(kernel, fd, fam, TRUE) /\ NewObject(o, "master", fd, fam)
        BY <4>1 DEF Open
      <4>2. CASE NewObject(o, "master", SOCKET_INVALID, fam) /\ kernel' = kernel
        BY <4>2
      <4>3. QED
        BY <3>1, <4>1, <4>2 DEF tcp_create
    <3>3. QED
      BY <3>2
  <2>3. QED
    BY <2>1, <2>2
<1>2a. PICK s, fam : fam \in Families \cup {"unspec"} /\ Made(s, fam)
  BY <1>2
<1>3. asked' \in [Objects -> SUBSET Addrs] /\ \A p \in Objects \ {o} : asked'[p] = asked[p]
  BY <1>1 DEF IInv, CallTypes
<1>4. /\ class[o] = "free" /\ sock[o] = SOCKET_INVALID
      /\ class' = [class EXCEPT ![o] = "master"] /\ class' \in [Objects -> {"free", "raw", "master", "client", "server"}]
      /\ sock' = [sock EXCEPT ![o] = s]
      /\ family' \in [Objects -> Families \cup {"unspec"}] /\ family'[o] = fam
      /\ tm' \in [Objects -> TimeoutRecord]
      /\ Table(kernel, sock, family', asked', {})
  <2>1. NewObject(o, "master", s, fam) /\ fam \in Families \cup {"unspec"} /\ pc = "idle"
        /\ "master" \in {"raw", "master", "client", "server"}
        /\ \A p \in Objects \ {o} : asked'[p] = asked[p]
    BY <1>1, <1>2a, <1>3
  <2> HIDE DEF Made
  <2>2. QED
    BY <2>1, NewObjectFacts
<1> DEFINE d == [Closed EXCEPT !.st = "new", !.fam = fam, !.nonblocking = TRUE]
<1>5. Fits(o, d, family', asked') /\ d.nonblocking
  BY <1>4 DEF Fits, Closed, Descriptor
<1>6. Table(kernel', sock', family', asked', {})
  <2>1. CASE s = SOCKET_INVALID /\ kernel' = kernel
    <3>1. [sock EXCEPT ![o] = s] = sock
      BY <1>4, <2>1 DEF IInv, Table
    <3>2. QED
      BY <1>4, <2>1, <3>1
  <2>2. CASE s \in Fds /\ kernel[s].st = "none" /\ kernel' = Created(kernel, s, fam, TRUE)
    <3>1. kernel' = [kernel EXCEPT ![s] = d]
      BY <2>2 DEF Created
    <3> HIDE DEF d
    <3>2. Table([kernel EXCEPT ![s] = d], [sock EXCEPT ![o] = s], family', asked', {})
      BY <1>4, <1>5, <2>2, TableMake
    <3>3. QED
      BY <1>4, <3>1, <3>2
  <2>3. QED
    BY <1>2a, <2>1, <2>2
<1>7. CallTypes'
  BY <1>1, <1>3, <1>4 DEF IInv, CallTypes
<1>8. IdleHoldNothing'
  <2>1. \A p \in Objects : p # o => sock'[p] = sock[p] /\ class'[p] = class[p]
    BY <1>4 DEF IInv, Table, CallTypes
  <2>2. class'[o] = "master"
    BY <1>4 DEF IInv, CallTypes
  <2>3. QED
    BY <1>1, <2>1, <2>2 DEF IInv, IdleHoldNothing
<1>9. QED
  BY <1>1, <1>6, <1>7, <1>8, IdleKeeps

LEMMA SettimeoutKeeps ==
    ASSUME IInv, NEW o \in Objects, NEW value \in TimeoutValues, NEW mode, meth_settimeout(o, value, mode)
    PROVE  IInv'
<1>1. /\ pc = "idle" /\ pc' = "idle"
      /\ tm' = [tm EXCEPT ![o] = timeout_meth_settimeout(@, value, mode)]
      /\ UNCHANGED <<now, kernel, class, sock, family, self, method, host, restrict, asked, list, current>>
  BY DEF meth_settimeout, callVars, loopVars
<1>2. tm' \in [Objects -> TimeoutRecord]
  <2>1. tm \in [Objects -> TimeoutRecord] /\ tm[o] \in TimeoutRecord /\ value \in Int
    BY TimeoutAssumption DEF IInv, CallTypes
  <2>2. timeout_meth_settimeout(tm[o], value, mode) \in TimeoutRecord
    BY <2>1 DEF timeout_meth_settimeout, TimeoutRecord
  <2>3. QED
    BY <1>1, <2>1, <2>2
<1>3. CallTypes'
  BY <1>1, <1>2 DEF IInv, CallTypes
<1>4. QED
  BY <1>1, <1>3, IdleKeeps DEF IInv, Binding, IdleHoldNothing

\* close, and the collection of an object.
LEMMA DestroyKeeps ==
    ASSUME IInv, NEW o \in Objects, meth_close(o) \/ Collect(o)
    PROVE  IInv'
<1>1. /\ pc = "idle" /\ pc' = "idle"
      /\ sock' = [sock EXCEPT ![o] = SOCKET_INVALID]
      /\ UNCHANGED <<now, self, method, host, restrict, asked, list, current>>
  BY DEF meth_close, Collect, callVars, loopVars
<1>2. /\ class \in [Objects -> {"free", "raw", "master", "client", "server"}]
      /\ family \in [Objects -> Families \cup {"unspec"}] /\ tm \in [Objects -> TimeoutRecord]
      /\ sock \in [Objects -> Fds \cup {SOCKET_INVALID}]
      /\ Table(kernel, sock, family, asked, {})
  BY <1>1 DEF IInv, CallTypes, Table, Binding
<1>3. /\ class' \in [Objects -> {"free", "raw", "master", "client", "server"}]
      /\ family' \in [Objects -> Families \cup {"unspec"}] /\ tm' \in [Objects -> TimeoutRecord]
      /\ \A p \in Objects \ {o} : family'[p] = family[p] /\ class'[p] = class[p]
      /\ class'[o] \in {"free", class[o]}
  <2>1. CASE meth_close(o)
    BY <1>2, <2>1 DEF meth_close
  <2>2. CASE Collect(o)
    <3>1. timeout_init(-1, -1) \in TimeoutRecord
      BY DEF timeout_init, TimeoutRecord
    <3>2. QED
      BY <1>2, <2>2, <3>1 DEF Collect
  <2>3. QED
    BY <2>1, <2>2
<1>4. \/ kernel' = Destroyed(kernel, sock[o])
      \/ kernel' = kernel /\ class[o] = "raw"
  BY DEF meth_close, Collect
<1>5. Table(kernel', sock', family, asked, {})
  <2>1. CASE kernel' = Destroyed(kernel, sock[o])
    BY <1>1, <1>2, <2>1, TableDrop
  <2>2. CASE kernel' = kernel /\ class[o] = "raw"
    BY <1>1, <1>2, <2>2 DEF IInv, IdleHoldNothing, Table
  <2>3. QED
    BY <1>4, <2>1, <2>2
<1>6. Table(kernel', sock', family', asked', {})
  <2>1. sock'[o] = SOCKET_INVALID
    BY <1>1, <1>2
  <2>2. Table(kernel', sock', family', asked, {})
    BY <1>3, <1>5, <2>1, TableRelabel
  <2>3. QED
    BY <1>1, <2>2
<1>7. CallTypes'
  BY <1>1, <1>3 DEF IInv, CallTypes
<1>8. IdleHoldNothing'
  <2>1. \A p \in Objects : p # o => sock'[p] = sock[p]
    BY <1>1, <1>2
  <2>2. sock'[o] = SOCKET_INVALID
    BY <1>1, <1>2
  <2>3. QED
    BY <1>1, <1>3, <2>1, <2>2 DEF IInv, IdleHoldNothing
<1>9. QED
  BY <1>1, <1>6, <1>7, <1>8, IdleKeeps

LEMMA ListenKeeps == ASSUME IInv, NEW o \in Objects, meth_listen(o) PROVE IInv'
<1> DEFINE d == [kernel[sock[o]] EXCEPT !.st = "listening"]
<1>1. /\ pc = "idle" /\ pc' = "idle" /\ class[o] = "master"
      /\ UNCHANGED <<now, sock, family, tm, self, method, host, restrict, asked, list, current>>
  BY DEF meth_listen, callVars, loopVars
<1>2. \/ /\ sock[o] # SOCKET_INVALID /\ kernel' = [kernel EXCEPT ![sock[o]] = d]
         /\ class' = [class EXCEPT ![o] = "server"]
      \/ UNCHANGED <<kernel, class>>
  BY DEF meth_listen
<1>3. Table(kernel, sock, family, asked, {}) /\ class \in [Objects -> {"free", "raw", "master", "client", "server"}]
  BY <1>1 DEF IInv, Binding, CallTypes
<1>4. sock[o] # SOCKET_INVALID => Fits(o, d, family, asked) /\ d.nonblocking
  BY <1>3 DEF Table, Fits, Descriptor
<1>5. Table(kernel', sock', family', asked', {})
  <2> HIDE DEF d
  <2>1. CASE sock[o] # SOCKET_INVALID /\ kernel' = [kernel EXCEPT ![sock[o]] = d]
    <3>1. Table([kernel EXCEPT ![sock[o]] = d], sock, family, asked, {})
      BY <1>3, <1>4, <2>1, TableUpdate
    <3>2. QED
      BY <1>1, <2>1, <3>1
  <2>2. CASE UNCHANGED kernel
    BY <1>1, <1>3, <2>2
  <2>3. QED
    BY <1>2, <2>1, <2>2
<1>6. CallTypes'
  BY <1>1, <1>2, <1>3 DEF IInv, CallTypes
<1>7. IdleHoldNothing'
  BY <1>1, <1>2, <1>3 DEF IInv, IdleHoldNothing
<1>8. QED
  BY <1>1, <1>5, <1>6, <1>7, IdleKeeps

LEMMA AcceptKeeps == ASSUME IInv, NEW o \in Objects, meth_accept(o) PROVE IInv'
<1>1. /\ pc = "idle" /\ class[o] = "server" /\ self' = o /\ method' = "accept" /\ list' = <<>>
      /\ tm' = [tm EXCEPT ![o] = timeout_markstart(@, now)]
      /\ \/ pc' = "idle"
         \/ pc' = "accept" /\ sock[o] # SOCKET_INVALID
      /\ UNCHANGED <<now, kernel, class, sock, family, host, restrict, asked, current>>
  BY DEF meth_accept, Starts
<1>2. tm' \in [Objects -> TimeoutRecord]
  BY <1>1, MarkTyped
<1>3. list' \in Seq(Addrs)
  BY <1>1
<1>4. CallTypes'
  BY <1>1, <1>2, <1>3 DEF IInv, CallTypes
<1>5. Table(kernel', sock', family', asked', {}) /\ IdleHoldNothing'
  BY <1>1 DEF IInv, Binding, IdleHoldNothing
<1>6. QED
  BY <1>1, <1>4, <1>5, IdleKeeps

\* The list of addresses of a call on object o.
LEMMA ResolveFacts ==
    ASSUME NEW h \in Seq(Addrs), NEW fam
    PROVE  LET l == Resolve(h, fam) IN
           /\ l \in Seq(Addrs) /\ ToSet(l) \subseteq Addrs
           /\ \A i \in 1..Len(l) : l[i] \in ToSet(l)
           /\ fam # "unspec" => \A i \in 1..Len(l) : FamilyOf[l[i]] = fam
<1> DEFINE l == Resolve(h, fam)
<1>1. l \in Seq({a \in Addrs : Asked(a, fam)})
  BY ResolveFits
<1> HIDE DEF l
<1>2. l \in Seq(Addrs) /\ \A i \in 1..Len(l) : l[i] \in {a \in Addrs : Asked(a, fam)}
  BY <1>1
<1>3. ToSet(l) \subseteq Addrs /\ \A i \in 1..Len(l) : l[i] \in ToSet(l)
  BY <1>2 DEF ToSet
<1>4. fam # "unspec" => \A i \in 1..Len(l) : FamilyOf[l[i]] = fam
  BY <1>2 DEF Asked
<1>5. QED
  BY <1>2, <1>3, <1>4 DEF l

LEMMA BindKeeps == ASSUME IInv, NEW o \in Objects, NEW h \in Hosts, meth_bind(o, h) PROVE IInv'
<1> DEFINE l == Resolve(h, family[o])
<1>1. /\ pc = "idle" /\ class[o] = "master" /\ self' = o /\ method' = "bind" /\ list' = l
      /\ started' = {} /\ current' = family[o]
      /\ \/ pc' = "idle"
         \/ pc' = "bind" /\ l # <<>>
      /\ UNCHANGED <<now, kernel, class, sock, family, tm, host, restrict, asked>>
  BY DEF meth_bind, Starts, objectVars
<1>2. /\ l \in Seq(Addrs)
      /\ family[o] # "unspec" => \A i \in 1..Len(l) : FamilyOf[l[i]] = family[o]
  BY HostsAssumption, ResolveFacts
<1> HIDE DEF l
<1>3. Table(kernel, sock, family, asked, {}) /\ family[o] \in Families \cup {"unspec"}
  BY <1>1 DEF IInv, Binding, CallTypes
<1>4. Table(kernel', sock', family', asked', Binding')
  BY <1>1, <1>3, TableExempt
<1>5. CallTypes'
  BY <1>1, <1>2, <1>3 DEF IInv, CallTypes
<1>6. CallFits'
  BY <1>1 DEF IInv, CallFits
<1>7. LoopFits'
  <2>1. sock[o] # SOCKET_INVALID => Fits(o, kernel[sock[o]], family, asked)
    BY <1>3 DEF Table
  <2>2. QED
    BY <1>1, <1>2, <2>1 DEF LoopFits, Fits
<1>8. IdleHoldNothing'
  BY <1>1 DEF IInv, IdleHoldNothing
<1>9. QED
  BY <1>4, <1>5, <1>6, <1>7, <1>8 DEF IInv

LEMMA ConnectKeeps == ASSUME IInv, NEW o \in Objects, NEW h \in Hosts, meth_connect(o, h) PROVE IInv'
<1> DEFINE l == Resolve(h, family[o])
           A == [asked EXCEPT ![o] = @ \cup ToSet(l)]
<1>1. /\ pc = "idle" /\ class[o] \in {"master", "client", "server"} /\ self' = o
      /\ method' = "connect" /\ list' = l /\ started' = {} /\ current' = family[o]
      /\ \/ pc' = "idle" /\ class' = [class EXCEPT ![o] = "client"]
         \/ pc' = "try" /\ class' = class /\ l # <<>>
      /\ tm' = [tm EXCEPT ![o] = timeout_markstart(@, now)] /\ asked' = A
      /\ UNCHANGED <<now, kernel, sock, family, host, restrict>>
  BY DEF meth_connect, Starts
<1>2. /\ l \in Seq(Addrs) /\ ToSet(l) \subseteq Addrs /\ \A i \in 1..Len(l) : l[i] \in ToSet(l)
      /\ family[o] # "unspec" => \A i \in 1..Len(l) : FamilyOf[l[i]] = family[o]
  BY HostsAssumption, ResolveFacts
<1> HIDE DEF l
<1>3. /\ Table(kernel, sock, family, asked, {}) /\ family[o] \in Families \cup {"unspec"}
      /\ asked \in [Objects -> SUBSET Addrs]
      /\ class \in [Objects -> {"free", "raw", "master", "client", "server"}]
  BY <1>1 DEF IInv, Binding, CallTypes
<1>4. /\ A \in [Objects -> SUBSET Addrs] /\ A[o] = asked[o] \cup ToSet(l)
      /\ \A p \in Objects \ {o} : A[p] = asked[p]
  BY <1>2, <1>3
<1> HIDE DEF A
<1>5. Table(kernel', sock', family', asked', Binding')
  <2>1. sock[o] # SOCKET_INVALID =>
            Fits(o, kernel[sock[o]], family, A) /\ kernel[sock[o]].nonblocking
    BY <1>3, <1>4 DEF Table, Fits
  <2>2. Table(kernel, sock, family, A, {})
    BY <1>3, <1>4, <2>1, TableRelabel
  <2>3. QED
    BY <1>1, <2>2 DEF Binding
<1>6. CallTypes'
  <2>1. tm' \in [Objects -> TimeoutRecord]
    BY <1>1, MarkTyped
  <2>2. QED
    BY <1>1, <1>2, <1>3, <1>4, <2>1 DEF IInv, CallTypes
<1>7. CallFits'
  BY <1>1 DEF IInv, CallFits
<1>8. LoopFits'
  <2>1. sock[o] # SOCKET_INVALID => Fits(o, kernel[sock[o]], family, asked)
    BY <1>3 DEF Table
  <2>2. QED
    BY <1>1, <1>2, <1>4, <2>1 DEF LoopFits, Fits
<1>9. IdleHoldNothing'
  BY <1>1, <1>3 DEF IInv, IdleHoldNothing
<1>10. QED
  BY <1>5, <1>6, <1>7, <1>8, <1>9 DEF IInv

LEMMA GlobalConnectKeeps ==
    ASSUME IInv, NEW o \in Objects, NEW h \in Hosts, NEW local \in Local,
           NEW fam \in Families \cup {"unspec"}, global_connect(o, h, local, fam)
    PROVE  IInv'
<1> DEFINE l == IF local = <<>> THEN h ELSE Resolve(local, fam)
           A == [asked EXCEPT ![o] = ToSet(h)]
<1>1. /\ pc = "idle" /\ NewObject(o, "raw", SOCKET_INVALID, "unspec") /\ self' = o
      /\ method' = "global_connect" /\ list' = l /\ started' = {} /\ current' = "unspec"
      /\ host' = h /\ restrict' = fam /\ asked' = A
      /\ \/ pc' = "idle"
         \/ pc' = "try" /\ local = <<>> /\ l # <<>>
         \/ pc' = "bind" /\ local # <<>> /\ l # <<>>
      /\ UNCHANGED <<now, kernel>>
  BY DEF global_connect, Starts
<1>2. h \in Seq(Addrs) /\ l \in Seq(Addrs) /\ ToSet(h) \subseteq Addrs
      /\ \A i \in 1..Len(h) : h[i] \in ToSet(h)
  BY HostsAssumption, ResolveFacts DEF ToSet
<1>3. /\ A \in [Objects -> SUBSET Addrs] /\ A[o] = ToSet(h)
      /\ \A p \in Objects \ {o} : A[p] = asked[p]
  BY <1>2 DEF IInv, CallTypes
<1> HIDE DEF A
<1>4. /\ class[o] = "free" /\ sock[o] = SOCKET_INVALID
      /\ class' = [class EXCEPT ![o] = "raw"]
      /\ class' \in [Objects -> {"free", "raw", "master", "client", "server"}]
      /\ sock' = [sock EXCEPT ![o] = SOCKET_INVALID]
      /\ family' \in [Objects -> Families \cup {"unspec"}] /\ family'[o] = "unspec"
      /\ tm' \in [Objects -> TimeoutRecord]
      /\ Table(kernel, sock, family', A, {})
  <2>1. "unspec" \in Families \cup {"unspec"} /\ "raw" \in {"raw", "master", "client", "server"}
    OBVIOUS
  <2>2. QED
    BY <1>1, <1>3, <2>1, NewObjectFacts
<1>5. sock' = sock
  BY <1>4 DEF IInv, Table
<1>6. Table(kernel', sock', family', asked', Binding')
  BY <1>1, <1>4, <1>5, TableExempt
<1>7. CallTypes'
  <2> HIDE DEF l
  <2>1. QED
    BY <1>1, <1>2, <1>3, <1>4 DEF IInv, CallTypes
<1>8. class \in [Objects -> {"free", "raw", "master", "client", "server"}] /\ class'[o] = "raw"
  BY <1>4 DEF IInv, CallTypes
<1>9. CallFits'
  <2> HIDE DEF l
  <2>1. QED
    BY <1>1, <1>8 DEF CallFits
<1>10. LoopFits'
  <2>1. sock'[o] = SOCKET_INVALID /\ (local = <<>> => l = h)
    BY <1>4, <1>5
  <2> HIDE DEF l
  <2>2. QED
    BY <1>1, <1>2, <1>3, <1>4, <2>1 DEF LoopFits
<1>11. IdleHoldNothing'
  <2>1. Local \subseteq {<<>>} => local = <<>>
    OBVIOUS
  <2> HIDE DEF l
  <2>2. QED
    BY <1>1, <1>4, <1>5, <1>8, <2>1 DEF IInv, IdleHoldNothing
<1>12. QED
  BY <1>6, <1>7, <1>9, <1>10, <1>11 DEF IInv

\* The clock moves, a connection is decided, a client comes or goes.
LEMMA EnvironmentKeeps == ASSUME IInv, Environment PROVE IInv'
<1>1. UNCHANGED <<objectVars, pc, self, method, host, restrict, asked, loopVars>>
  BY DEF Environment, Tick, ConnectionResolves, ClientArrives, callVars
<1>2. CASE Tick
  <2>1. CallTypes'
    BY <1>1, <1>2 DEF Tick, IInv, CallTypes, objectVars, loopVars
  <2>2. QED
    BY <1>1, <1>2, <2>1 DEF Tick, IInv, Table, Binding, CallFits, LoopFits, IdleHoldNothing, objectVars, loopVars
<1>3. CASE \E fd \in Fds : ConnectionResolves(fd) \/ ClientArrives(fd)
  <2>1. PICK fd \in Fds : ConnectionResolves(fd) \/ ClientArrives(fd)
    BY <1>3
  <2>2. PICK d : /\ kernel' = [kernel EXCEPT ![fd] = d] /\ d \in Descriptor /\ kernel[fd] \in Descriptor
                 /\ kernel[fd].st # "none" /\ d.st # "none"
                 /\ d.fam = kernel[fd].fam /\ d.bound = kernel[fd].bound /\ d.peer = kernel[fd].peer
                 /\ d.nonblocking = kernel[fd].nonblocking
                 /\ d.st \in {"connecting", "established"} => kernel[fd].st \in {"connecting", "established"}
    <3>1. kernel[fd] \in Descriptor
      BY DEF IInv, Table
    <3>2. CASE ConnectionResolves(fd)
      <4>1. PICK st \in {"established", "refused"} : kernel' = [kernel EXCEPT ![fd].st = st]
        BY <3>2 DEF ConnectionResolves
      <4> DEFINE d == [kernel[fd] EXCEPT !.st = st]
      <4>2. /\ kernel' = [kernel EXCEPT ![fd] = d] /\ d \in Descriptor /\ kernel[fd].st # "none" /\ d.st # "none"
            /\ d.fam = kernel[fd].fam /\ d.bound = kernel[fd].bound /\ d.peer = kernel[fd].peer
            /\ d.nonblocking = kernel[fd].nonblocking
            /\ d.st \in {"connecting", "established"} => kernel[fd].st \in {"connecting", "established"}
        BY <3>1, <3>2, <4>1 DEF ConnectionResolves, Descriptor
      <4>3. QED
        BY <3>1, <4>2
    <3>3. CASE ClientArrives(fd)
      <4> DEFINE d == [kernel[fd] EXCEPT !.backlog = 1 - @]
      <4>2. /\ kernel' = [kernel EXCEPT ![fd] = d] /\ d \in Descriptor /\ kernel[fd].st # "none" /\ d.st # "none"
            /\ d.fam = kernel[fd].fam /\ d.bound = kernel[fd].bound /\ d.peer = kernel[fd].peer
            /\ d.nonblocking = kernel[fd].nonblocking
            /\ d.st \in {"connecting", "established"} => kernel[fd].st \in {"connecting", "established"}
        BY <3>1, <3>3 DEF ClientArrives, Descriptor
      <4>3. QED
        BY <3>1, <4>2
    <3>4. QED
      BY <2>1, <3>2, <3>3
  <2>3. /\ kernel' \in [Fds -> Descriptor] /\ kernel'[fd] = d
        /\ \A e \in Fds : e # fd => kernel'[e] = kernel[e]
    BY <2>2 DEF IInv, Table
  <2>4. UNCHANGED <<class, sock, family, tm, list, current, started, now>>
    BY <1>1, <2>1 DEF objectVars, loopVars, ConnectionResolves, ClientArrives
  <2>5. Table(kernel', sock', family', asked', Binding')
    BY <1>1, <2>2, <2>3, <2>4, FdsAssumption DEF IInv, Table, Fits, Binding
  <2>6. CallTypes' /\ CallFits' /\ IdleHoldNothing'
    BY <1>1, <2>4 DEF IInv, CallTypes, CallFits, IdleHoldNothing
  <2>7. LoopFits'
    <3>1. sock[self] # SOCKET_INVALID => sock[self] \in Fds
      BY DEF IInv, Table, CallTypes
    <3>2. QED
      BY <1>1, <2>2, <2>3, <2>4, <3>1 DEF IInv, LoopFits
  <2>8. QED
    BY <2>5, <2>6, <2>7 DEF IInv
<1>4. QED
  BY <1>2, <1>3 DEF Environment


-----------------------------------------------------------------------------
\* The theorems.

\* The invariant holds from the start and every step of the specification keeps it.
LEMMA InitOK == Init => IInv
<1> SUFFICES ASSUME Init PROVE IInv
  OBVIOUS
<1>1. Closed \in Descriptor /\ Closed.st = "none" /\ ~Closed.bound
  BY DEF Closed, Descriptor
<1>2. Table(kernel, sock, family, asked, Binding)
  BY <1>1 DEF Init, Table
<1>3. timeout_init(-1, -1) \in TimeoutRecord
  BY DEF timeout_init, TimeoutRecord
<1>4. CallTypes
  BY <1>3, BoundsAssumption DEF Init, CallTypes
<1>5. CallFits /\ LoopFits /\ IdleHoldNothing
  BY DEF Init, CallFits, LoopFits, IdleHoldNothing
<1>6. QED
  BY <1>2, <1>4, <1>5 DEF IInv

LEMMA StepOK == ASSUME IInv, [Next]_vars PROVE IInv'
<1>1. CASE Environment
  BY <1>1, EnvironmentKeeps
<1>2. CASE Client
  <2>1. PICK o \in Objects :
        \/ global_create(o)
        \/ \E fam \in Families : tcp_create(o, fam)
        \/ \E value \in TimeoutValues, mode \in {"b", "t"} : meth_settimeout(o, value, mode)
        \/ meth_close(o) \/ Collect(o)
        \/ \E h \in Hosts : meth_bind(o, h) \/ meth_connect(o, h)
        \/ \E h \in Hosts, local \in Local, fam \in Families \cup {"unspec"} :
                global_connect(o, h, local, fam)
        \/ meth_listen(o) \/ meth_accept(o)
    BY <1>2 DEF Client
  <2>2. QED
    BY <2>1, CreateKeeps, SettimeoutKeeps, DestroyKeeps, BindKeeps, ConnectKeeps,
       GlobalConnectKeeps, ListenKeeps, AcceptKeeps
<1>3. CASE Call
  <2>1. CASE ReplaceSocket \/ BindAddress
    BY <2>1, ReplaceSocketKeeps, BindAddressKeeps
  <2>2. CASE TryAddress \/ ConnectStarts \/ ConnectAgain \/ PollReady \/ PollFails
    BY <2>2, TryAddressKeeps, ConnectStartsKeeps, ConnectAgainKeeps, PollReadyKeeps, PollFailsKeeps
  <2>3. CASE Interrupted
    BY <2>3, QuietKeeps DEF Interrupted, callVars
  <2>4. CASE AcceptTakes
    BY <2>4, AcceptTakesKeeps
  <2>5. CASE AcceptFails \/ AcceptWouldBlock
    BY <2>5, QuietKeeps DEF AcceptFails, AcceptWouldBlock, callVars
  <2>6. CASE WaitReady \/ WaitFails
    BY <2>6, QuietKeeps DEF WaitReady, WaitFails, callVars
  <2>7. QED
    BY <1>3, <2>1, <2>2, <2>3, <2>4, <2>5, <2>6 DEF Call
<1>4. CASE UNCHANGED vars
  BY <1>4, QuietKeeps DEF vars, callVars
<1>5. QED
  BY <1>1, <1>2, <1>3, <1>4 DEF Next

\* Whatever calls the program makes, and however the kernel and the network answer,
\* the inductive invariant holds: the objects, the table of descriptors and the
\* loops of inet_trybind and inet_tryconnect agree.
THEOREM Invariance == Spec => []IInv
<1>1. Init => IInv
  BY InitOK
<1>2. IInv /\ [Next]_vars => IInv'
  BY StepOK
<1>3. QED
  BY <1>1, <1>2, PTL DEF Spec

\* Descriptor numbers are never shared by two objects, and never kept once they are
\* closed: inet_trycreate, socket_destroy, accept and the collector hand them on
\* without a slip, so that no close of tcp.c can hit a socket that reuses a number.
THEOREM HeldOnce == Spec => []OwnedOnce
<1>1. IInv => OwnedOnce
  BY DEF IInv, Table, Fits, OwnedOnce, Open
<1>2. QED
  BY <1>1, Invariance, PTL

\* When socket.connect is given no local address, no descriptor leaks either: every
\* open socket is that of exactly one object.  (With one, a bind that fails in
\* global_connect leaves its socket to a userdata that has no metatable, hence no
\* __gc: the hypothesis is what the code needs.)
THEOREM OwnedCorrect == ASSUME Local \subseteq {<<>>} PROVE Spec => []Owned
<1>1. IInv => Owned
  BY DEF IInv, Table, Fits, Owned, OwnedOnce, NoLeak, Open
<1>2. QED
  BY <1>1, Invariance, PTL

\* Every socket a limited call can be made on is in non-blocking mode, be it made by
\* tcp4, by a connect on first use, by bind, which makes its own in blocking mode and
\* sets it at the end, or by accept.
THEOREM NonBlockingCorrect == Spec => []NonBlocking
<1>1. IInv => NonBlocking
  BY DEF IInv, Table, Binding, NonBlocking
<1>2. QED
  BY <1>1, Invariance, PTL

-----------------------------------------------------------------------------
\* The action properties.

\* What an address that is done with makes of the call.
LEMMA NextAddressEffect ==
    ASSUME NEW e, NEW k, NEW s, NextAddress(e, k, s)
    PROVE  /\ pc' = "idle" => err' = e
           /\ method = "connect" => kernel' = k
BY DEF NextAddress, Return

LEMMA AnswerEffect ==
    ASSUME IInv, NEW e, NEW k, Answer(e, k)
    PROVE  /\ method = "connect" => kernel' = k
           /\ pc' = "idle" /\ err' = "done" =>
                 e = "done" /\ kernel' = k /\ sock' = sock /\ family'[self] = current
<1>1. /\ [sock EXCEPT ![self] = sock[self]] = sock
      /\ [family EXCEPT ![self] = current][self] = current
  BY DEF IInv, Table, CallTypes
<1>2. CASE e = "done" \/ timeout_iszero(tm[self])
  <2>1. Return(e, k, sock[self]) /\ family' = [family EXCEPT ![self] = current]
    BY <1>2 DEF Answer
  <2>2. QED
    BY <1>1, <2>1 DEF Return
<1>3. CASE ~(e = "done" \/ timeout_iszero(tm[self]))
  BY <1>3, NextAddressEffect DEF Answer
<1>4. QED
  BY <1>2, <1>3

\* The program calls an operation only when none is under way.
LEMMA ClientIsIdle == Client => pc = "idle"
<1> SUFFICES ASSUME NEW o \in Objects,
                    \/ global_create(o)
                    \/ \E fam \in Families : tcp_create(o, fam)
                    \/ \E value \in TimeoutValues, mode \in {"b", "t"} :
                            meth_settimeout(o, value, mode)
                    \/ meth_close(o) \/ Collect(o)
                    \/ \E h \in Hosts : meth_bind(o, h) \/ meth_connect(o, h)
                    \/ \E h \in Hosts, local \in Local, fam \in Families \cup {"unspec"} :
                            global_connect(o, h, local, fam)
                    \/ meth_listen(o) \/ meth_accept(o)
             PROVE  pc = "idle"
  BY DEF Client
<1>1. global_create(o) \/ meth_close(o) \/ Collect(o) => pc = "idle"
  BY DEF global_create, meth_close, Collect
<1>2. \A fam : tcp_create(o, fam) => pc = "idle"
  BY DEF tcp_create
<1>3. \A value, mode : meth_settimeout(o, value, mode) => pc = "idle"
  BY DEF meth_settimeout
<1>4. \A h : meth_bind(o, h) \/ meth_connect(o, h) => pc = "idle"
  BY DEF meth_bind, meth_connect
<1>5. \A h, local, fam : global_connect(o, h, local, fam) => pc = "idle"
  BY DEF global_connect
<1>6. meth_listen(o) \/ meth_accept(o) => pc = "idle"
  BY DEF meth_listen, meth_accept
<1>7. QED
  BY <1>1, <1>2, <1>3, <1>4, <1>5, <1>6

\* A call of connect leaves every binding to a local address as it is.
LEMMA StepKeepsLocal ==
    ASSUME IInv, Next, Connecting("connect"), NEW fd \in Fds, kernel[fd].bound
    PROVE  kernel'[fd].bound
<1>1. /\ kernel \in [Fds -> Descriptor] /\ pc \in {"try", "connect", "poll"} /\ method = "connect"
      /\ sock[self] # SOCKET_INVALID => sock[self] \in Fds
  BY DEF IInv, Table, CallTypes, CallFits, Connecting
<1>2. CASE Environment
  <2>1. CASE Tick
    BY <2>1 DEF Tick
  <2>2. ASSUME NEW f \in Fds, ConnectionResolves(f) \/ ClientArrives(f)
        PROVE  kernel'[fd].bound
    BY <1>1, <2>2 DEF ConnectionResolves, ClientArrives, Descriptor
  <2>3. QED
    BY <1>2, <2>1, <2>2 DEF Environment
<1>3. CASE Client
  BY <1>1, <1>3, ClientIsIdle
<1>4. CASE ReplaceSocket
  <2> DEFINE k == Destroyed(kernel, sock[self])
  <2>1. sock[self] = SOCKET_INVALID \/ sock[self] # fd
    <3>1. SUFFICES ASSUME sock[self] # SOCKET_INVALID, sock[self] = fd PROVE FALSE
      OBVIOUS
    <3>2. pc = "connect" /\ current # FamilyOf[Head(list)]
      BY <1>1, <1>4, <3>1 DEF ReplaceSocket, Suits
    <3>3. Fits(self, kernel[fd], family, asked)
      BY <1>1, <3>1, LoopFacts
    <3>4. family[self] # "unspec"
      BY <3>3 DEF Fits
    <3>5. current = family[self]
      BY <1>1, <3>4 DEF IInv, LoopFits
    <3>6. FamilyOf[Head(list)] = family[self]
      BY <1>1, <3>4, LoopFacts
    <3>7. QED
      BY <3>2, <3>5, <3>6
  <2>2. k[fd] = kernel[fd] /\ k \in [Fds -> Descriptor] /\ k[fd].st # "none"
    <3>1. kernel[fd].st # "none"
      BY DEF IInv, Table
    <3>2. Closed \in Descriptor
      BY DEF Closed, Descriptor
    <3>3. QED
      BY <1>1, <2>1, <3>1, <3>2, FdsAssumption DEF Destroyed
  <2>3. \/ \E f \in Fds : \E d : k[f].st = "none" /\ kernel' = [k EXCEPT ![f] = d]
        \/ NextAddress("error", k, SOCKET_INVALID)
    BY <1>4 DEF ReplaceSocket, Created, Open
  <2> HIDE DEF k
  <2>4. CASE \E f \in Fds : \E d : k[f].st = "none" /\ kernel' = [k EXCEPT ![f] = d]
    BY <2>2, <2>4
  <2>5. CASE NextAddress("error", k, SOCKET_INVALID)
    BY <1>1, <2>2, <2>5, NextAddressEffect
  <2>6. QED
    BY <2>3, <2>4, <2>5
<1>5. CASE ConnectStarts
  <2> DEFINE k == [kernel EXCEPT ![sock[self]].st = "connecting", ![sock[self]].peer = Head(list)]
  <2>1. Answer("error", kernel) \/ Answer("timeout", k) \/ kernel' = k
    BY <1>5 DEF ConnectStarts
  <2>2. k[fd].bound
    BY <1>1 DEF Descriptor
  <2> HIDE DEF k
  <2>3. QED
    BY <1>1, <2>1, <2>2, AnswerEffect
<1>6. CASE ConnectAgain
  <2> DEFINE k(st) == [kernel EXCEPT ![sock[self]].st = st]
  <2>1. Answer("done", k("connected")) \/ Answer("error", k("new")) \/ Answer("error", kernel)
    BY <1>6 DEF ConnectAgain
  <2>2. k("connected")[fd].bound /\ k("new")[fd].bound
    BY <1>1 DEF Descriptor
  <2> HIDE DEF k
  <2>3. QED
    BY <1>1, <2>1, <2>2, AnswerEffect
<1>7. CASE PollReady
  <2> DEFINE k == [kernel EXCEPT ![sock[self]].st = "aborted"]
  <2>1. Answer("done", kernel) \/ Answer("error", k)
    BY <1>7 DEF PollReady
  <2>2. k[fd].bound
    BY <1>1 DEF Descriptor
  <2> HIDE DEF k
  <2>3. QED
    BY <1>1, <2>1, <2>2, AnswerEffect
<1>8. CASE PollFails
  BY <1>1, <1>8, AnswerEffect DEF PollFails
<1>9. CASE TryAddress \/ Interrupted
  BY <1>9 DEF TryAddress, Interrupted
<1>10. CASE BindAddress \/ AcceptTakes \/ AcceptFails \/ AcceptWouldBlock \/ WaitReady \/ WaitFails
  BY <1>1, <1>10 DEF BindAddress, AcceptTakes, AcceptFails, AcceptWouldBlock, WaitReady, WaitFails
<1>11. QED
  BY <1>2, <1>3, <1>4, <1>5, <1>6, <1>7, <1>8, <1>9, <1>10 DEF Next, Call

\* Calling an operation starts no connection.
LEMMA ClientStarts == Client => started' \subseteq started
<1> SUFFICES ASSUME NEW o \in Objects,
                    \/ global_create(o)
                    \/ \E fam \in Families : tcp_create(o, fam)
                    \/ \E value \in TimeoutValues, mode \in {"b", "t"} :
                            meth_settimeout(o, value, mode)
                    \/ meth_close(o) \/ Collect(o)
                    \/ \E h \in Hosts : meth_bind(o, h) \/ meth_connect(o, h)
                    \/ \E h \in Hosts, local \in Local, fam \in Families \cup {"unspec"} :
                            global_connect(o, h, local, fam)
                    \/ meth_listen(o) \/ meth_accept(o)
             PROVE  started' \subseteq started
  BY DEF Client
<1>1. global_create(o) \/ meth_close(o) \/ Collect(o) => started' = started
  BY DEF global_create, meth_close, Collect, loopVars
<1>2. \A fam : tcp_create(o, fam) => started' = started
  BY DEF tcp_create, loopVars
<1>3. \A value, mode : meth_settimeout(o, value, mode) => started' = started
  BY DEF meth_settimeout, loopVars
<1>4. \A h : meth_bind(o, h) \/ meth_connect(o, h) => started' = {}
  BY DEF meth_bind, meth_connect, Starts
<1>5. \A h, local, fam : global_connect(o, h, local, fam) => started' = {}
  BY DEF global_connect, Starts
<1>6. (meth_listen(o) => started' = started) /\ (meth_accept(o) => started' = {})
  BY DEF meth_listen, meth_accept, Starts, loopVars
<1>7. QED
  BY <1>1, <1>2, <1>3, <1>4, <1>5, <1>6

\* A connect that succeeds has reached an address it was given.
LEMMA StepReachesAsked ==
    ASSUME IInv, Next, pc # "idle", pc' = "idle", method \in {"connect", "global_connect"},
           err' = "done"
    PROVE  LET s == kernel'[sock'[self]] IN
           /\ s.st \in {"established", "connected"}
           /\ s.peer \in asked'[self]
           /\ s.fam = family'[self] /\ FamilyOf[s.peer] = s.fam
<1>1. pc \in {"bind", "try", "connect", "poll"} /\ kernel \in [Fds -> Descriptor]
  BY DEF IInv, CallTypes, CallFits, Table
<1>2. ~Environment /\ ~Client
  BY ClientIsIdle DEF Environment, Tick, ConnectionResolves, ClientArrives
<1>3. ~ReplaceSocket
  BY NextAddressEffect DEF ReplaceSocket
<1>4. ~BindAddress
  BY NextAddressEffect DEF BindAddress
<1>5. ~TryAddress /\ ~Interrupted /\ ~AcceptTakes /\ ~AcceptFails /\ ~AcceptWouldBlock
      /\ ~WaitReady /\ ~WaitFails
  BY <1>1 DEF TryAddress, Interrupted, AcceptTakes, AcceptFails, AcceptWouldBlock, WaitReady, WaitFails
<1>6. ~ConnectStarts
  <2>1. ConnectStarts => \/ Answer("error", kernel) \/ pc' = "poll"
                         \/ \E k : Answer("timeout", k)
    BY DEF ConnectStarts
  <2>2. QED
    BY <2>1, AnswerEffect
<1>7. ~PollFails
  BY AnswerEffect DEF PollFails
<1>8. PICK k : /\ Answer("done", k) /\ asked' = asked /\ sock[self] # SOCKET_INVALID /\ current # "unspec"
               /\ kernel[sock[self]].st = "established"
               /\ k = kernel \/ k = [kernel EXCEPT ![sock[self]].st = "connected"]
  <2>1. CASE ConnectAgain
    <3>1. Suits(Head(list)) /\ current = FamilyOf[Head(list)]
      BY <2>1 DEF ConnectAgain, Suits
    <3>2. current # "unspec"
      BY <1>1, <3>1, LoopFacts
    <3>3. Answer("done", [kernel EXCEPT ![sock[self]].st = "connected"]) /\ kernel[sock[self]].st = "established"
      BY <2>1, AnswerEffect DEF ConnectAgain
    <3>4. QED
      BY <2>1, <3>1, <3>2, <3>3 DEF ConnectAgain, callVars, Suits
  <2>2. CASE PollReady
    <3>1. current = FamilyOf[Head(list)] /\ sock[self] # SOCKET_INVALID
      BY <2>2 DEF PollReady, IInv, CallFits
    <3>2. current # "unspec"
      BY <1>1, <3>1, LoopFacts
    <3>3. Answer("done", kernel) /\ kernel[sock[self]].st = "established"
      BY <2>2, AnswerEffect DEF PollReady
    <3>4. QED
      BY <2>2, <3>1, <3>2, <3>3 DEF PollReady, callVars
  <2>3. QED
    BY <1>2, <1>3, <1>4, <1>5, <1>6, <1>7, <2>1, <2>2 DEF Next, Call
<1> DEFINE fd == sock[self]
<1>9. kernel' = k /\ sock' = sock /\ family'[self] = current
  BY <1>8, AnswerEffect
<1>10. /\ fd \in Fds /\ kernel[fd] \in Descriptor /\ Fits(self, kernel[fd], family, asked)
       /\ kernel[fd].fam = current
  BY <1>1, <1>8, LoopFacts DEF IInv, LoopFits
<1>11. /\ k[fd].st \in {"established", "connected"} /\ k[fd].peer = kernel[fd].peer
       /\ k[fd].fam = kernel[fd].fam
  BY <1>1, <1>8, <1>10 DEF Descriptor
<1>12. kernel[fd].peer \in asked[self] /\ FamilyOf[kernel[fd].peer] = kernel[fd].fam
  BY <1>8, <1>10 DEF Fits
<1>13. QED
  BY <1>8, <1>9, <1>10, <1>11, <1>12

\* A connect never costs an object the local address it is bound to, and succeeds only
\* with a connection to an address the object was given, of the family the object
\* then has: although inet_tryconnect replaces sockets on its way through a list of
\* addresses, and connects again on sockets whose earlier attempt still runs.
THEOREM BothEndsCorrect == Spec => BothEnds
<1>1. IInv /\ [Next]_vars => [LocalKept /\ PeerAsked]_vars
  BY StepKeepsLocal, StepReachesAsked DEF LocalKept, PeerAsked, Returns
<1>2. QED
  BY <1>1, Invariance, PTL DEF Spec, BothEnds

\* With a zero limit inet_tryconnect starts one connection at most, even after a first
\* address for which no socket could be made or whose connect was interrupted.
THEOREM ZeroTriesOneCorrect == Spec => ZeroTriesOne
<1> DEFINE OnlyFirst == started' \ started # {} /\ timeout_iszero(tm[self]) => started = {}
<1>1. IInv /\ [Next]_vars => [OnlyFirst]_vars
  <2> SUFFICES ASSUME IInv, Next, started' \ started # {}, timeout_iszero(tm[self])
               PROVE  started = {}
    BY DEF OnlyFirst
  <2>1. CASE ConnectStarts
    BY <2>1 DEF ConnectStarts, IInv, CallFits
  <2>2. CASE ~ConnectStarts
    <3>1. CASE Environment
      BY <3>1 DEF Environment, Tick, ConnectionResolves, ClientArrives, loopVars
    <3>2. CASE Client
      BY <3>2, ClientStarts
    <3>3. CASE Call
      BY <2>2, <3>3 DEF Call, ReplaceSocket, BindAddress, TryAddress, ConnectAgain, PollReady,
         PollFails, Interrupted, AcceptTakes, AcceptFails, AcceptWouldBlock, WaitReady, WaitFails,
         loopVars
    <3>4. QED
      BY <3>1, <3>2, <3>3 DEF Next
  <2>3. QED
    BY <2>1, <2>2
<1>2. QED
  BY <1>1, Invariance, PTL DEF Spec, ZeroTriesOne

-----------------------------------------------------------------------------
\* The waits of connect and accept, and their limits.

\* Rounding to whole milliseconds takes less than one away and never adds.
LEMMA Rounding ==
    ASSUME NEW t \in Nat
    PROVE  /\ t \div Ms \in Nat /\ (t \div Ms) * Ms \in Nat
           /\ (t \div Ms) * Ms <= t /\ (t \div Ms) * Ms + Ms > t
<1>1. Ms \in Nat /\ Ms > 0
  BY MsAssumption
<1>2. t \div Ms \in Nat /\ t = Ms * (t \div Ms) + (t % Ms) /\ t % Ms \in 0..(Ms - 1)
  BY <1>1, Z3
<1>3. QED BY <1>1, <1>2, Z3

\* A time that fits the int of poll is waited for, to the millisecond.
LEMMA FittingWait ==
    ASSUME NEW t \in Nat, t <= IntMax * Ms, NEW w \in PollWaits(t)
    PROVE  w \in Nat /\ w <= t /\ w + Ms > t
<1>1. Ms \in Nat /\ Ms > 0 /\ IntMax \in Nat
  BY MsAssumption, IntMaxAssumption
<1>2. t \div Ms <= IntMax
  <2>1. SUFFICES ASSUME t \div Ms >= IntMax + 1 PROVE FALSE
    BY <1>1, Rounding
  <2>2. (t \div Ms) * Ms >= (IntMax + 1) * Ms
    BY <1>1, <2>1, Rounding, Z3
  <2>3. (IntMax + 1) * Ms = IntMax * Ms + Ms /\ IntMax * Ms \in Int
    BY <1>1, Z3
  <2>4. QED BY <1>1, <2>2, <2>3, Rounding
<1>3. w = (t \div Ms) * Ms
  BY <1>2 DEF PollWaits
<1>4. QED BY <1>3, Rounding

\* What WaitsInTime says of a wait for the limits t that gives up at w, seen at time n.
InTime(t, w, n) ==
    IF t.total < 0 /\ t.block < 0 THEN w = Forever
    ELSE /\ w # Forever
         /\ w <= MAX(n, t.start + (IF t.total >= 0 THEN t.total ELSE t.block))
         /\ \/ t.total >= 0 /\ w + Ms > t.start + t.total
            \/ t.block >= 0 /\ w + Ms > t.start + t.block

\* A wait that begins now gives up in time.
LEMMA WakesInTime ==
    ASSUME NEW t \in TimeoutRecord, NEW n \in Nat, t.start <= n,
           t.block <= IntMax * Ms, t.total <= IntMax * Ms,
           NEW w \in Wakes(t, n)
    PROVE  w \in Int /\ InTime(t, w, n)
<1> DEFINE l == timeout_getretry(t, n)
<1>1. /\ t.start \in Int /\ t.block \in Int /\ t.total \in Int
      /\ Ms \in Nat /\ Ms > 0 /\ IntMax * Ms \in Nat
  <2>1. IntMax * Ms \in Nat
    BY MsAssumption, IntMaxAssumption, Z3
  <2>2. QED BY <2>1, MsAssumption DEF TimeoutRecord
<1>2. PICK v \in PollWaits(l) : w = IF v = Forever THEN Forever ELSE n + v
  BY DEF Wakes
<1>3. CASE t.total < 0 /\ t.block < 0
  <2>1. l < 0
    BY <1>1, <1>3 DEF timeout_getretry, timeout_get, Forever
  <2>2. w = Forever
    BY <1>2, <2>1 DEF PollWaits
  <2>3. QED BY <1>3, <2>2 DEF InTime, Forever
<1>4. CASE ~(t.total < 0 /\ t.block < 0)
  <2>1. /\ l \in Nat
        /\ t.total >= 0 => l <= MAX(0, t.start + t.total - n)
        /\ t.total < 0 => l <= MAX(0, t.start + t.block - n)
        /\ \/ t.block >= 0 /\ n + l >= t.start + t.block
           \/ t.total >= 0 /\ n + l >= t.start + t.total
        /\ l <= t.block \/ l <= t.total \/ l = 0
    BY <1>1, <1>4 DEF timeout_getretry, timeout_get, MIN, MAX, Forever
  <2>2. l <= IntMax * Ms
    BY <1>1, <2>1
  <2>3. v \in Nat /\ v <= l /\ v + Ms > l
    BY <1>2, <2>1, <2>2, FittingWait
  <2>4. w = n + v
    BY <1>2, <2>3 DEF Forever
  <2> HIDE DEF l
  <2>5. w \in Nat /\ w # Forever
    BY <2>3, <2>4 DEF Forever
  <2>6. w <= MAX(n, t.start + (IF t.total >= 0 THEN t.total ELSE t.block))
    BY <1>1, <1>4, <2>1, <2>3, <2>4 DEF MAX
  <2>7. \/ t.total >= 0 /\ w + Ms > t.start + t.total
        \/ t.block >= 0 /\ w + Ms > t.start + t.block
    BY <1>1, <2>1, <2>3, <2>4
  <2>8. QED BY <1>4, <2>5, <2>6, <2>7 DEF InTime
<1>5. QED BY <1>3, <1>4

\* It stays so while the clock runs.
LEMMA InTimeLater ==
    ASSUME NEW t \in TimeoutRecord, NEW w \in Int, NEW n \in Int, NEW m \in Int, n <= m,
           InTime(t, w, n)
    PROVE  InTime(t, w, m)
  BY DEF InTime, TimeoutRecord, MAX

\* The limits fit the int of poll, and no operation began in the future.
Limited(t, n) == t.start <= n /\ t.block <= IntMax * Ms /\ t.total <= IntMax * Ms

TimeInv ==
    /\ wake \in Int
    /\ \A o \in Objects : Limited(tm[o], now)
    /\ pc \in {"poll", "wait"} => InTime(tm[self], wake, now)

\* What a step may make of the limits t at time n.
Kept(t, u, n) ==
    \/ u = t \/ u = timeout_init(-1, -1) \/ u = timeout_markstart(t, n)
    \/ \E value \in TimeoutValues, mode \in {"b", "t"} : u = timeout_meth_settimeout(t, value, mode)

LEMMA KeptLimited ==
    ASSUME \A v \in TimeoutValues : v <= IntMax * Ms,
           NEW t \in TimeoutRecord, NEW u, NEW n \in Nat, Limited(t, n), Kept(t, u, n)
    PROVE  Limited(u, n)
<1>1. IntMax * Ms \in Nat
  BY MsAssumption, IntMaxAssumption, Z3
<1>2. CASE u = t
  BY <1>2
<1>3. CASE u = timeout_init(-1, -1)
  BY <1>1, <1>3 DEF timeout_init, Limited
<1>4. CASE u = timeout_markstart(t, n)
  BY <1>4 DEF timeout_markstart, Limited, TimeoutRecord
<1>5. ASSUME NEW value \in TimeoutValues, NEW mode \in {"b", "t"},
             u = timeout_meth_settimeout(t, value, mode)
      PROVE  Limited(u, n)
  BY <1>5 DEF timeout_meth_settimeout, Limited, TimeoutRecord
<1>6. QED BY <1>2, <1>3, <1>4, <1>5 DEF Kept

\* An operation called by the program, a mark of the start and an accept: the limits
\* are kept or set, and nothing waits.
LEMMA NothingWaits ==
    ASSUME \A v \in TimeoutValues : v <= IntMax * Ms, IInv, TimeInv,
           wake' = wake, now' = now, pc' \notin {"poll", "wait"},
           \A o \in Objects : Kept(tm[o], tm'[o], now)
    PROVE  TimeInv'
<1>1. tm \in [Objects -> TimeoutRecord] /\ now \in Nat
  BY DEF IInv, CallTypes
<1>2. ASSUME NEW o \in Objects PROVE Limited(tm'[o], now)
  BY <1>1, <1>2, KeptLimited DEF TimeInv
<1>3. QED BY <1>2 DEF TimeInv

\* The steps that leave the limits, the clock and the wait as they are.
LEMMA GoesOn ==
    ASSUME TimeInv, UNCHANGED <<tm, wake, now, self>>,
           pc' \in {"poll", "wait"} => pc \in {"poll", "wait"}
    PROVE  TimeInv'
  BY DEF TimeInv

\* A wait begins or begins again.
LEMMA WaitBegins ==
    ASSUME IInv, TimeInv, UNCHANGED <<tm, now, self>>, wake' \in Wakes(tm[self], now)
    PROVE  TimeInv'
<1>1. /\ tm[self] \in TimeoutRecord /\ now \in Nat /\ self \in Objects
  BY DEF IInv, CallTypes
<1>2. Limited(tm[self], now)
  BY <1>1 DEF TimeInv
<1>3. wake' \in Int /\ InTime(tm[self], wake', now)
  BY <1>1, <1>2, WakesInTime DEF Limited
<1>4. QED BY <1>3 DEF TimeInv

\* The limits of one object change.
LEMMA KeptBut ==
    ASSUME tm \in [Objects -> TimeoutRecord], NEW o \in Objects, NEW u,
           Kept(tm[o], u, now), tm' = [tm EXCEPT ![o] = u]
    PROVE  \A p \in Objects : Kept(tm[p], tm'[p], now)
  BY DEF Kept

LEMMA ClientInTime ==
    ASSUME \A v \in TimeoutValues : v <= IntMax * Ms, IInv, TimeInv, Client
    PROVE  TimeInv'
<1>1. tm \in [Objects -> TimeoutRecord]
  BY DEF IInv, CallTypes
<1> DEFINE Still == wake' = wake /\ now' = now /\ pc' \notin {"poll", "wait"}
           Same  == \A p \in Objects : Kept(tm[p], tm'[p], now)
<1>2. tm' = tm => Same
  BY DEF Kept
<1>3. ASSUME NEW o \in Objects, tm' = [tm EXCEPT ![o] = timeout_init(-1, -1)] PROVE Same
  BY <1>1, <1>3, KeptBut DEF Kept
<1>4. ASSUME NEW o \in Objects, tm' = [tm EXCEPT ![o] = timeout_markstart(@, now)] PROVE Same
  BY <1>1, <1>4, KeptBut DEF Kept
<1>5. ASSUME NEW o \in Objects, NEW value \in TimeoutValues, NEW mode \in {"b", "t"},
             tm' = [tm EXCEPT ![o] = timeout_meth_settimeout(@, value, mode)]
      PROVE  Same
  BY <1>1, <1>5, KeptBut DEF Kept
<1> HIDE DEF Same
<1>6. PICK o \in Objects :
        \/ global_create(o)
        \/ \E fam \in Families : tcp_create(o, fam)
        \/ \E value \in TimeoutValues, mode \in {"b", "t"} : meth_settimeout(o, value, mode)
        \/ meth_close(o) \/ Collect(o)
        \/ \E h \in Hosts : meth_bind(o, h) \/ meth_connect(o, h)
        \/ \E h \in Hosts, local \in Local, fam \in Families \cup {"unspec"} :
                global_connect(o, h, local, fam)
        \/ meth_listen(o) \/ meth_accept(o)
  BY DEF Client
<1>7. global_create(o) => Still /\ Same
  BY <1>3 DEF global_create, NewObject
<1>8. ASSUME NEW fam, tcp_create(o, fam) PROVE Still /\ Same
  BY <1>3, <1>8 DEF tcp_create, NewObject
<1>9. ASSUME NEW value \in TimeoutValues, NEW mode \in {"b", "t"}, meth_settimeout(o, value, mode)
      PROVE  Still /\ Same
  BY <1>5, <1>9 DEF meth_settimeout
<1>10. meth_close(o) => Still /\ Same
  BY <1>2 DEF meth_close
<1>11. Collect(o) => Still /\ Same
  BY <1>3 DEF Collect
<1>12. ASSUME NEW h, meth_bind(o, h) PROVE Still /\ Same
  BY <1>2, <1>12 DEF meth_bind, objectVars
<1>13. ASSUME NEW h, meth_connect(o, h) PROVE Still /\ Same
  BY <1>4, <1>13 DEF meth_connect
<1>14. ASSUME NEW h, NEW local, NEW fam, global_connect(o, h, local, fam) PROVE Still /\ Same
  BY <1>3, <1>14 DEF global_connect, NewObject
<1>15. meth_listen(o) => Still /\ Same
  BY <1>2 DEF meth_listen
<1>16. meth_accept(o) => Still /\ Same
  BY <1>4 DEF meth_accept
<1>17. Still /\ Same
  BY <1>6, <1>7, <1>8, <1>9, <1>10, <1>11, <1>12, <1>13, <1>14, <1>15, <1>16
<1>18. QED
  BY <1>17, NothingWaits DEF Same

\* No wait follows an address that is done with.
LEMMA AnswerWaitsNot ==
    ASSUME NEW e, NEW k, Answer(e, k)
    PROVE  pc' \notin {"poll", "wait"}
  BY DEF Answer, NextAddress, Return

LEMMA CallInTime ==
    ASSUME \A v \in TimeoutValues : v <= IntMax * Ms, IInv, TimeInv, Call
    PROVE  TimeInv'
<1>1. tm \in [Objects -> TimeoutRecord] /\ self \in Objects
  BY DEF IInv, CallTypes
<1>2. CASE ReplaceSocket \/ BindAddress
  <2>1. UNCHANGED <<tm, wake, now, self>>
    BY <1>2 DEF ReplaceSocket, BindAddress, callVars
  <2>2. pc' \notin {"poll", "wait"}
    BY <1>2 DEF ReplaceSocket, BindAddress, NextAddress, Return
  <2>3. QED BY <2>1, <2>2, GoesOn
<1>3. CASE TryAddress
  <2>1. tm' = [tm EXCEPT ![self] = timeout_markstart(@, now)]
        /\ wake' = wake /\ now' = now /\ pc' = "connect"
    BY <1>3 DEF TryAddress
  <2>2. \A p \in Objects : Kept(tm[p], tm'[p], now)
    BY <1>1, <2>1, KeptBut DEF Kept
  <2>3. QED BY <2>1, <2>2, NothingWaits
<1>4. CASE ConnectStarts
  <2>1. UNCHANGED <<tm, now, self>>
    BY <1>4 DEF ConnectStarts, callVars
  <2>2. \/ wake' = wake /\ \E e, k : Answer(e, k)
        \/ wake' \in Wakes(tm[self], now)
    BY <1>4 DEF ConnectStarts
  <2>3. QED BY <2>1, <2>2, AnswerWaitsNot, GoesOn, WaitBegins
<1>5. CASE ConnectAgain
  <2>1. UNCHANGED <<tm, wake, now, self>>
    BY <1>5 DEF ConnectAgain, callVars
  <2>2. \E e, k : Answer(e, k)
    BY <1>5 DEF ConnectAgain
  <2>3. QED BY <2>1, <2>2, AnswerWaitsNot, GoesOn
<1>6. CASE PollReady \/ PollFails
  BY <1>6, GoesOn DEF PollReady, PollFails, callVars
<1>7. CASE Interrupted
  <2>1. UNCHANGED <<tm, now, self, pc>>
        /\ wake' \in IF pc \in {"poll", "wait"} THEN Wakes(tm[self], now) ELSE {wake}
    BY <1>7 DEF Interrupted, objectVars, callVars
  <2>2. QED BY <2>1, GoesOn, WaitBegins
<1>8. CASE AcceptTakes
  <2>1. PICK o \in Objects : tm' = [tm EXCEPT ![o] = timeout_init(-1, -1)]
    BY <1>8 DEF AcceptTakes, NewObject
  <2>2. wake' = wake /\ now' = now /\ pc' = "idle"
    BY <1>8 DEF AcceptTakes
  <2>3. \A p \in Objects : Kept(tm[p], tm'[p], now)
    BY <1>1, <2>1, KeptBut DEF Kept
  <2>4. QED BY <2>2, <2>3, NothingWaits
<1>9. CASE AcceptFails \/ WaitReady \/ WaitFails
  BY <1>9, GoesOn DEF AcceptFails, WaitReady, WaitFails, objectVars, callVars
<1>10. CASE AcceptWouldBlock
  <2>1. UNCHANGED <<tm, now, self>>
    BY <1>10 DEF AcceptWouldBlock, objectVars, callVars
  <2>2. (wake' = wake /\ pc' = "idle") \/ wake' \in Wakes(tm[self], now)
    BY <1>10 DEF AcceptWouldBlock
  <2>3. QED BY <2>1, <2>2, GoesOn, WaitBegins
<1>11. QED
  BY <1>2, <1>3, <1>4, <1>5, <1>6, <1>7, <1>8, <1>9, <1>10 DEF Call

LEMMA EnvironmentInTime == ASSUME IInv, TimeInv, Environment PROVE TimeInv'
<1>1. CASE Tick
  <2>1. UNCHANGED <<tm, wake, self, pc>> /\ now' = now + 1
    BY <1>1 DEF Tick, objectVars, callVars
  <2>2. tm \in [Objects -> TimeoutRecord] /\ self \in Objects /\ now \in Nat
    BY DEF IInv, CallTypes
  <2>3. \A o \in Objects : Limited(tm[o], now)
    BY DEF TimeInv
  <2>4. ASSUME NEW o \in Objects PROVE Limited(tm[o], now + 1)
    BY <2>2, <2>3 DEF Limited, TimeoutRecord
  <2>5. ASSUME InTime(tm[self], wake, now) PROVE InTime(tm[self], wake, now + 1)
    BY <2>2, <2>5, InTimeLater DEF TimeInv
  <2>6. QED BY <2>1, <2>4, <2>5 DEF TimeInv
<1>2. ASSUME NEW fd \in Fds, ConnectionResolves(fd) \/ ClientArrives(fd) PROVE TimeInv'
  BY <1>2, GoesOn DEF ConnectionResolves, ClientArrives, objectVars, callVars
<1>3. QED BY <1>1, <1>2 DEF Environment

\* The waits of connect and accept keep the limits of their object, for any number of
\* signals and of clients that leave, when no limit overflows the int of poll: a limited
\* call never sleeps for ever, and gives up at its limit.
THEOREM WaitsInTimeCorrect ==
    ASSUME \A v \in TimeoutValues : v <= IntMax * Ms
    PROVE  Spec => []WaitsInTime
<1>1. Init => TimeInv
  <2>1. IntMax * Ms \in Nat
    BY MsAssumption, IntMaxAssumption, Z3
  <2>2. QED BY <2>1 DEF Init, TimeInv, Limited, timeout_init, Forever
<1>2. IInv /\ TimeInv /\ [Next]_vars => TimeInv'
  <2>1. ASSUME TimeInv, UNCHANGED vars PROVE TimeInv'
    BY <2>1, GoesOn DEF vars, objectVars, callVars
  <2>2. QED BY <2>1, EnvironmentInTime, ClientInTime, CallInTime DEF Next
<1>3. TimeInv => WaitsInTime
  BY DEF TimeInv, WaitsInTime, InTime
<1>4. QED
  BY <1>1, <1>2, <1>3, Invariance, PTL DEF Spec

==============================================================================
