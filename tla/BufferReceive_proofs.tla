------------------------ MODULE BufferReceive_proofs ------------------------
(***************************************************************************)
(* The safety properties of BufferReceive, for every input, buffer         *)
(* capacity and timeout.                                                   *)
(***************************************************************************)
EXTENDS BufferReceive, TLAPS

\* The inductive invariant: what the calls answer follows from where the buffer
\* stands in the stream.
IInv ==
    /\ TypeOK
    /\ BufferHoldsNext
    /\ CallShape
    /\ ReplyExact
    /\ LineExact
    /\ CountExact
    /\ AllExact

-----------------------------------------------------------------------------
\* The waits of timeout.c and usocket.c, for every limit.

\* Time left and wake-up times are integers.
LEMMA WakesTyped ==
    ASSUME NEW t \in TimeoutRecord, NEW n \in Int
    PROVE  Wakes(t, n) \subseteq Int
<1>1. timeout_getretry(t, n) \in Int
  BY DEF timeout_getretry, timeout_get, TimeoutRecord, MIN, MAX, Forever
<1>2. ASSUME NEW l \in Int PROVE PollWaits(l) \subseteq Int
  <2>1. l \div Ms \in Int
    BY MsAssumption
  <2>2. (l \div Ms) * Ms \in Int /\ IntMax * Ms \in Int
    BY <2>1, MsAssumption, IntMaxAssumption
  <2>3. QED BY <2>2 DEF PollWaits, Forever
<1>3. QED BY <1>1, <1>2 DEF Wakes, Forever

\* Marking the start of an operation leaves a timeout record.
LEMMA MarkstartTyped ==
    ASSUME NEW t \in TimeoutRecord, NEW n \in Int
    PROVE  timeout_markstart(t, n) \in TimeoutRecord
  BY DEF timeout_markstart, TimeoutRecord

\* Rounding to a whole number of milliseconds never rounds up.
LEMMA RoundsDown ==
    ASSUME NEW t \in Nat
    PROVE  (t \div Ms) * Ms <= t /\ t \div Ms \in Nat /\ (t \div Ms) * Ms \in Nat
<1>1. Ms \in Nat /\ Ms > 0
  BY MsAssumption
<1>2. t \div Ms \in Nat /\ t = Ms * (t \div Ms) + (t % Ms) /\ t % Ms \in 0..(Ms - 1)
  BY <1>1, Z3
<1>3. QED BY <1>1, <1>2, Z3

\* A poll never waits longer than it is asked to, unless without a limit.
LEMMA PollWaitsBound ==
    ASSUME NEW l \in Nat, NEW w \in PollWaits(l)
    PROVE  w = Forever \/ w <= l
<1>1. (l \div Ms) * Ms <= l /\ l \div Ms \in Nat /\ (l \div Ms) * Ms \in Nat
  BY RoundsDown
<1>2. ASSUME l \div Ms > IntMax PROVE IntMax * Ms <= l
  <2>1. l \div Ms = IntMax + (l \div Ms - IntMax) /\ l \div Ms - IntMax \in Nat
    BY <1>1, <1>2, IntMaxAssumption
  <2>2. IntMax * Ms <= (l \div Ms) * Ms
    BY <1>1, <1>2, MsAssumption, IntMaxAssumption, Z3
  <2>3. QED BY <1>1, <2>2, IntMaxAssumption, MsAssumption
<1>3. QED BY <1>1, <1>2, IntMaxAssumption DEF PollWaits, Forever

\* When a poll entered now gives up, in terms of the limits.
LEMMA WakesBound ==
    ASSUME NEW t \in TimeoutRecord, NEW n \in Nat, t.start <= n,
           NEW w \in Wakes(t, n), w # Forever
    PROVE  /\ t.total >= 0 => w <= MAX(n, t.start + t.total)
           /\ t.total < 0 /\ t.block >= 0 => w <= MAX(n, t.start + t.block)
<1> DEFINE l == timeout_getretry(t, n)
<1>1. t.start \in Int /\ t.block \in Int /\ t.total \in Int
  BY DEF TimeoutRecord
<1>2. CASE t.block < 0 /\ t.total < 0
  BY <1>2, <1>1
<1>3. CASE t.block >= 0 \/ t.total >= 0
  <2>1. /\ l \in Nat
        /\ t.total >= 0 => l <= MAX(0, t.start + t.total - n)
        /\ t.total < 0 => l <= MAX(0, t.start + t.block - n)
    BY <1>1, <1>3 DEF timeout_getretry, timeout_get, MIN, MAX, Forever
  <2>2. PICK v \in PollWaits(l) : w = IF v = Forever THEN Forever ELSE n + v
    BY DEF Wakes
  <2>3. v <= l /\ w = n + v /\ v \in Int
    <3>1. v # Forever /\ w = n + v
      BY <2>2
    <3>2. v <= l
      BY <2>1, <3>1, PollWaitsBound
    <3>3. v \in Int
      BY <2>1, RoundsDown, IntMaxAssumption, MsAssumption DEF PollWaits, Forever
    <3>4. QED BY <3>1, <3>2, <3>3
  <2>4. QED BY <1>1, <2>1, <2>3 DEF MAX
<1>4. QED BY <1>1, <1>2, <1>3

\* Rounding to a whole number of milliseconds takes less than one away.
LEMMA RoundsLess ==
    ASSUME NEW t \in Nat
    PROVE  (t \div Ms) * Ms + Ms > t
<1>1. Ms \in Nat /\ Ms > 0
  BY MsAssumption
<1>2. t = Ms * (t \div Ms) + (t % Ms) /\ t % Ms \in 0..(Ms - 1) /\ t \div Ms \in Nat
  BY <1>1, Z3
<1>3. QED BY <1>1, <1>2, Z3

\* What fits an int of milliseconds is not cut.
LEMMA Fitting ==
    ASSUME NEW t \in Nat, t <= IntMax * Ms
    PROVE  t \div Ms <= IntMax
<1>1. Ms \in Nat /\ Ms > 0 /\ IntMax \in Nat
  BY MsAssumption, IntMaxAssumption
<1>2. t \div Ms \in Nat /\ (t \div Ms) * Ms <= t
  BY RoundsDown
<1>3. SUFFICES ASSUME t \div Ms >= IntMax + 1 PROVE FALSE
  BY <1>1, <1>2
<1>4. (t \div Ms) * Ms >= (IntMax + 1) * Ms
  BY <1>1, <1>2, <1>3, Z3
<1>5. (IntMax + 1) * Ms = IntMax * Ms + Ms /\ IntMax * Ms \in Int /\ (t \div Ms) * Ms \in Int
  BY <1>1, <1>2, Z3
<1>6. QED BY <1>1, <1>2, <1>4, <1>5

\* When a limit has been reached, to the millisecond.
Reached(t, n) ==
    \/ t.block >= 0 /\ n + Ms > t.start + t.block
    \/ t.total >= 0 /\ n + Ms > t.start + t.total

\* A poll that gives up does so when a limit has been reached, if the limits fit
\* an int of milliseconds.
LEMMA WakesReached ==
    ASSUME NEW t \in TimeoutRecord, NEW n \in Nat, t.start <= n,
           t.block <= IntMax * Ms, t.total <= IntMax * Ms,
           NEW w \in Wakes(t, n), w # Forever
    PROVE  Reached(t, w)
<1> DEFINE l == timeout_getretry(t, n)
<1>1. /\ t.start \in Int /\ t.block \in Int /\ t.total \in Int
      /\ Ms \in Nat /\ Ms > 0 /\ IntMax \in Nat
  BY MsAssumption, IntMaxAssumption DEF TimeoutRecord
<1>2. PICK v \in PollWaits(l) : w = IF v = Forever THEN Forever ELSE n + v
  BY DEF Wakes
<1>3. v # Forever /\ w = n + v
  BY <1>2
<1>4. t.block >= 0 \/ t.total >= 0
  BY <1>1, <1>3 DEF timeout_getretry, timeout_get, PollWaits, Forever
<1>5. /\ l \in Nat
      /\ \/ t.block >= 0 /\ n + l >= t.start + t.block
         \/ t.total >= 0 /\ n + l >= t.start + t.total
      /\ l <= t.block \/ l <= t.total \/ l = 0
  BY <1>1, <1>4 DEF timeout_getretry, timeout_get, MIN, MAX, Forever
<1>6. IntMax * Ms \in Nat
  BY <1>1, Z3
<1>7. l <= IntMax * Ms
  BY <1>1, <1>5, <1>6
<1>8. v = (l \div Ms) * Ms
  BY <1>3, <1>5, <1>7, Fitting DEF PollWaits
<1>9. v \in Int /\ v + Ms > l
  BY <1>5, <1>8, RoundsLess, RoundsDown
<1>10. QED BY <1>1, <1>3, <1>5, <1>9 DEF Reached

-----------------------------------------------------------------------------
\* Appending a segment of the buffer to a reply.
LEMMA AppendFront ==
    ASSUME NEW N \in Nat, NEW s \in Seq(1..N), NEW f, NEW n \in Nat, NEW c \in Nat,
           f = [i \in 1..n |-> c + i], c + n <= N
    PROVE  /\ s \o f \in Seq(1..N)
           /\ Len(s \o f) = Len(s) + n
           /\ \A i \in 1..Len(s) : (s \o f)[i] = s[i]
           /\ \A i \in 1..n : (s \o f)[Len(s) + i] = c + i
<1>1. f \in Seq(1..N) /\ Len(f) = n
  OBVIOUS
<1>2. QED BY <1>1

\* An increasing enumeration of lo+1..c followed by c+1..c+n enumerates lo+1..c+n.
Enumerates(s, m, lo, c) ==
    /\ \A i, j \in 1..m : i < j => s[i] < s[j]
    /\ \A i \in 1..m : s[i] \in lo+1..c
    /\ \A q \in lo+1..c : \E i \in 1..m : s[i] = q

Continues(s, t, m, n, c) ==
    /\ \A i \in 1..m : t[i] = s[i]
    /\ \A i \in 1..n : t[m + i] = c + i

LEMMA ExtendEnumeration ==
    ASSUME NEW s, NEW t, NEW m \in Nat, NEW n \in Nat, NEW lo \in Nat, NEW c \in Nat, lo <= c,
           Enumerates(s, m, lo, c), Continues(s, t, m, n, c)
    PROVE  Enumerates(t, m + n, lo, c + n)
<1> USE DEF Enumerates, Continues
<1>1. ASSUME NEW i \in (m+1)..(m + n) PROVE t[i] = c + (i - m)
  <2>1. i - m \in 1..n /\ m + (i - m) = i
    OBVIOUS
  <2>2. QED BY <2>1
<1>2. \A i \in 1..(m + n) : t[i] \in lo+1..(c + n)
  BY <1>1
<1>3. \A i, j \in 1..(m + n) : i < j => t[i] < t[j]
  <2> SUFFICES ASSUME NEW i \in 1..(m + n), NEW j \in 1..(m + n), i < j PROVE t[i] < t[j]
    OBVIOUS
  <2>1. CASE j <= m
    <3>1. i \in 1..m /\ j \in 1..m
      BY <2>1
    <3>2. QED BY <3>1
  <2>2. CASE i <= m /\ j > m
    <3>1. t[i] \in lo+1..c /\ t[j] = c + (j - m)
      BY <1>1, <2>2
    <3>2. QED BY <2>2, <3>1
  <2>3. CASE i > m
    BY <1>1, <2>3
  <2>4. QED BY <2>1, <2>2, <2>3
<1>4. \A q \in lo+1..(c + n) : \E i \in 1..(m + n) : t[i] = q
  <2> SUFFICES ASSUME NEW q \in lo+1..(c + n) PROVE \E i \in 1..(m + n) : t[i] = q
    OBVIOUS
  <2>1. CASE q <= c
    <3>1. PICK i \in 1..m : s[i] = q
      BY <2>1
    <3>2. QED BY <3>1
  <2>2. CASE q > c
    <3>1. m + (q - c) \in 1..(m + n) /\ q - c \in 1..n /\ c + (q - c) = q
      BY <2>2
    <3>2. t[m + (q - c)] = c + (q - c)
      BY <3>1
    <3>3. QED BY <3>1, <3>2
  <2>3. QED BY <2>1, <2>2
<1>5. QED BY <1>2, <1>3, <1>4

\* In the initial state nothing has been sent, taken or asked for.
LEMMA InitIInv == Init => IInv
<1> SUFFICES ASSUME Init PROVE IInv
  OBVIOUS
<1>1. TypeOK
  BY InputsAssumption, BufSizeAssumption, BoundsAssumption
  DEF Init, TypeOK, timeout_init, TimeoutRecord, Forever, Count
<1>2. BufferHoldsNext /\ CallShape /\ ReplyExact /\ LineExact /\ CountExact /\ AllExact
  BY DEF Init, BufferHoldsNext, CallShape, ReplyExact, LineExact, CountExact, AllExact, Count,
     Consumed
<1>3. QED BY <1>1, <1>2 DEF IInv

\* What the peer writes is a sequence.
LEMMA InputTyped == TypeOK => input \in Seq({"ch", "cr", "lf"}) /\ Len(input) \in Nat
  BY InputsAssumption DEF TypeOK

-----------------------------------------------------------------------------
\* The peer, the network and the clock touch nothing the object has read.
LEMMA EnvironmentIInv == IInv /\ Environment => IInv'
<1> SUFFICES ASSUME IInv, Environment PROVE IInv'
  OBVIOUS
<1> USE DEF IInv
<1>1. UNCHANGED <<input, objectVars>>
  BY DEF Environment, PeerSends, PeerEnds, Tick, peerVars
<1>2. TypeOK'
  <2>1. arrived' \in 0..Len(input) /\ taken \in 0..arrived' /\ fin' \in {"open", "fin", "reset"}
        /\ now' \in 0..MaxNow /\ faults' = faults
    <3>1. CASE PeerSends
      BY <3>1, InputTyped DEF PeerSends, TypeOK, objectVars, bufferVars
    <3>2. CASE PeerEnds
      BY <3>2, InputTyped DEF PeerEnds, TypeOK, objectVars, bufferVars
    <3>3. CASE Tick
      BY <3>3, InputTyped, BoundsAssumption DEF Tick, TypeOK, objectVars, bufferVars, peerVars
    <3>4. QED BY <3>1, <3>2, <3>3 DEF Environment
  <2>2. QED BY <1>1, <2>1 DEF TypeOK, objectVars, bufferVars, callVars, argVars, waitVars, Count
<1>3. BufferHoldsNext' /\ ReplyExact' /\ LineExact' /\ CountExact'
  BY <1>1 DEF BufferHoldsNext, ReplyExact, LineExact, CountExact, objectVars, bufferVars,
     callVars, argVars, waitVars, Count, Consumed, Keep
<1>4. fin # "open" => arrived' = arrived /\ fin' = fin
  BY DEF Environment, PeerSends, PeerEnds, Tick, peerVars
<1>5. CallShape' /\ AllExact'
  BY <1>1, <1>4 DEF CallShape, AllExact, TypeOK, objectVars, bufferVars, callVars, argVars,
     waitVars, Count, Consumed
<1>6. QED BY <1>2, <1>3, <1>5

\* The methods other than receive do not touch the buffer or the last reply.
LEMMA MethodsIInv ==
    ASSUME IInv,
           \/ \E value \in TimeoutValues, mode \in {"b", "t"} : SetTimeout(value, mode)
           \/ \E r \in StatsValues : buffer_meth_setstats(r)
           \/ socket_destroy
    PROVE  IInv'
<1> USE DEF IInv
<1> DEFINE same == <<peerVars, now, faults, data, first, last, taken, pat, wanted, callStart,
                     chain, b, total, pos, pc, err, waitVars>>
<1>1. /\ UNCHANGED same
      /\ pc = "idle"
      /\ sock' \in {sock, "invalid"}
  BY DEF SetTimeout, buffer_meth_setstats, socket_destroy, bufferVars, callVars, argVars, TypeOK
<1>2. received' \in Nat
  BY StatsAssumption DEF SetTimeout, buffer_meth_setstats, socket_destroy, bufferVars, TypeOK
<1>3. tm' \in TimeoutRecord
  BY TimeoutAssumption DEF SetTimeout, buffer_meth_setstats, socket_destroy, callVars, argVars,
     TypeOK, timeout_meth_settimeout, TimeoutRecord
<1>4. TypeOK'
  BY <1>1, <1>2, <1>3 DEF TypeOK, peerVars, waitVars, Count
<1>5. BufferHoldsNext' /\ ReplyExact' /\ LineExact' /\ CountExact'
  BY <1>1 DEF BufferHoldsNext, ReplyExact, LineExact, CountExact, peerVars, Count, Consumed, Keep
<1>6. CallShape' /\ AllExact'
  BY <1>1 DEF CallShape, AllExact, TypeOK, peerVars, Count, Consumed
<1>7. QED BY <1>4, <1>5, <1>6

\* A call starts with its prefix and where the buffer stands.
LEMMA ReceiveIInv ==
    ASSUME IInv, NEW p \in {"l", "a", "n"}, NEW n \in Nat, NEW resume \in BOOLEAN,
           buffer_meth_receive(p, n, resume)
    PROVE  IInv'
<1> USE DEF IInv
<1>1. /\ UNCHANGED <<peerVars, now, faults, sock, bufferVars, waitVars>>
      /\ Count' = Count /\ Consumed' = Consumed /\ pos' = 0 /\ pos = 0
      /\ callStart' = Consumed /\ Consumed \in Nat /\ err' = "done"
  BY DEF buffer_meth_receive, bufferVars, Count, Consumed, BufferHoldsNext, TypeOK, CallShape
<1>2. tm' \in TimeoutRecord /\ pat' = p /\ wanted' = n /\ total' = 0
  <2>1. tm \in TimeoutRecord /\ now \in Int
    BY BoundsAssumption DEF TypeOK
  <2>2. QED BY <2>1, MarkstartTyped DEF buffer_meth_receive
<1>3. CASE resume
  <2>1. b' = b /\ chain' = chain /\ pat' = pat /\ err # "done" /\ p = pat
    BY <1>3 DEF buffer_meth_receive
  <2>2. pc = "idle" /\ pc' = IF p = "n" /\ b # <<>> /\ n <= Len(b) THEN "idle" ELSE "get"
    BY <2>1 DEF buffer_meth_receive
  <2>3. TypeOK'
    BY <1>1, <1>2, <2>1, <2>2 DEF TypeOK, peerVars, bufferVars, waitVars
  <2>4. BufferHoldsNext' /\ ReplyExact' /\ CallShape'
    BY <1>1, <1>2, <2>1, <2>2
    DEF BufferHoldsNext, ReplyExact, CallShape, Keep, peerVars, bufferVars, TypeOK
  <2>5. LineExact'
    BY <1>1, <1>2, <2>1, <2>2 DEF LineExact, peerVars, bufferVars
  <2>6. CountExact' /\ AllExact'
    BY <1>1, <1>2, <2>1, <2>2 DEF CountExact, AllExact, TypeOK
  <2>7. QED BY <2>3, <2>4, <2>5, <2>6
<1>4. CASE ~resume
  <2>1. b' = <<>> /\ chain' = Consumed /\ pc' = "get"
    BY <1>4 DEF buffer_meth_receive
  <2>2. TypeOK'
    BY <1>1, <1>2, <2>1 DEF TypeOK, peerVars, bufferVars, waitVars
  <2>3. BufferHoldsNext' /\ ReplyExact' /\ CallShape'
    BY <1>1, <1>2, <2>1
    DEF BufferHoldsNext, ReplyExact, CallShape, Keep, peerVars, bufferVars, TypeOK
  <2>4. LineExact' /\ CountExact' /\ AllExact'
    BY <1>1, <1>2, <2>1 DEF LineExact, CountExact, AllExact
  <2>5. QED BY <2>2, <2>3, <2>4
<1>5. QED BY <1>3, <1>4

-----------------------------------------------------------------------------
\* A step that leaves the buffer, the reply and the arguments alone preserves
\* what is said of them as long as it does not end the call.
LEMMA StutterParts ==
    ASSUME IInv, UNCHANGED <<input, data, first, last, taken, argVars, b, pos>>,
           pc # "idle", pc' # "idle"
    PROVE  BufferHoldsNext' /\ ReplyExact' /\ LineExact' /\ CountExact' /\ AllExact'
<1>1. BufferHoldsNext' /\ ReplyExact'
  BY DEF IInv, BufferHoldsNext, ReplyExact, Count, Consumed, Keep, argVars
<1>2. LineExact' /\ CountExact' /\ AllExact'
  BY DEF IInv, LineExact, CountExact, AllExact, Count, Consumed, argVars
<1>3. QED BY <1>1, <1>2

\* A buffer_get that fails does so with an empty buffer.
LEMMA GetFailsIInv ==
    ASSUME IInv, NEW e \in {"timeout", "closed", "error"},
           pc \in {"get", "recv", "poll"}, first = last,
           GetFails(e),
           UNCHANGED <<input, arrived, now, sock, callVars>>,
           fin' \in {fin, "fin"}, fin = "open" => fin' = fin,
           faults' \in 0..MaxFaults, wake' \in Int, waitFrom' \in Nat,
           e = "closed" /\ sock = "open" => fin' = "fin" /\ arrived = taken
    PROVE  IInv'
<1> USE DEF IInv
<1>1. /\ UNCHANGED <<data, received, taken>> /\ first' = 0 /\ last' = 0 /\ pc' = "body"
      /\ err' = e /\ pos = 0 /\ pos' = 0
      /\ Count = 0 /\ Count' = 0 /\ Consumed' = Consumed
      /\ UNCHANGED <<tm, pat, wanted, callStart, chain, b, total>>
  BY DEF GetFails, CallShape, TypeOK, Count, Consumed, callVars, argVars
<1>2. TypeOK'
  BY <1>1, BufSizeAssumption DEF TypeOK
<1>3. BufferHoldsNext' /\ CallShape'
  BY <1>1 DEF BufferHoldsNext, CallShape, TypeOK
<1>4. ReplyExact' /\ LineExact'
  BY <1>1 DEF ReplyExact, LineExact, Keep
<1>5. CountExact' /\ AllExact'
  BY <1>1 DEF CountExact, AllExact
<1>6. QED BY <1>2, <1>3, <1>4, <1>5

LEMMA GetIInv == IInv /\ buffer_get => IInv'
<1> SUFFICES ASSUME IInv, buffer_get PROVE IInv'
  OBVIOUS
<1>1. CASE /\ UNCHANGED <<bufferVars, err>>
           /\ \/ ~buffer_isempty /\ pc' = "body"
              \/ buffer_isempty /\ sock = "open" /\ pc' = "recv"
  <2>1. BufferHoldsNext' /\ ReplyExact' /\ LineExact' /\ CountExact' /\ AllExact'
    BY <1>1, StutterParts DEF buffer_get, bufferVars, callVars, peerVars
  <2>2. TypeOK'
    BY <1>1 DEF buffer_get, IInv, TypeOK, bufferVars, callVars, argVars, peerVars, waitVars, Count
  <2>3. CallShape'
    BY <1>1 DEF buffer_get, IInv, CallShape, TypeOK, bufferVars, callVars, argVars, peerVars,
       Count, Consumed, buffer_isempty
  <2>4. QED BY <2>1, <2>2, <2>3 DEF IInv
<1>2. CASE buffer_isempty /\ sock # "open" /\ GetFails("closed")
  <2>1. first = last
    BY <1>2 DEF IInv, TypeOK, buffer_isempty
  <2>2. UNCHANGED <<peerVars, now, faults, sock, callVars, waitVars>> /\ pc = "get"
    BY DEF buffer_get
  <2>3. faults' \in 0..MaxFaults /\ wake' \in Int /\ waitFrom' \in Nat
    BY <2>2 DEF IInv, TypeOK, waitVars
  <2>4. QED BY <1>2, <2>1, <2>2, <2>3, GetFailsIInv DEF peerVars
<1>3. QED BY <1>1, <1>2 DEF buffer_get

\* recv fills an empty buffer with the bytes that come next.
LEMMA RecvDataIInv == IInv /\ RecvData => IInv'
<1> SUFFICES ASSUME IInv, RecvData PROVE IInv'
  OBVIOUS
<1> USE DEF IInv
<1>1. PICK n \in 1..MIN(BufSize, arrived - taken) : FillBuffer(n)
  BY DEF RecvData
<1>2. /\ UNCHANGED <<input, arrived, fin, now, faults, sock, received, callVars, waitVars>>
      /\ pc = "recv" /\ pc' = "body" /\ err = "done" /\ err' = "done" /\ pos = 0
      /\ first = last /\ sock = "open"
  BY DEF RecvData, CallShape, peerVars
<1>3. /\ n \in Nat \ {0} /\ n <= BufSize /\ taken + n <= arrived
  BY <1>1, InputTyped, BufSizeAssumption DEF MIN, TypeOK
<1>4. /\ data' = [i \in 0..BufSize-1 |-> IF i < n THEN taken + i + 1 ELSE data[i]]
      /\ first' = 0 /\ last' = n /\ taken' = taken + n
  BY <1>1 DEF FillBuffer
<1>5. Consumed = taken /\ Consumed' = taken /\ Count = 0 /\ Count' = n
  BY <1>2, <1>3, <1>4 DEF Consumed, Count, TypeOK
<1>6. UNCHANGED <<tm, pat, wanted, callStart, chain, b, total, pos, wake, waitFrom>>
  BY <1>2 DEF callVars, argVars, waitVars
<1>7. TypeOK'
  <2>1. data' \in [0..BufSize-1 -> 0..Len(input)]
    BY <1>3, <1>4, InputTyped, BufSizeAssumption, SMTT(30) DEF TypeOK
  <2>2. taken' \in 0..arrived /\ last' \in 0..BufSize /\ first' \in 0..last'
    BY <1>3, <1>4, BufSizeAssumption DEF TypeOK
  <2>3. QED BY <1>2, <1>5, <1>6, <2>1, <2>2, <1>3 DEF TypeOK
<1>8. BufferHoldsNext' /\ CallShape'
  BY <1>2, <1>3, <1>4, <1>5, <1>6, BufSizeAssumption DEF BufferHoldsNext, CallShape, TypeOK
<1>9. ReplyExact' /\ LineExact'
  BY <1>2, <1>5, <1>6 DEF ReplyExact, LineExact, Keep
<1>10. CountExact' /\ AllExact'
  BY <1>2, <1>5, <1>6 DEF CountExact, AllExact
<1>11. QED BY <1>7, <1>8, <1>9, <1>10

\* The other outcomes of recv and the outcomes of poll.
LEMMA WaitIInv ==
    ASSUME IInv,
           RecvFails \/ RecvInterrupted \/ RecvWouldBlock \/ PollReady \/ PollFails
           \/ PollInterrupted
    PROVE  IInv'
<1>1. pc \in {"recv", "poll"} /\ first = last /\ faults' \in 0..MaxFaults
      /\ UNCHANGED <<input, arrived, now, sock, callVars>>
  <2>1. pc \in {"recv", "poll"} /\ UNCHANGED <<input, arrived, now, sock, callVars>>
    BY DEF RecvFails, RecvInterrupted, RecvWouldBlock, PollReady, PollFails, PollInterrupted,
       objectVars, peerVars
  <2>2. faults' = faults \/ Fault
    BY DEF RecvFails, RecvInterrupted, RecvWouldBlock, PollReady, PollFails, PollInterrupted
  <2>3. faults' \in 0..MaxFaults
    BY <2>2, BoundsAssumption DEF Fault, IInv, TypeOK
  <2>4. QED BY <2>1, <2>3 DEF IInv, CallShape
<1>2. wake' \in Int /\ waitFrom' \in Nat
  <2>1. Wakes(tm, now) \subseteq Int
    BY WakesTyped, BoundsAssumption DEF IInv, TypeOK
  <2>2. wake' = wake \/ wake' \in Wakes(tm, now)
    BY DEF RecvFails, RecvInterrupted, RecvWouldBlock, PollReady, PollFails, PollInterrupted,
       objectVars, waitVars, EnterPoll
  <2>3. waitFrom' \in {waitFrom, now}
    BY DEF RecvFails, RecvInterrupted, RecvWouldBlock, PollReady, PollFails, PollInterrupted,
       objectVars, waitVars
  <2>4. QED BY <2>1, <2>2, <2>3, BoundsAssumption DEF IInv, TypeOK
<1>3. CASE RecvFails
  BY <1>1, <1>2, <1>3, GetFailsIInv DEF RecvFails
<1>4. CASE PollFails
  <2>1. fin' = fin
    BY <1>4 DEF PollFails, peerVars
  <2>2. QED BY <1>1, <1>2, <1>4, <2>1, GetFailsIInv DEF PollFails
<1>5. CASE RecvWouldBlock /\ GetFails("timeout")
  <2>1. fin' = fin
    BY <1>5 DEF RecvWouldBlock, peerVars
  <2>2. QED BY <1>1, <1>2, <1>5, <2>1, GetFailsIInv
<1>6. CASE UNCHANGED <<fin, bufferVars, err>> /\ pc' \in {"recv", "poll"}
  <2>1. BufferHoldsNext' /\ ReplyExact' /\ LineExact' /\ CountExact' /\ AllExact'
    BY <1>1, <1>6, StutterParts DEF bufferVars, callVars
  <2>2. TypeOK'
    BY <1>1, <1>2, <1>6 DEF IInv, TypeOK, bufferVars, callVars, argVars, Count
  <2>3. CallShape'
    BY <1>1, <1>6 DEF IInv, CallShape, TypeOK, bufferVars, callVars, argVars, Count, Consumed
  <2>4. QED BY <2>1, <2>2, <2>3 DEF IInv
<1>7. QED
  BY <1>1, <1>3, <1>4, <1>5, <1>6
  DEF RecvInterrupted, RecvWouldBlock, PollReady, PollInterrupted, EnterPoll, objectVars, peerVars

-----------------------------------------------------------------------------
\* Skipping takes bytes from the front of the buffer and nothing else.
LEMMA SkipProperties ==
    ASSUME IInv, NEW n \in 0..Count, buffer_skip(n)
    PROVE  /\ Count' = Count - n /\ Consumed' = Consumed + n
           /\ data' = data /\ taken' = taken
           /\ received' \in Nat /\ last' \in 0..BufSize /\ first' \in 0..last'
           /\ BufferHoldsNext'
<1>1. n \in Nat /\ first + n <= last /\ first \in Nat /\ last \in Nat /\ BufSize \in Nat
      /\ taken \in Nat
  BY BufSizeAssumption, InputTyped DEF IInv, TypeOK, Count
<1>2. data' = data /\ taken' = taken /\ received' \in Nat
  BY <1>1 DEF buffer_skip, IInv, TypeOK
<1>3. CASE first + n >= last
  <2>1. first' = 0 /\ last' = 0 /\ n = Count
    BY <1>1, <1>3 DEF buffer_skip, Count
  <2>2. QED BY <1>1, <1>2, <2>1 DEF Count, Consumed, BufferHoldsNext
<1>4. CASE ~(first + n >= last)
  <2>1. first' = first + n /\ last' = last
    BY <1>4 DEF buffer_skip
  <2>2. QED BY <1>1, <1>2, <1>4, <2>1 DEF Count, Consumed, BufferHoldsNext, IInv, TypeOK
<1>5. QED BY <1>3, <1>4

\* The byte recvline looks at is the one that follows what it has scanned.
LEMMA NextByteIs ==
    ASSUME IInv, pos < Count
    PROVE  NextByte = Consumed + pos + 1 /\ NextByte \in 1..Len(input) /\ Consumed \in Nat
<1>1. first \in Nat /\ last \in Nat /\ pos \in Nat /\ taken \in Nat /\ taken <= Len(input)
      /\ Len(input) \in Nat
  BY InputTyped, BufSizeAssumption DEF IInv, TypeOK, Count
<1>2. first + pos \in first..last-1
  BY <1>1 DEF Count
<1>3. data[first + pos] = taken - last + (first + pos) + 1
  BY <1>2 DEF IInv, BufferHoldsNext
<1>4. QED BY <1>1, <1>3 DEF NextByte, Count, Consumed, IInv, BufferHoldsNext

\* recvline scans a byte that is not the LF.
LEMMA RecvLineByteIInv == IInv /\ RecvLineByte => IInv'
<1> SUFFICES ASSUME IInv, RecvLineByte PROVE IInv'
  OBVIOUS
<1> USE DEF IInv
<1> DEFINE q == Consumed + pos + 1
<1>1. /\ UNCHANGED <<input, arrived, fin, now, faults, sock, data, first, last, received, taken,
                     tm, pat, wanted, callStart, chain, total, pc, err, wake, waitFrom>>
      /\ pc = "body" /\ pat = "l" /\ pos' = pos + 1 /\ pos < Count
      /\ Count' = Count /\ Consumed' = Consumed
  BY DEF RecvLineByte, BodyFrame, bufferVars, argVars, peerVars, waitVars, Count, Consumed
<1>2. /\ NextByte = q /\ q \in 1..Len(input) /\ input[q] # "lf"
      /\ b' = IF input[q] = "cr" THEN b ELSE Append(b, q)
      /\ Consumed \in Nat /\ pos \in Nat /\ Count \in Nat /\ chain \in Nat
  <2>1. NextByte = q /\ q \in 1..Len(input) /\ Consumed \in Nat
    BY <1>1, NextByteIs
  <2>2. pos \in Nat /\ Count \in Nat /\ chain \in Nat
    BY BufSizeAssumption DEF TypeOK, Count
  <2>3. input[q] # "lf" /\ b' = IF input[q] = "cr" THEN b ELSE Append(b, q)
    BY <2>1 DEF RecvLineByte
  <2>4. QED BY <2>1, <2>2, <2>3
<1>3. input[q] \in {"ch", "cr", "lf"} /\ Len(input) \in Nat
  BY <1>2, InputTyped
<1>4. b \in Seq(1..Len(input))
  BY DEF TypeOK
<1>5. b' \in Seq(1..Len(input))
  <2>1. Append(b, q) \in Seq(1..Len(input))
    BY <1>2, <1>4
  <2>2. b' = b \/ b' = Append(b, q)
    BY <1>2
  <2>3. QED BY <1>4, <2>1, <2>2
<1>6. TypeOK'
  BY <1>1, <1>2, <1>5 DEF TypeOK
<1>7. BufferHoldsNext' /\ CallShape'
  <2>1. err = "done"
    BY <1>1, <1>2 DEF CallShape, TypeOK, Count
  <2>2. QED BY <1>1, <2>1 DEF BufferHoldsNext, CallShape
<1>8. ReplyExact'
  <2>1. \A x \in 1..Len(input) : Keep(x)' <=> Keep(x)
    BY <1>1 DEF Keep
  <2>2. CASE input[q] = "cr"
    <3>1. b' = b /\ ~Keep(q)
      BY <1>1, <1>2, <2>2 DEF Keep
    <3>2. QED BY <1>1, <1>2, <3>1 DEF ReplyExact, Keep
  <2>3. CASE input[q] = "ch"
    <3>1. b' = Append(b, q) /\ Keep(q)
      BY <1>1, <1>2, <2>3 DEF Keep
    <3>2. /\ Len(b') = Len(b) + 1 /\ b'[Len(b) + 1] = q /\ Len(b) \in Nat
          /\ \A i \in 1..Len(b) : b'[i] = b[i] /\ b[i] \in 1..Len(input)
      BY <1>4, <1>2, <3>1
    <3>3. \A i \in 1..Len(b) : b[i] < q
      BY <1>2, <1>4 DEF ReplyExact
    <3>4. \A i, j \in 1..Len(b') : i < j => b'[i] < b'[j]
      <4> SUFFICES ASSUME NEW i \in 1..Len(b'), NEW j \in 1..Len(b'), i < j PROVE b'[i] < b'[j]
        OBVIOUS
      <4>1. i \in 1..Len(b) /\ (j \in 1..Len(b) \/ j = Len(b) + 1)
        BY <3>2
      <4>2. CASE j \in 1..Len(b)
        BY <3>2, <4>1, <4>2 DEF ReplyExact
      <4>3. CASE j = Len(b) + 1
        BY <3>2, <3>3, <4>1, <4>3
      <4>4. QED BY <4>1, <4>2, <4>3
    <3>5. \A i \in 1..Len(b') : b'[i] \in chain+1..Consumed+pos+1 /\ Keep(b'[i])
      BY <1>2, <3>1, <3>2 DEF ReplyExact
    <3>6. \A x \in chain+1..Consumed+pos+1 : Keep(x) => \E i \in 1..Len(b') : b'[i] = x
      BY <1>2, <3>2 DEF ReplyExact
    <3>7. QED BY <1>1, <1>2, <3>4, <3>5, <3>6, SMTT(30) DEF ReplyExact, Keep
  <2>4. QED BY <1>2, <1>3, <2>2, <2>3
<1>9. LineExact' /\ CountExact' /\ AllExact'
  BY <1>1, <1>2 DEF LineExact, CountExact, AllExact
<1>10. QED BY <1>6, <1>7, <1>8, <1>9

\* recvline ends: at the LF, which it skips, or at the end of the buffer.
LEMMA RecvLineEndIInv == IInv /\ (RecvLineFound \/ RecvLineEnd) => IInv'
<1> SUFFICES ASSUME IInv, RecvLineFound \/ RecvLineEnd PROVE IInv'
  OBVIOUS
<1> USE DEF IInv
<1>1. /\ UNCHANGED <<input, arrived, fin, now, faults, sock, tm, pat, wanted, callStart, chain,
                     b, total, err, wake, waitFrom>>
      /\ pc = "body" /\ pat = "l" /\ pos' = 0
  BY DEF RecvLineFound, RecvLineEnd, BodyFrame, argVars, peerVars, waitVars
<1>2. pos \in Nat /\ Count \in Nat /\ pos <= Count /\ Consumed \in Nat /\ chain \in Nat
      /\ Len(input) \in Nat
  BY InputTyped, BufSizeAssumption DEF TypeOK, Count, Consumed, BufferHoldsNext
<1>3. ASSUME NEW n \in 0..Count, buffer_skip(n), pc' \in {"get", "idle"}
      PROVE  TypeOK' /\ BufferHoldsNext'
  <2>1. /\ Count' = Count - n /\ data' = data /\ taken' = taken
        /\ received' \in Nat /\ last' \in 0..BufSize /\ first' \in 0..last'
        /\ BufferHoldsNext'
    BY <1>3, SkipProperties
  <2>2. TypeOK'
    BY <1>1, <1>2, <1>3, <2>1 DEF TypeOK
  <2>3. QED BY <2>1, <2>2
<1>4. CASE RecvLineFound
  <2> DEFINE q == Consumed + pos + 1
  <2>1. pos < Count /\ input[q] = "lf" /\ buffer_skip(pos + 1) /\ pc' = "idle" /\ pos + 1 \in 0..Count
    BY <1>2, <1>4, NextByteIs DEF RecvLineFound
  <2>2. Consumed' = q /\ Count' = Count - (pos + 1) /\ taken' = taken
    BY <1>2, <2>1, SkipProperties
  <2>3. TypeOK' /\ BufferHoldsNext'
    BY <1>3, <2>1
  <2>4. CallShape'
    BY <1>1, <1>2, <2>1, <2>2 DEF CallShape, TypeOK
  <2>5. ReplyExact'
    <3>1. ~Keep(q)
      BY <1>1, <2>1 DEF Keep
    <3>2. QED BY <1>1, <1>2, <2>2, <3>1 DEF ReplyExact, Keep
  <2>6. LineExact' /\ CountExact' /\ AllExact'
    <3>1. err = "done"
      BY <1>1, <1>2, <2>1 DEF CallShape, TypeOK, Count
    <3>2. /\ \A x \in chain+1..Consumed+pos : input[x] # "lf"
          /\ chain <= Consumed
      BY <1>1 DEF LineExact, ReplyExact
    <3>3. QED BY <1>1, <1>2, <2>1, <2>2, <3>1, <3>2 DEF LineExact, CountExact, AllExact
  <2>7. QED BY <2>3, <2>4, <2>5, <2>6
<1>5. CASE RecvLineEnd
  <2>1. /\ pos = Count /\ buffer_skip(pos) /\ pos \in 0..Count
        /\ pc' = IF err = "done" THEN "get" ELSE "idle"
    BY <1>2, <1>5 DEF RecvLineEnd
  <2>2. Consumed' = Consumed + pos /\ Count' = 0 /\ taken' = taken
    BY <1>2, <2>1, SkipProperties
  <2>3. TypeOK' /\ BufferHoldsNext'
    BY <1>3, <2>1
  <2>4. CallShape'
    BY <1>1, <1>2, <2>1, <2>2 DEF CallShape, TypeOK
  <2>5. ReplyExact'
    BY <1>1, <1>2, <2>2 DEF ReplyExact, Keep
  <2>6. LineExact' /\ CountExact' /\ AllExact'
    BY <1>1, <1>2, <2>1, <2>2 DEF LineExact, CountExact, AllExact
  <2>7. QED BY <2>3, <2>4, <2>5, <2>6
<1>6. QED BY <1>4, <1>5

\* A loop body that appends the first n bytes of the buffer to the reply.
LEMMA FrontProperties ==
    ASSUME IInv, NEW n \in 0..Count, pc = "body", pat # "l",
           b' = b \o Front(n), buffer_skip(n), pos' = pos, UNCHANGED <<input, pat, chain>>
    PROVE  /\ b' \in Seq(1..Len(input)) /\ Len(b') = Len(b) + n /\ Len(b) \in Nat
           /\ ReplyExact'
<1> USE DEF IInv
<1>1. /\ pos = 0 /\ n \in Nat /\ Consumed \in Nat /\ chain \in Nat /\ Len(input) \in Nat
      /\ Consumed + n <= Len(input) /\ b \in Seq(1..Len(input)) /\ Count \in Nat
      /\ first \in Nat /\ last \in Nat /\ taken \in Nat
  BY InputTyped, BufSizeAssumption DEF TypeOK, Count, Consumed, BufferHoldsNext, CallShape
<1>2. Front(n) = [i \in 1..n |-> Consumed + i]
  <2>1. ASSUME NEW i \in 1..n PROVE data[first + i - 1] = Consumed + i
    <3>1. first + i - 1 \in first..last-1
      BY <1>1 DEF Count
    <3>2. data[first + i - 1] = taken - last + (first + i - 1) + 1
      BY <3>1 DEF BufferHoldsNext
    <3>3. QED BY <1>1, <3>2 DEF Consumed, Count
  <2>2. QED BY <2>1 DEF Front
<1>3. /\ b' \in Seq(1..Len(input)) /\ Len(b') = Len(b) + n /\ Len(b) \in Nat
      /\ \A i \in 1..Len(b) : b'[i] = b[i] /\ b[i] \in Nat
      /\ \A i \in 1..n : b'[Len(b) + i] = Consumed + i
  <2>1. \A i \in 1..Len(b) : b[i] \in Nat
    BY <1>1
  <2>2. /\ b \o Front(n) \in Seq(1..Len(input))
        /\ Len(b \o Front(n)) = Len(b) + n
        /\ \A i \in 1..Len(b) : (b \o Front(n))[i] = b[i]
        /\ \A i \in 1..n : (b \o Front(n))[Len(b) + i] = Consumed + i
    <3>1. /\ Len(input) \in Nat /\ b \in Seq(1..Len(input)) /\ n \in Nat
          /\ Consumed \in Nat /\ Consumed + n <= Len(input)
      BY <1>1
    <3>2. QED BY <3>1, <1>2, AppendFront, SMTT(30)
  <2>3. Len(b) \in Nat
    BY <1>1
  <2>4. QED BY <2>1, <2>2, <2>3, Zenon
<1>4. Consumed' = Consumed + n /\ pos' = 0
  BY <1>1, SkipProperties
<1>5. \A x : Keep(x) /\ Keep(x)'
  BY DEF Keep
<1>6. /\ chain <= Consumed
      /\ Enumerates(b, Len(b), chain, Consumed)
  <2>1. Consumed + pos = Consumed
    BY <1>1
  <2>2. QED BY <1>5, <2>1 DEF ReplyExact, Enumerates
<1>7. Continues(b, b', Len(b), n, Consumed)
  BY <1>3, Zenon DEF Continues
<1>8. Enumerates(b', Len(b) + n, chain, Consumed + n)
  BY <1>1, <1>3, <1>6, <1>7, ExtendEnumeration
<1>9. Consumed' + pos' = Consumed + n /\ chain' <= Consumed'
  BY <1>1, <1>4, <1>6
<1>10. ReplyExact'
  BY <1>3, <1>5, <1>8, <1>9, Zenon DEF ReplyExact, Enumerates
<1>11. QED BY <1>3, <1>10

\* recvall and recvraw append what the buffer offers, recvraw no more than it wants.
LEMMA RecvFrontIInv == IInv /\ (RecvAll \/ RecvRaw) => IInv'
<1> SUFFICES ASSUME IInv, RecvAll \/ RecvRaw PROVE IInv'
  OBVIOUS
<1> USE DEF IInv
<1>1. /\ UNCHANGED <<input, arrived, fin, now, faults, sock, tm, pat, wanted, callStart, chain,
                     pos, wake, waitFrom>>
      /\ pc = "body" /\ pat # "l" /\ pos = 0
  BY DEF RecvAll, RecvRaw, BodyFrame, argVars, peerVars, waitVars, CallShape
<1>2. Count \in Nat /\ Consumed \in Nat /\ Len(b) \in Nat /\ total \in Nat /\ wanted \in Nat
      /\ callStart \in Nat /\ chain \in Nat
  BY BufSizeAssumption DEF TypeOK, Count, Consumed, BufferHoldsNext
<1>3. ASSUME NEW n \in 0..Count, b' = b \o Front(n), buffer_skip(n), total' \in Nat,
             pc' \in {"get", "idle"}, err' \in {"done", err}
      PROVE  /\ TypeOK' /\ BufferHoldsNext' /\ ReplyExact'
             /\ Len(b') = Len(b) + n /\ Consumed' = Consumed + n /\ Count' = Count - n
             /\ taken' = taken
  <2>1. /\ Count' = Count - n /\ Consumed' = Consumed + n /\ data' = data /\ taken' = taken
        /\ received' \in Nat /\ last' \in 0..BufSize /\ first' \in 0..last'
        /\ BufferHoldsNext'
    BY <1>3, SkipProperties
  <2>2. b' \in Seq(1..Len(input)) /\ Len(b') = Len(b) + n /\ ReplyExact'
    BY <1>1, <1>3, FrontProperties
  <2>3. TypeOK'
    BY <1>1, <1>2, <1>3, <2>1, <2>2, SMTT(30) DEF TypeOK
  <2>4. QED BY <2>1, <2>2, <2>3
<1>4. CASE RecvAll
  <2>1. /\ pat = "a" /\ b' = b \o Front(Count) /\ buffer_skip(Count) /\ total' = total + Count
        /\ pc' = IF err = "done" THEN "get" ELSE "idle"
        /\ err' = IF err = "closed" /\ total' > 0 THEN "done" ELSE err
    BY <1>4 DEF RecvAll
  <2>2. /\ TypeOK' /\ BufferHoldsNext' /\ ReplyExact'
        /\ Consumed' = Consumed + Count /\ Count' = 0 /\ taken' = taken
    BY <1>2, <1>3, <2>1
  <2>3. total = Consumed - callStart /\ chain <= callStart /\ callStart <= Consumed
    BY <1>1, <2>1 DEF CallShape
  <2>4. CallShape'
    BY <1>1, <1>2, <2>1, <2>2, <2>3 DEF CallShape
  <2>5. LineExact' /\ CountExact'
    BY <1>1, <2>1 DEF LineExact, CountExact
  <2>6. AllExact'
    <3>1. SUFFICES ASSUME err # "done", err = "closed", total + Count > 0
                   PROVE  Consumed' = taken' /\ callStart < Consumed'
                          /\ (sock = "open" => fin # "open" /\ arrived = taken)
      BY <1>1, <2>1, <2>2 DEF AllExact
    <3>2. Count = 0
      BY <1>1, <3>1 DEF CallShape, TypeOK, Count
    <3>3. Consumed = taken
      BY <3>2 DEF Consumed, TypeOK
    <3>4. sock = "open" => fin # "open" /\ arrived = taken
      BY <1>1, <3>1 DEF CallShape
    <3>5. QED BY <1>2, <2>2, <2>3, <3>1, <3>2, <3>3, <3>4
  <2>7. QED BY <2>2, <2>4, <2>5, <2>6
<1>5. CASE RecvRaw
  <2> DEFINE n == MIN(Count, wanted - Len(b))
  <2>1. /\ pat = "n" /\ b' = b \o Front(n) /\ buffer_skip(n) /\ total' = total /\ err' = err
        /\ pc' = IF Len(b') >= wanted \/ err # "done" THEN "idle" ELSE "get"
    BY <1>5 DEF RecvRaw
  <2>2. Len(b) <= wanted
    BY <1>1, <2>1 DEF CountExact
  <2>3. n \in 0..Count /\ n <= wanted - Len(b)
    BY <1>2, <2>2 DEF MIN
  <2>4. /\ TypeOK' /\ BufferHoldsNext' /\ ReplyExact'
        /\ Len(b') = Len(b) + n /\ Consumed' = Consumed + n
    BY <1>2, <1>3, <2>1, <2>3
  <2>5. chain <= callStart /\ callStart <= Consumed
    BY DEF CallShape
  <2>6. CallShape'
    BY <1>1, <1>2, <2>1, <2>3, <2>4, <2>5 DEF CallShape
  <2>7. CountExact'
    BY <1>1, <1>2, <2>1, <2>3, <2>4 DEF CountExact
  <2>8. LineExact' /\ AllExact'
    BY <1>1, <2>1 DEF LineExact, AllExact
  <2>9. QED BY <2>4, <2>6, <2>7, <2>8
<1>6. QED BY <1>4, <1>5

-----------------------------------------------------------------------------
\* Every step preserves the invariant.
LEMMA NextIInv == IInv /\ [Next]_vars => IInv'
<1> SUFFICES ASSUME IInv, [Next]_vars PROVE IInv'
  OBVIOUS
<1>1. CASE Environment
  BY <1>1, EnvironmentIInv
<1>2. CASE Client
  <2>1. CASE \/ \E value \in TimeoutValues, mode \in {"b", "t"} : SetTimeout(value, mode)
             \/ \E r \in StatsValues : buffer_meth_setstats(r)
             \/ socket_destroy
    BY <2>1, MethodsIInv
  <2>2. CASE \E p \in {"l", "a"}, resume \in BOOLEAN : buffer_meth_receive(p, 0, resume)
    BY <2>2, ReceiveIInv
  <2>3. CASE \E n \in Wanted, resume \in BOOLEAN : buffer_meth_receive("n", n, resume)
    BY <2>3, ReceiveIInv, WantedAssumption
  <2>4. QED BY <1>2, <2>1, <2>2, <2>3 DEF Client
<1>3. CASE buffer_get \/ RecvData
  BY <1>3, GetIInv, RecvDataIInv
<1>4. CASE RecvFails \/ RecvInterrupted \/ RecvWouldBlock \/ PollReady \/ PollFails
           \/ PollInterrupted
  BY <1>4, WaitIInv
<1>5. CASE RecvLineByte \/ RecvLineFound \/ RecvLineEnd \/ RecvAll \/ RecvRaw
  BY <1>5, RecvLineByteIInv, RecvLineEndIInv, RecvFrontIInv
<1>6. CASE UNCHANGED vars
  BY <1>6 DEF vars, peerVars, objectVars, bufferVars, callVars, argVars, waitVars, IInv, TypeOK,
     BufferHoldsNext, CallShape, ReplyExact, LineExact, CountExact, AllExact, Count, Consumed,
     Keep
<1>7. QED BY <1>1, <1>2, <1>3, <1>4, <1>5, <1>6 DEF Next, Call

\* IInv is an invariant of the specification.
THEOREM Invariance == Spec => []IInv
<1>1. Init => IInv
  BY InitIInv
<1>2. IInv /\ [Next]_vars => IInv'
  BY NextIInv
<1>3. QED BY <1>1, <1>2, PTL DEF Spec

\* Whatever is sent and however it is cut, the variables keep their types and the
\* indices stay inside the buffer (buffer.c: first, last).
THEOREM TypeCorrect == Spec => []TypeOK
<1>1. IInv => TypeOK
  BY DEF IInv
<1>2. QED BY <1>1, Invariance, PTL

\* The buffer always holds the bytes that follow the ones consumed.
THEOREM BufferCorrect == Spec => []BufferHoldsNext
<1>1. IInv => BufferHoldsNext
  BY DEF IInv
<1>2. QED BY <1>1, Invariance, PTL

\* No byte of the stream is lost, repeated or reordered on its way to the client,
\* over any number of calls, failures and resumptions.
THEOREM ReplyCorrect == Spec => []ReplyExact
<1>1. IInv => ReplyExact
  BY DEF IInv
<1>2. QED BY <1>1, Invariance, PTL

\* receive("*l") returns exactly one line.
THEOREM LineCorrect == Spec => []LineExact
<1>1. IInv => LineExact
  BY DEF IInv
<1>2. QED BY <1>1, Invariance, PTL

\* receive(number) returns exactly that many bytes.
THEOREM CountCorrect == Spec => []CountExact
<1>1. IInv => CountExact
  BY DEF IInv
<1>2. QED BY <1>1, Invariance, PTL

\* receive("*a") succeeds only at the end of the stream.
THEOREM AllCorrect == Spec => []AllExact
<1>1. IInv => AllExact
  BY DEF IInv
<1>2. QED BY <1>1, Invariance, PTL

\* Every pattern ends where it should (buffer.c: recvline, recvraw, recvall).
THEOREM EndsCorrect == Spec => []EndsExact
<1>1. IInv => EndsExact
  BY DEF IInv, EndsExact
<1>2. QED BY <1>1, Invariance, PTL

-----------------------------------------------------------------------------
\* The limits of a wait, with what they rest on: a wait starts after the call.
TimeInv ==
    /\ pc # "idle" => tm.start <= now
    /\ pc = "poll" => tm.start <= waitFrom /\ waitFrom <= now
    /\ TotalLimit
    /\ BlockLimitAlone

LEMMA NextTimeInv == IInv /\ IInv' /\ TimeInv /\ [Next]_vars => TimeInv'
<1> SUFFICES ASSUME IInv, IInv', TimeInv, [Next]_vars PROVE TimeInv'
  OBVIOUS
<1>1. /\ now \in Nat /\ now' \in Nat /\ tm \in TimeoutRecord /\ waitFrom \in Nat
      /\ wake \in Int /\ wake' \in Int
  BY BoundsAssumption DEF IInv, TypeOK
<1>2. tm.start \in Int /\ tm.block \in Int /\ tm.total \in Int
  BY <1>1 DEF TimeoutRecord
\* Entering poll, for the first time or after a signal.
<1>3. ASSUME wake' \in Wakes(tm, now), UNCHANGED <<tm, now>>,
             waitFrom' = waitFrom \/ waitFrom' = now, pc' = "poll", pc # "idle",
             waitFrom' # now => pc = "poll"
      PROVE  TimeInv'
  <2>1. tm.start <= now /\ tm.start <= waitFrom' /\ waitFrom' <= now
    BY <1>1, <1>2, <1>3 DEF TimeInv
  <2>2. wake' # Forever =>
          /\ tm.total >= 0 => wake' <= MAX(now, tm.start + tm.total)
          /\ tm.total < 0 /\ tm.block >= 0 => wake' <= MAX(now, tm.start + tm.block)
    BY <1>1, <1>3, <2>1, WakesBound
  <2>3. waitFrom' \in Int
    BY <1>1, <1>3
  <2>4. QED BY <1>1, <1>2, <1>3, <2>1, <2>2, <2>3 DEF TimeInv, TotalLimit, BlockLimitAlone, BlockLimit, MAX
\* Steps that neither enter poll nor start a call.
<1>4. ASSUME UNCHANGED <<tm, wake, waitFrom>>, now' \in {now, now + 1},
             pc' = "poll" => pc = "poll", pc = "idle" => pc' = "idle"
      PROVE  TimeInv'
  BY <1>1, <1>2, <1>4 DEF TimeInv, TotalLimit, BlockLimitAlone, BlockLimit, MAX
<1>5. CASE Environment
  <2>1. UNCHANGED objectVars /\ now' \in {now, now + 1}
    BY <1>5 DEF Environment, PeerSends, PeerEnds, Tick
  <2>2. QED BY <1>4, <2>1 DEF objectVars, callVars, argVars, waitVars
<1>6. CASE Client
  <2>1. CASE \E value \in TimeoutValues, mode \in {"b", "t"} : SetTimeout(value, mode)
    BY <2>1 DEF SetTimeout, TimeInv, TotalLimit, BlockLimitAlone, BlockLimit
  <2>2. CASE (\E r \in StatsValues : buffer_meth_setstats(r)) \/ socket_destroy
    BY <2>2, <1>4 DEF buffer_meth_setstats, socket_destroy, callVars, argVars, waitVars
  <2>3. ASSUME NEW p, NEW n, NEW resume, buffer_meth_receive(p, n, resume) PROVE TimeInv'
    <3>1. pc' \in {"idle", "get"} /\ tm' = timeout_markstart(tm, now) /\ now' = now
      BY <2>3 DEF buffer_meth_receive
    <3>2. tm'.start = now
      BY <1>1, <3>1 DEF timeout_markstart, TimeoutRecord
    <3>3. QED BY <1>1, <3>1, <3>2 DEF TimeInv, TotalLimit, BlockLimitAlone, BlockLimit
  <2>4. QED BY <1>6, <2>1, <2>2, <2>3 DEF Client
<1>7. CASE Call
  <2>1. CASE (RecvWouldBlock \/ PollInterrupted) /\ EnterPoll
    <3>1. UNCHANGED <<tm, now>> /\ pc' = "poll" /\ wake' \in Wakes(tm, now)
      BY <2>1 DEF RecvWouldBlock, PollInterrupted, EnterPoll, callVars, argVars
    <3>2. (pc = "recv" /\ waitFrom' = now) \/ (pc = "poll" /\ waitFrom' = waitFrom)
      BY <2>1 DEF RecvWouldBlock, PollInterrupted, EnterPoll, GetFails
    <3>3. QED BY <1>3, <3>1, <3>2
  <2>2. CASE (RecvWouldBlock \/ RecvFails \/ PollFails \/ buffer_get) /\ UNCHANGED waitVars
             /\ pc' \in {"body", "recv"}
    BY <2>2, <1>4 DEF RecvWouldBlock, RecvFails, PollFails, buffer_get, callVars, argVars, waitVars
  <2>3. CASE RecvData \/ RecvInterrupted \/ PollReady
    BY <2>3, <1>4 DEF RecvData, RecvInterrupted, PollReady, objectVars, callVars, argVars, waitVars
  <2>4. CASE RecvLineByte \/ RecvLineFound \/ RecvLineEnd \/ RecvAll \/ RecvRaw
    BY <2>4, <1>4 DEF RecvLineByte, RecvLineFound, RecvLineEnd, RecvAll, RecvRaw, BodyFrame,
       argVars, waitVars
  <2>5. QED
    BY <1>7, <2>1, <2>2, <2>3, <2>4
    DEF Call, RecvWouldBlock, RecvFails, PollFails, PollInterrupted, buffer_get, GetFails
<1>8. CASE UNCHANGED vars
  BY <1>8, <1>4 DEF vars, objectVars, callVars, argVars, waitVars
<1>9. QED BY <1>5, <1>6, <1>7, <1>8 DEF Next

\* A wait never goes past the total limit, and with a block limit alone never past
\* that (usocket.c: socket_waitfd, timeout.c: timeout_getretry), for any number
\* of interruptions.
THEOREM LimitsKept == Spec => []LimitKept
<1>1. Init => TimeInv
  BY DEF Init, TimeInv, TotalLimit, BlockLimitAlone, BlockLimit
<1>2. IInv /\ IInv' /\ TimeInv /\ [Next]_vars => TimeInv'
  BY NextTimeInv
<1>3. TimeInv => LimitKept
  BY DEF TimeInv, LimitKept
<1>4. QED BY <1>1, <1>2, <1>3, Invariance, PTL DEF Spec

-----------------------------------------------------------------------------
\* A call gives up only when a limit is reached, with what that rests on: the limits
\* fit the int of milliseconds of poll, and a wait ends when one is reached.
EarlyInv ==
    /\ tm.block <= IntMax * Ms /\ tm.total <= IntMax * Ms
    /\ pc = "poll" /\ wake # Forever => Reached(tm, wake)
    /\ NoEarlyTimeout

\* A limit that has been reached stays so while the clock runs.
LEMMA ReachedLater ==
    ASSUME NEW t \in TimeoutRecord, NEW n \in Int, NEW m \in Int, n <= m, Reached(t, n)
    PROVE  Reached(t, m)
  BY MsAssumption DEF Reached, TimeoutRecord

LEMMA NextEarlyInv ==
    ASSUME \A v \in TimeoutValues : v <= IntMax * Ms
    PROVE  IInv /\ IInv' /\ TimeInv /\ EarlyInv /\ [Next]_vars => EarlyInv'
<1> SUFFICES ASSUME IInv, IInv', TimeInv, EarlyInv, [Next]_vars PROVE EarlyInv'
  OBVIOUS
<1>1. /\ now \in Nat /\ now' \in Nat /\ tm \in TimeoutRecord /\ tm' \in TimeoutRecord
      /\ wake \in Int
  BY BoundsAssumption DEF IInv, TypeOK
<1>2. tm.start \in Int /\ tm.block \in Int /\ tm.total \in Int /\ IntMax * Ms \in Int
  BY <1>1, MsAssumption, IntMaxAssumption DEF TimeoutRecord
\* Entering poll, for the first time or after a signal.
<1>3. ASSUME wake' \in Wakes(tm, now), tm' = tm, pc' = "poll", pc # "idle"
      PROVE  EarlyInv'
  <2>1. tm.start <= now
    BY <1>3 DEF TimeInv
  <2>2. wake' # Forever => Reached(tm, wake')
    BY <1>1, <1>3, <2>1, WakesReached DEF EarlyInv
  <2>3. QED BY <1>3, <2>2 DEF EarlyInv, NoEarlyTimeout
\* Giving up.
<1>4. ASSUME tm' = tm, now' = now, pc' = "body", tm.block = 0 \/ Reached(tm, now)
      PROVE  EarlyInv'
  BY <1>1, <1>2, <1>4 DEF EarlyInv, NoEarlyTimeout, Reached
\* Steps that neither enter poll nor give up.
<1>5. ASSUME tm' = tm, wake' = wake, now' \in {now, now + 1},
             pc' = "poll" => pc = "poll",
             pc' = "body" /\ err' = "timeout" => pc = "body" /\ err = "timeout"
      PROVE  EarlyInv'
  <2>1. now <= now'
    BY <1>1, <1>5
  <2>2. pc' = "body" /\ err' = "timeout" => tm.block = 0 \/ Reached(tm, now)
    BY <1>5 DEF EarlyInv, NoEarlyTimeout, Reached
  <2>3. Reached(tm, now) => Reached(tm, now')
    BY <1>1, <2>1, ReachedLater
  <2>4. NoEarlyTimeout'
    BY <1>5, <2>2, <2>3 DEF NoEarlyTimeout, Reached
  <2>5. QED BY <1>5, <2>4 DEF EarlyInv
<1>6. CASE Environment
  <2>1. UNCHANGED objectVars /\ now' \in {now, now + 1}
    BY <1>6 DEF Environment, PeerSends, PeerEnds, Tick
  <2>2. QED BY <1>5, <2>1 DEF objectVars, callVars, argVars, waitVars
<1>7. CASE Client
  <2>1. ASSUME NEW value \in TimeoutValues, NEW mode, SetTimeout(value, mode) PROVE EarlyInv'
    <3>1. pc' = "idle" /\ tm' = timeout_meth_settimeout(tm, value, mode)
      BY <2>1 DEF SetTimeout
    <3>2. tm'.block \in {tm.block, value} /\ tm'.total \in {tm.total, value}
      BY <1>1, <3>1 DEF timeout_meth_settimeout, TimeoutRecord
    <3>3. QED BY <3>1, <3>2 DEF EarlyInv, NoEarlyTimeout
  <2>2. CASE (\E r \in StatsValues : buffer_meth_setstats(r)) \/ socket_destroy
    BY <2>2, <1>5 DEF buffer_meth_setstats, socket_destroy, callVars, argVars, waitVars
  <2>3. ASSUME NEW p, NEW n, NEW resume, buffer_meth_receive(p, n, resume) PROVE EarlyInv'
    <3>1. pc' \in {"idle", "get"} /\ tm' = timeout_markstart(tm, now)
      BY <2>3 DEF buffer_meth_receive
    <3>2. tm'.block = tm.block /\ tm'.total = tm.total
      BY <1>1, <3>1 DEF timeout_markstart, TimeoutRecord
    <3>3. QED BY <3>1, <3>2 DEF EarlyInv, NoEarlyTimeout
  <2>4. QED BY <1>7, <2>1, <2>2, <2>3 DEF Client
<1>8. CASE RecvWouldBlock \/ PollInterrupted
  <2>1. tm' = tm /\ now' = now /\ pc # "idle"
    BY <1>8 DEF RecvWouldBlock, PollInterrupted, callVars, argVars
  <2>2. CASE EnterPoll
    BY <1>3, <2>1, <2>2 DEF EnterPoll
  <2>3. CASE timeout_iszero(tm) /\ GetFails("timeout")
    BY <1>4, <2>1, <2>3 DEF timeout_iszero, GetFails
  <2>4. QED BY <1>8, <2>2, <2>3 DEF RecvWouldBlock, PollInterrupted
<1>9. CASE PollFails
  <2>1. tm' = tm /\ now' = now /\ wake' = wake /\ pc = "poll" /\ pc' = "body"
    BY <1>9 DEF PollFails, callVars, argVars, waitVars, GetFails
  <2>2. CASE wake # Forever /\ now >= wake
    <3>1. Reached(tm, now)
      BY <1>1, <2>1, <2>2, ReachedLater DEF EarlyInv
    <3>2. QED BY <1>4, <2>1, <3>1
  <2>3. CASE GetFails("error")
    BY <1>5, <2>1, <2>3 DEF GetFails
  <2>4. QED BY <1>9, <2>2, <2>3 DEF PollFails
<1>10. CASE buffer_get \/ RecvFails
  <2>1. UNCHANGED <<tm, now, wake>>
    BY <1>10 DEF buffer_get, RecvFails, callVars, argVars, waitVars
  <2>2. err = "done"
    BY <1>10 DEF buffer_get, RecvFails, IInv, CallShape
  <2>3. pc' # "poll" /\ err' # "timeout"
    BY <1>10, <2>2 DEF buffer_get, RecvFails, GetFails, bufferVars
  <2>4. QED BY <1>5, <2>1, <2>3
<1>11. CASE RecvData \/ RecvInterrupted \/ PollReady
  BY <1>11, <1>5 DEF RecvData, RecvInterrupted, PollReady, objectVars, callVars, argVars, waitVars
<1>12. CASE RecvLineByte \/ RecvLineFound \/ RecvLineEnd \/ RecvAll \/ RecvRaw
  <2>1. UNCHANGED <<tm, now, wake>> /\ pc = "body" /\ pc' # "poll"
    BY <1>12 DEF RecvLineByte, RecvLineFound, RecvLineEnd, RecvAll, RecvRaw, BodyFrame, argVars,
       waitVars
  <2>2. err' = "timeout" => err = "timeout"
    BY <1>12 DEF RecvLineByte, RecvLineFound, RecvLineEnd, RecvAll, RecvRaw
  <2>3. QED BY <1>5, <2>1, <2>2
<1>13. CASE UNCHANGED vars
  BY <1>13, <1>5 DEF vars, objectVars, callVars, argVars, waitVars
<1>14. QED
  BY <1>6, <1>7, <1>8, <1>9, <1>10, <1>11, <1>12, <1>13 DEF Next, Call

\* A call never gives up before one of its limits is reached, to the millisecond, for
\* any number of interruptions, when no limit overflows the int of poll: the cast of
\* socket_waitfd may cut a longer one (usocket.c).
THEOREM NeverEarly ==
    ASSUME \A v \in TimeoutValues : v <= IntMax * Ms
    PROVE  Spec => []NoEarlyTimeout
<1>1. Init => TimeInv /\ EarlyInv
  <2>1. IntMax * Ms \in Nat
    BY IntMaxAssumption, MsAssumption
  <2>2. QED
    BY <2>1 DEF Init, TimeInv, TotalLimit, BlockLimitAlone, BlockLimit, EarlyInv, NoEarlyTimeout,
       timeout_init
<1>2. IInv /\ IInv' /\ TimeInv /\ [Next]_vars => TimeInv'
  BY NextTimeInv
<1>3. IInv /\ IInv' /\ TimeInv /\ EarlyInv /\ [Next]_vars => EarlyInv'
  BY NextEarlyInv
<1>4. EarlyInv => NoEarlyTimeout
  BY DEF EarlyInv
<1>5. QED BY <1>1, <1>2, <1>3, <1>4, Invariance, PTL DEF Spec

-----------------------------------------------------------------------------
\* The statistics.

\* A buffer_get that fails on an empty buffer takes nothing.
LEMMA GetFailsCounts ==
    ASSUME IInv, NEW e, GetFails(e), first = last
    PROVE  received' = received /\ Consumed' = Consumed
<1>1. taken \in Nat /\ taken' = taken /\ first' = 0 /\ last' = 0 /\ received' = received
      /\ first \in Nat
  BY InputTyped, BufSizeAssumption DEF IInv, TypeOK, GetFails
<1>2. QED BY <1>1 DEF Consumed, Count

LEMMA SkipCounts ==
    ASSUME IInv, NEW n \in 0..Count, buffer_skip(n)
    PROVE  received' - received = Consumed' - Consumed
<1>1. Consumed' = Consumed + n
  BY SkipProperties
<1>2. received' = received + n
  BY DEF buffer_skip
<1>3. Count \in Int /\ Consumed \in Int /\ received \in Int
  BY BufSizeAssumption, InputTyped DEF IInv, TypeOK, Count, Consumed
<1>4. QED BY <1>1, <1>2, <1>3

\* Only the loops of the patterns take bytes out of the buffer.
LEMMA NothingLeaves ==
    ASSUME IInv,
           \/ Environment
           \/ \E value \in TimeoutValues, mode \in {"b", "t"} : SetTimeout(value, mode)
           \/ socket_destroy
           \/ \E p, n, resume : buffer_meth_receive(p, n, resume)
           \/ buffer_get \/ RecvData \/ RecvFails \/ RecvInterrupted \/ RecvWouldBlock
           \/ PollReady \/ PollFails \/ PollInterrupted \/ RecvLineByte
    PROVE  received' = received /\ Consumed' = Consumed
<1>1. taken \in Int /\ first \in Int /\ last \in Int
  BY BufSizeAssumption, InputTyped DEF IInv, TypeOK
<1>2. ASSUME UNCHANGED bufferVars PROVE received' = received /\ Consumed' = Consumed
  BY <1>2 DEF bufferVars, Consumed, Count
<1>3. CASE Environment
  BY <1>2, <1>3 DEF Environment, PeerSends, PeerEnds, Tick, objectVars
<1>4. CASE \/ \E value \in TimeoutValues, mode \in {"b", "t"} : SetTimeout(value, mode)
           \/ socket_destroy
  BY <1>2, <1>4 DEF SetTimeout, socket_destroy
<1>5. CASE \E p, n, resume : buffer_meth_receive(p, n, resume)
  BY <1>2, <1>5 DEF buffer_meth_receive
<1>6. CASE buffer_get \/ RecvFails \/ RecvWouldBlock \/ PollFails
  <2>1. CASE \E e : GetFails(e)
    <3>1. first = last
      BY <1>6, <2>1 DEF buffer_get, RecvFails, RecvWouldBlock, PollFails, IInv, CallShape,
         TypeOK, buffer_isempty, GetFails, bufferVars
    <3>2. QED BY <2>1, <3>1, GetFailsCounts
  <2>2. CASE UNCHANGED bufferVars
    BY <1>2, <2>2
  <2>3. QED BY <1>6, <2>1, <2>2 DEF buffer_get, RecvFails, RecvWouldBlock, PollFails
<1>7. CASE RecvData
  <2>1. PICK n \in 1..MIN(BufSize, arrived - taken) : FillBuffer(n)
    BY <1>7 DEF RecvData
  <2>2. n \in Int
    BY BufSizeAssumption, InputTyped DEF MIN, IInv, TypeOK
  <2>3. first = last /\ received' = received
    BY <1>7 DEF RecvData, IInv, CallShape
  <2>4. Consumed' = Consumed
    BY <1>1, <2>1, <2>2, <2>3 DEF FillBuffer, Consumed, Count
  <2>5. QED BY <2>3, <2>4
<1>8. CASE RecvInterrupted \/ PollReady \/ PollInterrupted \/ RecvLineByte
  BY <1>2, <1>8 DEF RecvInterrupted, PollReady, PollInterrupted, RecvLineByte, objectVars
<1>9. QED BY <1>3, <1>4, <1>5, <1>6, <1>7, <1>8

\* The loops take 0 or more bytes from the front of the buffer.
LEMMA LoopsSkip ==
    ASSUME IInv, RecvLineFound \/ RecvLineEnd \/ RecvAll \/ RecvRaw
    PROVE  \E n \in 0..Count : buffer_skip(n)
<1>1. Count \in Nat /\ pos \in 0..Count
  BY BufSizeAssumption DEF IInv, TypeOK, Count
<1>2. CASE RecvLineFound \/ RecvLineEnd
  BY <1>1, <1>2 DEF RecvLineFound, RecvLineEnd
<1>3. CASE RecvAll
  BY <1>1, <1>3 DEF RecvAll
<1>4. CASE RecvRaw
  <2>1. Len(b) \in Nat /\ wanted \in Nat /\ Len(b) <= wanted
    BY <1>4 DEF IInv, TypeOK, CountExact, RecvRaw
  <2>2. MIN(Count, wanted - Len(b)) \in 0..Count
    BY <1>1, <2>1 DEF MIN
  <2>3. QED BY <1>4, <2>2 DEF RecvRaw
<1>5. QED BY <1>2, <1>3, <1>4

\* getstats counts a byte when it leaves the buffer, exactly once, also when the call
\* that takes it fails (buffer.c: buffer_skip), whatever the program sets the count to.
THEOREM StatsCorrect == Spec => StatsExact
<1>1. ASSUME IInv, [Next]_vars
      PROVE  [\/ received' - received = Consumed' - Consumed
              \/ \E r \in StatsValues : buffer_meth_setstats(r)]_vars
  <2>1. received \in Int /\ Consumed \in Int
    BY <1>1, BufSizeAssumption, InputTyped DEF IInv, TypeOK, Count, Consumed
  <2>2. ASSUME received' = received, Consumed' = Consumed
        PROVE  received' - received = Consumed' - Consumed
    BY <2>1, <2>2
  <2>3. CASE RecvLineFound \/ RecvLineEnd \/ RecvAll \/ RecvRaw
    BY <1>1, <2>3, LoopsSkip, SkipCounts
  <2>4. CASE Client
    BY <1>1, <2>2, <2>4, NothingLeaves DEF Client
  <2>5. CASE Environment
    BY <1>1, <2>2, <2>5, NothingLeaves
  <2>6. CASE Call /\ ~(RecvLineFound \/ RecvLineEnd \/ RecvAll \/ RecvRaw)
    BY <1>1, <2>2, <2>6, NothingLeaves DEF Call
  <2>7. QED BY <1>1, <2>3, <2>4, <2>5, <2>6 DEF Next
<1>2. QED BY <1>1, Invariance, PTL DEF Spec, StatsExact

-----------------------------------------------------------------------------
\* The refinement of ByteStream.

\* How long the reply is: all the bytes of its chain of calls, and while a count is
\* read fewer than it.
Lengths ==
    /\ pat # "l" => Len(b) = Consumed - chain
    /\ pc # "idle" /\ pat = "n" => Len(b) < wanted \/ (wanted = 0 /\ Len(b) = 0)

LEMMA NextLengths == IInv /\ IInv' /\ Lengths /\ [Next]_vars => Lengths'
<1> SUFFICES ASSUME IInv, IInv', Lengths, [Next]_vars PROVE Lengths'
  OBVIOUS
<1>1. Consumed \in Int /\ chain \in Nat /\ Len(b) \in Nat /\ wanted \in Nat /\ Count \in Nat
  BY BufSizeAssumption, InputTyped DEF IInv, TypeOK, Count, Consumed
<1>2. ASSUME UNCHANGED <<pat, wanted, chain, b>>, Consumed' = Consumed,
             pc' # "idle" => pc # "idle"
      PROVE  Lengths'
  BY <1>2 DEF Lengths
\* In line mode there is nothing to show.
<1>3. ASSUME pat' = "l" PROVE Lengths'
  BY <1>3 DEF Lengths
<1>4. CASE Environment
  <2>1. UNCHANGED objectVars
    BY <1>4 DEF Environment, PeerSends, PeerEnds, Tick
  <2>2. QED BY <1>2, <1>4, <2>1, NothingLeaves DEF objectVars, callVars, argVars
<1>5. CASE Client
  <2>1. CASE (\E value \in TimeoutValues, mode \in {"b", "t"} : SetTimeout(value, mode))
             \/ socket_destroy
    BY <1>2, <2>1, NothingLeaves DEF SetTimeout, socket_destroy, callVars, argVars
  <2>2. CASE \E r \in StatsValues : buffer_meth_setstats(r)
    BY <1>2, <2>2 DEF buffer_meth_setstats, callVars, argVars, Consumed, Count
  <2>3. ASSUME NEW p, NEW n, NEW resume \in BOOLEAN, buffer_meth_receive(p, n, resume)
        PROVE  Lengths'
    <3>1. Consumed' = Consumed /\ pat' = p /\ wanted' = n /\ n \in Nat
      BY <2>3, NothingLeaves DEF buffer_meth_receive, IInv, TypeOK
    <3>2. CASE resume
      <4>1. b' = b /\ chain' = chain /\ p = pat
            /\ pc' = IF p = "n" /\ b # <<>> /\ n <= Len(b) THEN "idle" ELSE "get"
        BY <2>3, <3>2 DEF buffer_meth_receive
      <4>2. b = <<>> => Len(b) = 0
        OBVIOUS
      <4>3. pc' # "idle" /\ p = "n" => Len(b) < n \/ (n = 0 /\ Len(b) = 0)
        BY <1>1, <3>1, <4>1, <4>2
      <4>4. QED BY <3>1, <4>1, <4>3 DEF Lengths
    <3>3. CASE ~resume
      <4>1. b' = <<>> /\ chain' = Consumed
        BY <2>3, <3>3 DEF buffer_meth_receive
      <4>2. Len(b') = 0
        BY <4>1
      <4>3. QED BY <1>1, <3>1, <4>1, <4>2 DEF Lengths
    <3>4. QED BY <3>2, <3>3
  <2>4. QED BY <1>5, <2>1, <2>2, <2>3 DEF Client
<1>6. CASE buffer_get \/ RecvData \/ RecvFails \/ RecvInterrupted \/ RecvWouldBlock
           \/ PollReady \/ PollFails \/ PollInterrupted
  <2>1. UNCHANGED callVars /\ pc # "idle"
    BY <1>6 DEF buffer_get, RecvData, RecvFails, RecvInterrupted, RecvWouldBlock, PollReady,
       PollFails, PollInterrupted, objectVars
  <2>2. Consumed' = Consumed
    BY <1>6, NothingLeaves
  <2>3. QED BY <1>2, <2>1, <2>2 DEF callVars, argVars
<1>7. CASE RecvLineByte \/ RecvLineFound \/ RecvLineEnd
  BY <1>3, <1>7 DEF RecvLineByte, RecvLineFound, RecvLineEnd, BodyFrame, argVars
<1>8. CASE RecvAll \/ RecvRaw
  <2>1. PICK n \in 0..Count : buffer_skip(n) /\ b' = b \o Front(n)
    <3>1. CASE RecvAll
      <4>1. buffer_skip(Count) /\ b' = b \o Front(Count)
        BY <3>1 DEF RecvAll
      <4>2. Count \in 0..Count
        BY <1>1
      <4>3. QED BY <4>1, <4>2
    <3>2. CASE RecvRaw
      <4>1. Len(b) <= wanted
        BY <3>2 DEF RecvRaw, IInv, CountExact
      <4>2. MIN(Count, wanted - Len(b)) \in 0..Count
        BY <1>1, <4>1 DEF MIN
      <4>3. QED BY <3>2, <4>2 DEF RecvRaw
    <3>3. QED BY <1>8, <3>1, <3>2
  <2>2. /\ pc = "body" /\ pat # "l" /\ pos' = pos /\ UNCHANGED <<input, pat, chain, wanted>>
    BY <1>8 DEF RecvAll, RecvRaw, BodyFrame, argVars, peerVars
  <2>3. Len(b') = Len(b) + n /\ Consumed' = Consumed + n
    BY <2>1, <2>2, FrontProperties, SkipProperties
  <2>4. n \in Nat
    BY <1>1
  <2>5. Len(b') = Consumed' - chain
    BY <1>1, <2>2, <2>3, <2>4 DEF Lengths
  <2>6. pc' # "idle" /\ pat = "n" => Len(b') < wanted
    <3>1. pat = "n" => pc' = IF Len(b') >= wanted \/ err # "done" THEN "idle" ELSE "get"
      BY <1>8 DEF RecvAll, RecvRaw
    <3>2. QED BY <1>1, <2>3, <2>4, <3>1
  <2>7. QED BY <2>2, <2>5, <2>6 DEF Lengths
<1>9. CASE UNCHANGED vars
  BY <1>2, <1>9 DEF vars, objectVars, bufferVars, callVars, argVars, Consumed, Count
<1>10. QED BY <1>4, <1>5, <1>6, <1>7, <1>8, <1>9 DEF Next, Call

\* The end of the stream, once it is known.
StreamEnd == IF sock # "open" THEN taken ELSE IF fin # "open" THEN arrived ELSE -1

\* Where a call that returns may end: after what was taken before, and not past the
\* end of the stream.
LEMMA InStream ==
    ASSUME IInv, NEW n \in 0..Count
    PROVE  /\ Consumed + n \in Nat /\ callStart \in Nat /\ callStart <= Consumed + n
           /\ Consumed + n \in Consumed..Stream!Limit
           /\ Consumed + n \in callStart..Stream!Limit
<1>1. /\ taken \in Nat /\ arrived \in Nat /\ taken <= arrived /\ arrived <= Len(input)
      /\ Len(input) \in Nat /\ Count \in Nat /\ Consumed \in Nat /\ callStart \in Nat
      /\ callStart <= Consumed /\ Consumed + Count = taken
  BY BufSizeAssumption, InputTyped
  DEF IInv, TypeOK, BufferHoldsNext, CallShape, Count, Consumed
<1>2. taken <= Stream!Limit /\ Stream!Limit \in Nat
  BY <1>1 DEF Stream!Limit, Stream!Unknown
<1>3. QED BY <1>1, <1>2

\* Steps inside a call, or of the program around it, do not show.
LEMMA Inside ==
    ASSUME UNCHANGED <<input, pat, wanted, chain, callStart>>, StreamEnd' = StreamEnd,
           \/ pc # "idle" /\ pc' # "idle"
           \/ pc = "idle" /\ pc' = "idle" /\ UNCHANGED <<b, err>> /\ Consumed' = Consumed
    PROVE  UNCHANGED Stream!vars
  BY DEF Stream!vars, StreamEnd

\* The stream is cut.
LEMMA Cut ==
    ASSUME IInv, UNCHANGED <<input, pat, wanted, chain, callStart, pc, b, err>>,
           Consumed' = Consumed, NEW e \in Nat, StreamEnd' = e,
           taken <= e, e <= IF StreamEnd = -1 THEN Len(input) ELSE StreamEnd
    PROVE  Stream!Next
<1>1. /\ Consumed \in Nat /\ Consumed <= taken /\ callStart <= Consumed /\ callStart \in Nat
      /\ taken \in Nat /\ arrived \in Nat /\ taken <= arrived /\ arrived <= Len(input)
      /\ Len(input) \in Nat
  BY BufSizeAssumption, InputTyped
  DEF IInv, TypeOK, BufferHoldsNext, CallShape, Count, Consumed
<1>2. Stream!Limit = IF StreamEnd = -1 THEN Len(input) ELSE StreamEnd
  BY DEF Stream!Limit, StreamEnd, Stream!Unknown
<1>3. e \in 0..Len(input) /\ e \in (IF pc = "idle" THEN Consumed ELSE callStart)..Stream!Limit
  BY <1>1, <1>2 DEF StreamEnd
<1>4. Stream!End(e)
  BY <1>3 DEF Stream!End, StreamEnd
<1>5. QED BY <1>3, <1>4 DEF Stream!Next

LEMMA EnvironmentRefines == IInv /\ Environment => [Stream!Next]_(Stream!vars)
<1> SUFFICES ASSUME IInv, Environment PROVE [Stream!Next]_(Stream!vars)
  OBVIOUS
<1>1. UNCHANGED <<input, objectVars>> /\ Consumed' = Consumed
  BY NothingLeaves DEF Environment, PeerSends, PeerEnds, Tick, peerVars
<1>2. /\ UNCHANGED <<pat, wanted, chain, callStart, pc, b, err, sock, taken, input>>
  BY <1>1 DEF objectVars, callVars, argVars, bufferVars
<1>3. CASE StreamEnd' = StreamEnd
  BY <1>1, <1>2, <1>3, Inside
<1>4. CASE PeerEnds /\ sock = "open"
  <2>1. fin = "open" /\ fin' # "open" /\ arrived' \in {arrived, taken}
    BY <1>4 DEF PeerEnds
  <2>2. StreamEnd = -1 /\ StreamEnd' = arrived'
    BY <1>2, <1>4, <2>1 DEF StreamEnd
  <2>3. arrived' \in Nat /\ taken <= arrived' /\ arrived' <= Len(input)
    BY <2>1, InputTyped DEF IInv, TypeOK
  <2>4. QED BY <1>1, <1>2, <2>2, <2>3, Cut
<1>5. QED
  BY <1>2, <1>3, <1>4 DEF Environment, PeerSends, PeerEnds, Tick, peerVars, StreamEnd

LEMMA ClientRefines == IInv /\ Lengths /\ Client => [Stream!Next]_(Stream!vars)
<1> SUFFICES ASSUME IInv, Lengths, Client PROVE [Stream!Next]_(Stream!vars)
  OBVIOUS
<1>1. CASE \/ \E value \in TimeoutValues, mode \in {"b", "t"} : SetTimeout(value, mode)
           \/ \E r \in StatsValues : buffer_meth_setstats(r)
  <2>1. /\ UNCHANGED <<peerVars, sock, first, last, taken, pat, wanted, chain, callStart, b, err, pc>>
        /\ pc = "idle"
    BY <1>1 DEF SetTimeout, buffer_meth_setstats, bufferVars, callVars, argVars
  <2>2. StreamEnd' = StreamEnd /\ Consumed' = Consumed
    BY <2>1 DEF StreamEnd, peerVars, Consumed, Count
  <2>3. QED BY <2>1, <2>2, Inside DEF peerVars
<1>2. CASE socket_destroy
  <2>1. UNCHANGED <<input, pat, wanted, chain, callStart, pc, b, err>> /\ Consumed' = Consumed
    BY <1>2, NothingLeaves DEF socket_destroy, peerVars, callVars, argVars
  <2>2. StreamEnd' = taken
    BY <1>2 DEF socket_destroy, StreamEnd, bufferVars
  <2>3. /\ taken \in Nat /\ arrived \in Nat /\ taken <= arrived /\ arrived <= Len(input)
        /\ Len(input) \in Nat
    BY InputTyped DEF IInv, TypeOK
  <2>4. taken <= IF StreamEnd = -1 THEN Len(input) ELSE StreamEnd
    BY <2>3 DEF StreamEnd
  <2>5. QED BY <2>1, <2>2, <2>3, <2>4, Cut
<1>3. ASSUME NEW p, NEW n, NEW resume \in BOOLEAN, buffer_meth_receive(p, n, resume),
             (p \in {"l", "a"} /\ n = 0) \/ (p = "n" /\ n \in Wanted)
      PROVE  Stream!Next
  <2>1. /\ pc = "idle" /\ pat' = p /\ wanted' = n /\ err' = "done" /\ callStart' = Consumed
        /\ resume => err # "done" /\ p = pat
        /\ b' = IF resume THEN b ELSE <<>>
        /\ chain' = IF resume THEN chain ELSE Consumed
        /\ pc' = IF p = "n" /\ b' # <<>> /\ n <= Len(b') THEN "idle" ELSE "get"
        /\ input' = input
    BY <1>3 DEF buffer_meth_receive, peerVars
  <2>2. Consumed' = Consumed /\ StreamEnd' = StreamEnd
    <3>1. Consumed' = Consumed
      BY <1>3, NothingLeaves
    <3>2. QED BY <1>3, <3>1 DEF buffer_meth_receive, peerVars, bufferVars, StreamEnd
  <2>3. CASE pc' = "get"
    <3>1. Stream!Call(p, n, resume)
      BY <2>1, <2>2, <2>3 DEF Stream!Call, StreamEnd
    <3>2. QED BY <1>3, <3>1 DEF Stream!Next
  <2>4. CASE pc' = "idle"
    <3>1. resume /\ p = "n" /\ b # <<>> /\ n <= Len(b) /\ n \in Wanted
      BY <1>3, <2>1, <2>4
    <3>2. Len(b) = Consumed - chain /\ Consumed \in Int /\ chain \in Int /\ n \in Int
      BY <2>1, <3>1, WantedAssumption, BufSizeAssumption, InputTyped
      DEF Lengths, IInv, TypeOK, Consumed, Count
    <3>3. Len(b) \in Nat /\ Len(b) > 0
      BY <3>1 DEF IInv, TypeOK
    <3>4. Stream!Satisfied(n)
      BY <2>1, <2>2, <2>4, <3>1, <3>2, <3>3 DEF Stream!Satisfied, StreamEnd
    <3>5. QED BY <3>1, <3>4 DEF Stream!Next
  <2>5. QED BY <2>1, <2>3, <2>4
<1>4. CASE \E p \in {"l", "a"}, resume \in BOOLEAN : buffer_meth_receive(p, 0, resume)
  <2>1. PICK p \in {"l", "a"}, resume \in BOOLEAN : buffer_meth_receive(p, 0, resume)
    BY <1>4
  <2>2. QED BY <1>3, <2>1
<1>5. CASE \E n \in Wanted, resume \in BOOLEAN : buffer_meth_receive("n", n, resume)
  <2>1. PICK n \in Wanted, resume \in BOOLEAN : buffer_meth_receive("n", n, resume)
    BY <1>5
  <2>2. QED BY <1>3, <2>1
<1>6. QED BY <1>1, <1>2, <1>4, <1>5 DEF Client

\* System calls and the loops while they go on.
LEMMA SystemCallRefines ==
    ASSUME IInv,
           buffer_get \/ RecvData \/ RecvFails \/ RecvInterrupted \/ RecvWouldBlock
           \/ PollReady \/ PollFails \/ PollInterrupted \/ RecvLineByte
    PROVE  UNCHANGED Stream!vars
<1>1. /\ UNCHANGED <<input, pat, wanted, chain, callStart, sock>>
      /\ pc # "idle" /\ pc' # "idle"
  BY DEF buffer_get, RecvData, RecvFails, RecvInterrupted, RecvWouldBlock, PollReady, PollFails,
     PollInterrupted, RecvLineByte, objectVars, callVars, argVars, peerVars, BodyFrame, GetFails,
     EnterPoll
<1>2. CASE RecvData
  <2>1. sock = "open"
    BY <1>2 DEF RecvData, IInv, CallShape
  <2>2. StreamEnd' = StreamEnd
    BY <1>2, <2>1 DEF RecvData, StreamEnd, peerVars
  <2>3. QED BY <1>1, <2>2, Inside
<1>3. CASE ~RecvData
  <2>1. arrived' = arrived /\ taken' = taken
    BY <1>3 DEF buffer_get, RecvFails, RecvInterrupted, RecvWouldBlock, PollReady, PollFails,
       PollInterrupted, RecvLineByte, objectVars, peerVars, BodyFrame, GetFails, bufferVars
  <2>2. fin' = "open" <=> fin = "open"
    BY <1>3 DEF buffer_get, RecvFails, RecvInterrupted, RecvWouldBlock, PollReady, PollFails,
       PollInterrupted, RecvLineByte, objectVars, peerVars, BodyFrame
  <2>3. StreamEnd' = StreamEnd
    BY <1>1, <2>1, <2>2 DEF StreamEnd
  <2>4. QED BY <1>1, <2>3, Inside
<1>4. QED BY <1>2, <1>3

\* The types after a step of the places the refinement speaks of.
LEMMA TypedAfter ==
    ASSUME IInv'
    PROVE  Consumed' \in Nat /\ Len(b') \in Nat /\ chain' \in Nat /\ wanted' \in Nat
<1>1. Len(input') \in Nat
  BY InputsAssumption DEF IInv, TypeOK
<1>2. PICK l \in Nat : l = Len(input')
  BY <1>1
<1>3. PICK a \in 0..l : a = arrived' /\ taken' \in 0..a
  BY <1>2 DEF IInv, TypeOK
<1>4. PICK t \in Nat : t = taken'
  BY <1>3
<1>5. PICK z \in Nat : z = last' /\ first' \in 0..z
  BY BufSizeAssumption DEF IInv, TypeOK
<1>6. PICK f \in Nat : f = first'
  BY <1>5
<1>7. z - f <= t
  BY <1>4, <1>5, <1>6 DEF IInv, BufferHoldsNext, Count
<1>8. Consumed' = t - (z - f)
  BY <1>4, <1>5, <1>6 DEF Consumed, Count
<1>9. Consumed' \in Nat
  BY <1>7, <1>8
<1>10. b' \in Seq(1..Len(input')) /\ chain' \in Nat /\ wanted' \in Nat
  BY DEF IInv, TypeOK
<1>11. QED BY <1>9, <1>10

\* What a call that returns returns.
LEMMA ReplyLists ==
    ASSUME IInv', pos' = 0, UNCHANGED <<input, pat, chain>>
    PROVE  Stream!Lists(b', Stream!Kept(pat, chain, Consumed'))
<1>1. Consumed' + pos' = Consumed'
  <2>1. PICK c \in Nat : c = Consumed'
    BY TypedAfter
  <2>2. c + 0 = c
    OBVIOUS
  <2>3. QED BY <2>1, <2>2
<1>2. /\ \A i, j \in 1..Len(b') : i < j => b'[i] < b'[j]
      /\ \A i \in 1..Len(b') : b'[i] \in chain+1..Consumed' /\ Stream!Keep(pat, b'[i])
      /\ \A q \in chain+1..Consumed' : Stream!Keep(pat, q) => \E i \in 1..Len(b') : b'[i] = q
  BY <1>1 DEF IInv, ReplyExact, Keep, Stream!Keep
<1>3. QED BY <1>2 DEF Stream!Lists, Stream!Kept

\* The loops when they return.
LEMMA LoopsRefine ==
    ASSUME IInv, IInv', Lengths, Lengths', RecvLineFound \/ RecvLineEnd \/ RecvAll \/ RecvRaw
    PROVE  [Stream!Next]_(Stream!vars)
<1>1. /\ UNCHANGED <<input, arrived, fin, sock, pat, wanted, chain, callStart>>
      /\ pc = "body" /\ pc' \in {"idle", "get"} /\ pos' = 0
  BY DEF RecvLineFound, RecvLineEnd, RecvAll, RecvRaw, BodyFrame, argVars, peerVars, IInv, CallShape
<1>2. PICK n \in 0..Count : buffer_skip(n)
  BY LoopsSkip
<1>3. Consumed' = Consumed + n /\ taken' = taken /\ StreamEnd' = StreamEnd
  BY <1>1, <1>2, SkipProperties DEF StreamEnd
<1>4. CASE pc' = "get"
  BY <1>1, <1>3, <1>4, Inside
<1>5. ASSUME pc' = "idle" PROVE Stream!Next
  <2>1. /\ Consumed' \in Nat /\ callStart \in Nat /\ callStart <= Consumed'
        /\ Consumed' \in callStart..Stream!Limit
    BY <1>2, <1>3, InStream
  <2>2. Stream!Return(Consumed', err')
    <3>1. Stream!Lists(b', Stream!Kept(pat, chain, Consumed'))
      BY <1>1, ReplyLists
    <3>2. QED BY <1>1, <1>3, <1>5, <3>1 DEF Stream!Return, StreamEnd
  <2>3. /\ err' \in {"done", "timeout", "closed", "error"}
        /\ chain \in Nat /\ wanted \in Nat /\ Len(b') \in Nat /\ Len(b) \in Nat /\ Count \in Nat
        /\ Consumed \in Nat /\ taken \in Nat /\ total \in Nat /\ pos \in 0..Count
    <3>1. err' \in {"done", "timeout", "closed", "error"} /\ Len(b') \in Nat
      BY TypedAfter DEF IInv, TypeOK
    <3>2. QED
      BY <3>1, BufSizeAssumption, InputTyped DEF IInv, TypeOK, Count, Consumed, BufferHoldsNext
  <2>4. ASSUME err' = "done", Stream!ReturnResult(Consumed') PROVE Stream!Next
    BY <1>1, <2>1, <2>4 DEF Stream!Next
  <2>5. ASSUME err' # "done", Stream!ReturnPartial(Consumed', err') PROVE Stream!Next
    BY <1>1, <2>1, <2>3, <2>5 DEF Stream!Next, Stream!Errors
  <2>6. CASE RecvLineFound
    <3>1. pat = "l" /\ err' = "done"
      BY <2>3, <2>6 DEF RecvLineFound, IInv, CallShape, Count, TypeOK
    <3>2. Consumed' = Consumed + pos + 1 /\ callStart < Consumed'
      <4>1. pos + 1 \in 0..Count /\ buffer_skip(pos + 1)
        BY <2>3, <2>6 DEF RecvLineFound
      <4>2. Consumed' = Consumed + (pos + 1)
        BY <4>1, SkipProperties
      <4>3. callStart <= Consumed
        BY DEF IInv, CallShape
      <4>4. QED BY <2>1, <2>3, <4>2, <4>3
    <3>3. input[Consumed'] = "lf" /\ \A q \in chain+1..Consumed'-1 : input[q] # "lf"
      BY <1>1, <1>5, <3>1 DEF IInv, LineExact
    <3>4. Stream!ReturnResult(Consumed')
      BY <1>1, <2>2, <3>1, <3>2, <3>3 DEF Stream!ReturnResult, Stream!NoLineIn
    <3>5. QED BY <2>4, <3>1, <3>4
  <2>7. ASSUME err # "done", err' = err, RecvLineEnd \/ RecvAll \/ RecvRaw,
               pat = "a" /\ err = "closed" => Consumed' = callStart
        PROVE  Stream!Next
    <3>1. Count = 0 /\ n = 0 /\ Consumed = taken /\ Consumed' = Consumed
      <4>1. first = last /\ first \in Int
        BY <1>1, <2>7, BufSizeAssumption DEF IInv, CallShape, TypeOK
      <4>2. Count = 0
        BY <4>1 DEF Count
      <4>3. QED BY <1>3, <2>3, <4>2 DEF Consumed
    <3>2. err = "closed" => Consumed' = StreamEnd
      BY <1>1, <2>7, <3>1 DEF IInv, CallShape, StreamEnd
    <3>3. pat = "l" => \A q \in chain+1..Consumed' : input[q] # "lf"
      <4>1. Consumed' + pos' = Consumed'
        <5>1. PICK c \in Nat : c = Consumed'
          BY <2>1
        <5>2. c + 0 = c
          OBVIOUS
        <5>3. QED BY <1>1, <5>1, <5>2
      <4>2. UNCHANGED <<input, pat, chain>> /\ err' # "done"
        BY <1>1, <2>7
      <4>3. LineExact'
        BY DEF IInv
      <4>4. QED BY <4>1, <4>2, <4>3 DEF LineExact
    <3>4. pat = "n" => Consumed' - chain < wanted \/ (wanted = 0 /\ Consumed' = callStart)
      <4>1. SUFFICES ASSUME pat = "n"
                     PROVE  Consumed' - chain < wanted \/ (wanted = 0 /\ Consumed' = callStart)
        OBVIOUS
      <4>2. Len(b) = Consumed - chain /\ (Len(b) < wanted \/ (wanted = 0 /\ Len(b) = 0))
        BY <1>1, <4>1 DEF Lengths
      <4>3. chain <= callStart /\ callStart <= Consumed
        BY DEF IInv, CallShape
      <4>4. QED BY <2>1, <2>3, <3>1, <4>2, <4>3
    <3>5. Stream!ReturnPartial(Consumed', err')
      BY <1>1, <2>2, <2>7, <3>2, <3>3, <3>4 DEF Stream!ReturnPartial, Stream!NoLineIn, StreamEnd
    <3>6. QED BY <2>5, <2>7, <3>5
  <2>8. CASE RecvLineEnd
    BY <1>5, <2>7, <2>8 DEF RecvLineEnd
  <2>9. CASE RecvAll
    <3>1. pat = "a" /\ err # "done" /\ total' = total + Count
          /\ err' = IF err = "closed" /\ total' > 0 THEN "done" ELSE err
      BY <1>5, <2>9 DEF RecvAll
    <3>2. CASE err' = "done"
      <4>1. Consumed' = taken' /\ callStart' < Consumed' /\ (sock = "open" => fin # "open" /\ arrived = taken)
        BY <1>1, <1>3, <1>5, <3>1, <3>2 DEF IInv, AllExact
      <4>2. Consumed' = StreamEnd
        BY <1>3, <4>1 DEF StreamEnd
      <4>3. Stream!ReturnResult(Consumed')
        BY <1>1, <2>2, <3>1, <3>2, <4>1, <4>2 DEF Stream!ReturnResult, StreamEnd
      <4>4. QED BY <2>4, <3>2, <4>3
    <3>3. CASE err' # "done"
      <4>1. err = "closed" => total + Count <= 0
        BY <2>3, <3>1, <3>3 DEF IInv, TypeOK
      <4>2. total = Consumed - callStart /\ total \in Nat
        BY <1>1, <3>1 DEF IInv, CallShape, TypeOK
      <4>3. err = "closed" => Consumed' = callStart
        BY <1>3, <2>1, <2>3, <4>1, <4>2
      <4>4. QED BY <2>7, <2>9, <3>1, <3>3, <4>3
    <3>4. QED BY <3>2, <3>3
  <2>10. CASE RecvRaw
    <3>1. pat = "n" /\ err' = err /\ (Len(b') >= wanted \/ err # "done")
      BY <1>5, <2>10 DEF RecvRaw
    <3>2. CASE err = "done"
      <4>1. b' = b \o Front(MIN(Count, wanted - Len(b))) /\ buffer_skip(MIN(Count, wanted - Len(b)))
        BY <2>10 DEF RecvRaw
      <4>2. Len(b) <= wanted
        BY <1>1, <3>1 DEF IInv, CountExact
      <4>3. MIN(Count, wanted - Len(b)) \in 0..Count /\ MIN(Count, wanted - Len(b)) <= wanted - Len(b)
        BY <2>3, <4>2 DEF MIN
      <4>4. pos' = pos
        BY <2>10 DEF RecvRaw
      <4>5. Len(b') = Len(b) + MIN(Count, wanted - Len(b))
        BY <1>1, <3>1, <4>1, <4>3, <4>4, FrontProperties
      <4>6. Len(b') = wanted
        BY <2>3, <3>1, <3>2, <4>3, <4>5
      <4>7. Consumed' = chain + wanted
        <5>1. Len(b') = Consumed' - chain'
          BY <1>1, <3>1 DEF Lengths
        <5>2. PICK c \in Nat : c = Consumed'
          BY <2>1
        <5>3. chain' = chain
          BY <1>1
        <5>4. wanted = c - chain
          BY <4>6, <5>1, <5>2, <5>3
        <5>5. c = chain + wanted
          BY <2>3, <5>4
        <5>6. QED BY <5>2, <5>5
      <4>8. Stream!ReturnResult(Consumed')
        BY <1>1, <2>2, <3>1, <3>2, <4>7 DEF Stream!ReturnResult
      <4>9. QED BY <2>4, <3>1, <3>2, <4>8
    <3>3. CASE err # "done"
      BY <2>7, <2>10, <3>1, <3>3
    <3>4. QED BY <3>2, <3>3
  <2>11. QED BY <2>6, <2>8, <2>9, <2>10
<1>6. QED BY <1>1, <1>4, <1>5

\* The calls of receive, with their buffer, system calls and limits, do what ByteStream
\* promises of a connection: each takes effect once, when it returns.
THEOREM Implements == Spec => StreamSpec
<1>1. Init => Lengths /\ Stream!Init
  <2>1. Init => Lengths
    BY DEF Init, Lengths, Consumed, Count
  <2>2. Init => Stream!Init
    BY DEF Init, Stream!Init, Stream!Unknown, Consumed, Count
  <2>3. QED BY <2>1, <2>2
<1>2. IInv /\ IInv' /\ Lengths /\ [Next]_vars => Lengths'
  BY NextLengths
<1>3. IInv /\ IInv' /\ Lengths /\ Lengths' /\ [Next]_vars => [Stream!Next]_(Stream!vars)
  <2> SUFFICES ASSUME IInv, IInv', Lengths, Lengths', [Next]_vars
               PROVE  [Stream!Next]_(Stream!vars)
    OBVIOUS
  <2>1. CASE Environment
    BY <2>1, EnvironmentRefines
  <2>2. CASE Client
    BY <2>2, ClientRefines
  <2>3. CASE Call
    BY <2>3, SystemCallRefines, LoopsRefine DEF Call
  <2>4. CASE UNCHANGED vars
    BY <2>4 DEF vars, peerVars, objectVars, bufferVars, callVars, argVars, Stream!vars, Consumed,
       Count
  <2>5. QED BY <2>1, <2>2, <2>3, <2>4 DEF Next
<1>4. QED BY <1>1, <1>2, <1>3, Invariance, PTL DEF Spec, StreamSpec, Stream!Spec
=============================================================================
